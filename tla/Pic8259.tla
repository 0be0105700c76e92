------------------------------- MODULE Pic8259 -------------------------------
(***************************************************************************)
(* One 8259 interrupt controller of src/pic.c, as a record that its        *)
(* functions transform.  Registers that hold a bit per line are sets of    *)
(* lines.  The vector an acknowledge returns is the line it stands for, so *)
(* ICW2, which only offsets vectors, is left out.                          *)
(***************************************************************************)
EXTENDS Integers

CONSTANTS
    L,      \* lines of a controller, 8
    Wrap    \* counts of a line, 2^32

ASSUME LinesAssumption == L \in Nat \ {0, 1}
ASSUME WrapAssumption == Wrap \in Nat \ {0, 1}

Line == 0 .. L - 1
NoLine == -1

(* "interrupt": the line (the last one if there is none), and the bits     *)
(* 0x10 for none, 0x20 for frozen and 0x40 for a slave's.                  *)
Request(i) == [line |-> i, none |-> FALSE, frozen |-> FALSE, slave |-> FALSE]
NoRequest  == [Request(L - 1) EXCEPT !.none = TRUE]

Icw4 == [upm : BOOLEAN, aeoi : BOOLEAN]

(* The controller after pic_reset(), with the icw3 that it starts from. *)
Cleared(icw3) ==
    [ltim |-> FALSE, single |-> FALSE, ic4 |-> FALSE, icw3 |-> icw3,
     icw4 |-> [upm |-> FALSE, aeoi |-> FALSE],
     irr |-> {}, imr |-> {}, isr |-> {}, poll |-> FALSE, smm |-> FALSE,
     int_pending |-> FALSE, interrupt |-> NoRequest, state |-> "NONE",
     ack_bytes |-> 0, priority |-> 0, auto_eoi_rotate |-> FALSE, elcr |-> {},
     lines |-> [i \in Line |-> 0]]

Chip(icw3s) ==
    [ltim : BOOLEAN, single : BOOLEAN, ic4 : BOOLEAN, icw3 : icw3s, icw4 : Icw4,
     irr : SUBSET Line, imr : SUBSET Line, isr : SUBSET Line, poll : BOOLEAN,
     smm : BOOLEAN, int_pending : BOOLEAN,
     interrupt : [line : Line, none : BOOLEAN, frozen : BOOLEAN, slave : BOOLEAN],
     state : {"NONE", "ICW2", "ICW3", "ICW4"}, ack_bytes : {0, 1}, priority : Line,
     auto_eoi_rotate : BOOLEAN, elcr : SUBSET Line, lines : [Line -> 0 .. Wrap - 1]]

-----------------------------------------------------------------------------
(* How far a line is from the highest priority: "(i + dev->priority) & 7"  *)
(* is the i-th line.                                                       *)
Rank(c, i) == (i - c.priority) % L

(* The lines of a set, the one of highest priority first. *)
Highest(c, lines) ==
    IF lines = {} THEN NoLine
    ELSE CHOOSE i \in lines : \A j \in lines : Rank(c, i) <= Rank(c, j)

(* Lines that may interrupt: requested, not masked, and before every line  *)
(* in service.                                                             *)
Contenders(c) == {i \in c.irr \ c.imr : \A j \in c.isr : Rank(c, i) < Rank(c, j)}

find_best_interrupt(c) ==
    IF c.state = "NONE" THEN Highest(c, Contenders(c)) ELSE NoLine

(* ... and what the update keeps of it. *)
Refreshed(c) ==
    LET best == find_best_interrupt(c)
    IN  [c EXCEPT !.int_pending = best # NoLine,
                  !.interrupt = IF best = NoLine THEN NoRequest ELSE Request(best)]

pic_level_triggered(c, i, elcr_enabled) == IF elcr_enabled THEN i \in c.elcr ELSE c.ltim

(* The line goes into service; the request stays if the line is level      *)
(* triggered and asserted.                                                 *)
pic_acknowledge(c, elcr_enabled) ==
    LET i == c.interrupt.line
    IN  [c EXCEPT !.isr = @ \cup {i},
                  !.irr = IF ~ pic_level_triggered(c, i, elcr_enabled) \/ c.lines[i] = 0
                          THEN @ \ {i} ELSE @]

(* Seeded fault: the lowest line in service is found. *)
LowestInService(c) ==
    IF c.isr = {} THEN NoLine
    ELSE CHOOSE i \in c.isr : \A j \in c.isr : Rank(c, j) <= Rank(c, i)

pic_non_specific_find(c) == Highest(c, IF c.smm THEN c.isr \ c.imr ELSE c.isr)

EndedForgets(c, i, eoi, rotate) ==
    [c EXCEPT !.isr = IF eoi THEN @ \ {i} ELSE @, !.irr = @ \ {i},
              !.priority = IF rotate THEN (i + 1) % L ELSE @]

(* pic_action() without its update. *)
Ended(c, i, eoi, rotate) ==
    [c EXCEPT !.isr = IF eoi THEN @ \ {i} ELSE @,
              !.priority = IF rotate THEN (i + 1) % L ELSE @]

-----------------------------------------------------------------------------
(* Writes to the command and the data port; none updates by itself. *)

(* Seeded fault: the requests of asserted lines are forgotten. *)
Icw1Forgets(c, word, icw3) ==
    [Cleared(icw3) EXCEPT !.ltim = word.ltim, !.single = word.single, !.ic4 = word.ic4,
                          !.icw4 = IF word.ic4 THEN c.icw4 ELSE @,
                          !.state = "ICW2", !.elcr = c.elcr, !.lines = c.lines]

Icw1Written(c, word, icw3) ==
    [Cleared(icw3) EXCEPT !.ltim = word.ltim, !.single = word.single, !.ic4 = word.ic4,
                          !.icw4 = IF word.ic4 THEN c.icw4 ELSE @,
                          !.irr = {i \in Line : c.lines[i] # 0},
                          !.state = "ICW2", !.elcr = c.elcr, !.lines = c.lines]

(* The word after ICW3, or after ICW2 where there is no ICW3. *)
AfterIcw3(c) == IF c.ic4 THEN "ICW4" ELSE "NONE"

Icw2Written(c)       == [c EXCEPT !.state = IF c.single THEN AfterIcw3(c) ELSE "ICW3"]
Icw3Written(c, icw3) == [c EXCEPT !.icw3 = icw3, !.state = AfterIcw3(c)]
Icw4Written(c, icw4) == [c EXCEPT !.icw4 = icw4, !.state = "NONE"]

(* OCW3: a poll command freezes the request that will answer it. *)
Ocw3Written(c, word) ==
    [c EXCEPT !.poll = word.poll,
              !.interrupt.frozen = @ \/ word.poll,
              !.smm = IF word.esmm THEN word.smm ELSE @]
==============================================================================
