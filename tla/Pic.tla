--------------------------------- MODULE Pic ---------------------------------
(***************************************************************************)
(* The interrupt controllers of the PC, src/pic.c: a master and, in an AT, *)
(* a slave behind one of its lines, between devices that raise and lower   *)
(* interrupt lines, the guest that programs both controllers, and the CPU  *)
(* that acknowledges.  Everything runs on the CPU thread; a 386 core       *)
(* acknowledges in one go (picinterrupt), an 808x core lets timers, and so *)
(* devices, run before each of its two acknowledges (pic_irq_ack).         *)
(***************************************************************************)
EXTENDS Pic8259, FiniteSets

CONSTANTS
    Cascade,    \* the master's line the slave is on, 2
    Irq,        \* device -> its interrupt, <<chip, line>>
    Machines,   \* the machines, each with what its guest does
    Config      \* machine -> its configuration

Pair(S) == [m : S, s : S]

Configuration ==
    [at : BOOLEAN,              \* whether there is a slave
     is286 : BOOLEAN,           \* whether the CPU is a 286 or later
     elcr_enabled : BOOLEAN,    \* whether a line's trigger mode is chosen by ELCR
     elcr : Pair(SUBSET Line),  \* the level-triggered lines, as firmware sets ELCR
     edge : SUBSET DOMAIN Irq,  \* the devices that call picint() ...
     level : SUBSET DOMAIN Irq, \* ... and picintlevel()
     latches : SUBSET ({"m", "s"} \X Line), \* interrupts that port 60h clears
     icw1s : SUBSET [ltim : BOOLEAN, single : BOOLEAN, ic4 : BOOLEAN],
     icw4s : SUBSET Icw4, masks : SUBSET SUBSET Line,
     commands : SUBSET [sl : BOOLEAN, eoi : BOOLEAN, rotate : BOOLEAN, line : Line],
     ocw3s : SUBSET ({"m", "s"} \X [poll : BOOLEAN, esmm : BOOLEAN, smm : BOOLEAN]),
     initIF : BOOLEAN]          \* whether it initialises with interrupts enabled

ASSUME PicAssumption ==
    /\ Cascade \in Line \ {0} /\ Irq \in [DOMAIN Irq -> {"m", "s"} \X Line]
    /\ \A k \in Machines :
           /\ Config[k] \in Configuration /\ Config[k].edge \cap Config[k].level = {}
           /\ IsFiniteSet(Config[k].level) /\ Cardinality(Config[k].level) < Wrap

VARIABLES
    machine,    \* the machine, which never changes
    pic,        \* the two controllers, m for "pic" and s for "pic2"
    irq_state,  \* level devices that assert their interrupt
    latched,    \* latched_irqs
    cpu,        \* "run", or "ack" on an 808x between its check and the end
    vector,     \* the interrupt the CPU took last
    ready,      \* history: controllers initialised, and masked since
    acked,      \* history: the interrupt the last first acknowledge put in service
    nest,       \* history: chip -> pairs <<j, i>> of lines in service, i after j
    strayed     \* history: lines that missed a change of a device, or got another's

vars == <<machine, pic, irq_state, latched, cpu, vector, ready, acked, nest, strayed>>
history == <<ready, acked, nest, strayed>>

AT           == Config[machine].at
Is286        == Config[machine].is286
elcr_enabled == Config[machine].elcr_enabled
Edge         == Config[machine].edge
Level        == Config[machine].level
Latches      == Config[machine].latches

Chips == IF AT THEN {"m", "s"} ELSE {"m"}
Icw3(d) == IF d = "m" THEN {Cascade} ELSE Cascade
NoIcw3(d) == IF d = "m" THEN {} ELSE 0

-----------------------------------------------------------------------------
(* update_pending(): not while the master is frozen.  The slave drives the *)
(* master's line that its ICW3 names.                                      *)
update_pending(p) ==
    IF p.m.interrupt.frozen THEN p
    ELSE IF ~ AT THEN [p EXCEPT !.m = Refreshed(@)]
    ELSE LET s == Refreshed(p.s)
             irr == IF s.int_pending THEN p.m.irr \cup {s.icw3} ELSE p.m.irr \ {s.icw3}
         IN  [m |-> Refreshed([p.m EXCEPT !.irr = irr]), s |-> s]

(* Seeded fault: the priority changes and nothing looks at it. *)
ActionNoUpdate(p, d, i, eoi, rotate) ==
    IF i = NoLine THEN p ELSE [p EXCEPT ![d] = Ended(@, i, eoi, rotate)]

pic_action(p, d, i, eoi, rotate) ==
    IF i = NoLine THEN p ELSE update_pending([p EXCEPT ![d] = Ended(@, i, eoi, rotate)])

pic_auto_non_specific_eoi(p, d) ==
    IF p[d].icw4.aeoi
    THEN pic_action(p, d, pic_non_specific_find(p[d]), TRUE, p[d].auto_eoi_rotate)
    ELSE p

pic_slave_on(c) == ~ c.single /\ ~ c.interrupt.none /\ c.interrupt.line \in c.icw3

-----------------------------------------------------------------------------
(* Devices: picint_common(). *)

(* Where interrupt irq goes: an input with a slave on it is no interrupt,  *)
(* except that an AT has moved IRQ 2 to IRQ 9.                             *)
Target(irq) ==
    IF irq[1] = "m" /\ irq[2] \in pic.m.icw3
    THEN IF AT /\ irq[2] = Cascade THEN <<"s", 1>> ELSE <<>>
    ELSE irq

(* Interrupts of the slave count only while the master knows of a slave. *)
Reached(t) == t[1] = "m" \/ pic.m.icw3 # {}

Driven(p, t, set) ==
    update_pending([p EXCEPT ![t[1]].irr = IF set THEN @ \cup {t[2]} ELSE @ \ {t[2]}])

Latched(t, set) ==
    IF t \notin Latches THEN latched
    ELSE IF set THEN latched \cup {t} ELSE latched \ {t}

picint(d, set) ==
    LET t == Target(Irq[d])
    IN  /\ t # <<>> /\ Reached(t)
        /\ pic' = Driven(pic, t, set) /\ latched' = Latched(t, set)
        /\ UNCHANGED <<machine, irq_state, cpu, vector, history>>

(* The request follows the line only if the line changed as a whole. *)
PassedOn(c, i, changed, set) ==
    \/ ~ pic_level_triggered(c, i, elcr_enabled)
    \/ changed /\ c.lines[i] = IF set THEN 1 ELSE 0

(* Where irq belongs once an AT's master knows of its slave. *)
Home(irq) == IF AT /\ irq = <<"m", Cascade>> THEN <<"s", 1>> ELSE irq

(* A device changes its line, and the change goes to t: until the master   *)
(* is told of its slave, that may be another line, or none.                *)
Stray(irq, t, changed) ==
    IF changed /\ ~ (t = Home(irq) /\ Reached(t)) THEN strayed \cup {Home(irq), t} ELSE strayed

(* The new state of the device is noted even if nothing counts it. *)
picintlevel(d, set) ==
    LET t == Target(Irq[d])
        changed == (d \in irq_state) # set
        counted == IF changed /\ Reached(t)
                   THEN [pic EXCEPT ![t[1]].lines[t[2]] = (IF set THEN @ + 1 ELSE @ - 1) % Wrap]
                   ELSE pic
        passed == Reached(t) /\ PassedOn(counted[t[1]], t[2], changed, set)
    IN  /\ t # <<>>
        /\ irq_state' = IF set THEN irq_state \cup {d} ELSE irq_state \ {d}
        /\ pic' = IF passed THEN Driven(counted, t, set) ELSE counted
        /\ latched' = IF passed THEN Latched(t, set) ELSE latched
        /\ strayed' = Stray(Irq[d], t, changed)
        /\ UNCHANGED <<machine, cpu, vector, ready, acked, nest>>

(* The order of the lines in service once the controllers are p: lines     *)
(* that entered come after those that were there.                          *)
Nested(p) ==
    [d \in {"m", "s"} |->
        LET isr == pic[d].isr
        IN  (nest[d] \cup (isr \X (p[d].isr \ isr))) \cap (p[d].isr \X p[d].isr)]

-----------------------------------------------------------------------------
(* The guest, while the CPU is not acknowledging. *)

(* Reading port 60h lowers the latched interrupts. *)
pic_latch_read(t) ==
    /\ cpu = "run" /\ t \in latched /\ Reached(t)
    /\ pic' = Driven(pic, t, FALSE) /\ latched' = Latched(t, FALSE)
    /\ UNCHANGED <<machine, irq_state, cpu, vector, history>>

WriteIcw1(d, word) ==
    /\ cpu = "run"
    /\ pic' = update_pending([pic EXCEPT ![d] = Icw1Written(@, word, NoIcw3(d))])
    /\ ready' = ready \ {d} /\ nest' = Nested(pic')
    /\ UNCHANGED <<machine, irq_state, latched, cpu, vector, acked, strayed>>

WriteIcw(d) ==
    /\ cpu = "run"
    /\ \/ pic[d].state = "ICW2" /\ pic' = [pic EXCEPT ![d] = Icw2Written(@)]
       \/ pic[d].state = "ICW3" /\ pic' = [pic EXCEPT ![d] = Icw3Written(@, Icw3(d))]
       \/ /\ pic[d].state = "ICW4"
          /\ \E icw4 \in Config[machine].icw4s : pic' = [pic EXCEPT ![d] = Icw4Written(@, icw4)]
    /\ UNCHANGED <<machine, irq_state, latched, cpu, vector, history>>

(* Seeded fault: a new mask waits for the next interrupt to take effect. *)
Masked(d, mask) == [pic EXCEPT ![d].imr = mask]

(* On an 808x the update is left to a timer, armed for no time at all:     *)
(* timer_on_auto() stops it.                                               *)
ImrWritten(d, mask) ==
    LET p == [pic EXCEPT ![d].imr = mask] IN IF Is286 THEN update_pending(p) ELSE p

WriteOcw1(d, mask) ==
    /\ cpu = "run" /\ pic[d].state = "NONE"
    /\ pic' = ImrWritten(d, mask)
    /\ ready' = IF pic[d].icw4.upm THEN ready \cup {d} ELSE ready
    /\ UNCHANGED <<machine, irq_state, latched, cpu, vector, acked, nest, strayed>>

(* pic_command(): end and rotate a given line, or the first in service. *)
WriteOcw2(d, word) ==
    LET i == IF word.sl THEN word.line ELSE pic_non_specific_find(pic[d])
    IN  /\ cpu = "run"
        /\ IF word.sl \/ word.eoi
           THEN pic' = pic_action(pic, d, i, word.eoi, word.rotate)
           ELSE pic' = [pic EXCEPT ![d].auto_eoi_rotate = word.rotate]
        /\ nest' = Nested(pic')
        /\ UNCHANGED <<machine, irq_state, latched, cpu, vector, ready, acked, strayed>>

WriteOcw3(d, word) ==
    /\ cpu = "run"
    /\ pic' = [pic EXCEPT ![d] = Ocw3Written(@, word)]
    /\ UNCHANGED <<machine, irq_state, latched, cpu, vector, history>>

(* pic_read() after a poll command; other reads change nothing. *)
ReadPoll(d) ==
    LET c == [pic[d] EXCEPT !.interrupt.frozen = FALSE, !.poll = FALSE]
    IN  /\ cpu = "run" /\ pic[d].poll
        /\ IF c.int_pending
           THEN pic' = update_pending([pic EXCEPT ![d] =
                           [pic_acknowledge(c, elcr_enabled) EXCEPT !.int_pending = FALSE]])
           ELSE pic' = [pic EXCEPT ![d] = c]
        /\ nest' = Nested(pic')
        /\ UNCHANGED <<machine, irq_state, latched, cpu, vector, ready, acked, strayed>>

-----------------------------------------------------------------------------
(* The CPU. *)

(* Seeded fault: the request is not frozen. *)
AcknowledgedThawed(c) == pic_acknowledge(c, elcr_enabled)

Acknowledged(c) == pic_acknowledge([c EXCEPT !.interrupt.frozen = TRUE], elcr_enabled)

(* pic_irq_ack_read(): the first acknowledge, of the master and of the     *)
(* slave if the request is a slave's ...                                   *)
AckFirst(p) ==
    [m |-> [Acknowledged(p.m) EXCEPT !.ack_bytes = 1],
     s |-> IF p.m.interrupt.slave THEN Acknowledged(p.s) ELSE p.s]

AckIrq(p) ==
    IF p.m.interrupt.slave THEN <<"s", p.s.interrupt.line>> ELSE <<"m", p.m.interrupt.line>>

(* ... and the second, which gives the vector and thaws the controllers.   *)
AckSecond(p) ==
    LET slave == p.m.interrupt.slave
        p1 == [p EXCEPT !.m.int_pending = FALSE,
                        !.s.int_pending = IF slave THEN FALSE ELSE @]
        p2 == IF slave THEN pic_auto_non_specific_eoi(p1, "s") ELSE p1
        p3 == pic_auto_non_specific_eoi(p2, "m")
    IN  update_pending([p3 EXCEPT !.m.ack_bytes = 0, !.m.interrupt = NoRequest,
                                  !.s.interrupt = IF slave THEN NoRequest ELSE @])

(* The CPU takes interrupts.  A guest that polls has them disabled until   *)
(* the poll is over.                                                       *)
InterruptsOn ==
    /\ ~ pic.m.interrupt.frozen
    /\ IF Config[machine].initIF THEN \A d \in Chips : pic[d].icw4.upm ELSE ready = Chips

(* Marks the request as the slave's. *)
FromSlave == [pic EXCEPT !.m.interrupt.slave = TRUE]

(* picinterrupt(): both acknowledges at once.  If the slave has nothing,   *)
(* it is made to have a spurious request.                                  *)
picinterrupt ==
    LET p == IF ~ pic_slave_on(pic.m) THEN pic
             ELSE IF pic.s.int_pending THEN FromSlave
             ELSE [pic EXCEPT !.s.int_pending = TRUE, !.s.interrupt = Request(L - 1)]
    IN  /\ Is286 /\ InterruptsOn /\ pic.m.int_pending
        /\ pic' = AckSecond(AckFirst(p))
        /\ vector' = AckIrq(p) /\ acked' = AckIrq(p)
        /\ nest' = Nested(pic')
        /\ UNCHANGED <<machine, irq_state, latched, cpu, ready, strayed>>

(* An 808x decides to take the interrupt, then waits three cycles. *)
check_interrupts ==
    /\ ~ Is286 /\ cpu = "run" /\ InterruptsOn /\ pic.m.int_pending
    /\ cpu' = "ack"
    /\ UNCHANGED <<machine, pic, irq_state, latched, vector, history>>

(* Where pic_irq_ack() has its fatal(). *)
SlaveMissing == pic.m.int_pending /\ pic_slave_on(pic.m) /\ ~ pic.s.int_pending

pic_irq_ack ==
    LET p == IF pic.m.int_pending /\ pic_slave_on(pic.m) THEN FromSlave ELSE pic
    IN  /\ cpu = "ack" /\ pic.m.ack_bytes = 0 /\ ~ SlaveMissing
        /\ pic' = AckFirst(p) /\ acked' = AckIrq(p)
        /\ nest' = Nested(pic')
        /\ UNCHANGED <<machine, irq_state, latched, cpu, vector, ready, strayed>>

IrqAckSecond ==
    /\ cpu = "ack" /\ pic.m.ack_bytes = 1
    /\ pic' = AckSecond(pic) /\ vector' = AckIrq(pic)
    /\ cpu' = "run" /\ nest' = Nested(pic')
    /\ UNCHANGED <<machine, irq_state, latched, ready, acked, strayed>>

-----------------------------------------------------------------------------
Init ==
    /\ machine \in Machines
    /\ pic = [m |-> [Cleared({}) EXCEPT !.elcr = Config[machine].elcr.m],
              s |-> [Cleared(0) EXCEPT !.elcr = Config[machine].elcr.s]]
    /\ irq_state = {} /\ latched = {}
    /\ cpu = "run" /\ vector = <<>>
    /\ ready = {} /\ acked = <<>> /\ nest = [d \in {"m", "s"} |-> {}]
    /\ strayed = {}

Device ==
    \E set \in BOOLEAN :
        \/ \E d \in Edge : picint(d, set)
        \/ \E d \in Level : picintlevel(d, set)

Guest(d) ==
    \/ \E word \in Config[machine].icw1s : WriteIcw1(d, word)
    \/ WriteIcw(d)
    \/ \E mask \in Config[machine].masks : WriteOcw1(d, mask)
    \/ \E word \in Config[machine].commands : WriteOcw2(d, word)
    \/ \E o \in Config[machine].ocw3s : o[1] = d /\ WriteOcw3(d, o[2])
    \/ ReadPoll(d)

Next ==
    \/ Device
    \/ \E d \in Chips : Guest(d)
    \/ \E t \in Latches : pic_latch_read(t)
    \/ picinterrupt
    \/ check_interrupts \/ pic_irq_ack \/ IrqAckSecond

Spec == Init /\ [][Next]_vars

-----------------------------------------------------------------------------
(* Every variable has its type. *)
TypeOK ==
    /\ machine \in Machines
    /\ pic \in [m : Chip(SUBSET Line), s : Chip(Line)]
    /\ irq_state \subseteq Level /\ latched \subseteq Latches
    /\ cpu \in {"run", "ack"}
    /\ ready \subseteq Chips
    /\ strayed \subseteq {"m", "s"} \X Line

(* A line that may interrupt, judged from the registers alone. *)
Due(c, i) ==
    /\ i \in c.irr /\ i \notin c.imr
    /\ \A j \in c.isr : Rank(c, i) < Rank(c, j)
    /\ \A j \in c.irr \ c.imr : Rank(c, i) <= Rank(c, j)

LineDue(t) == Due(pic[t[1]], t[2]) /\ (t[1] = "s" => Due(pic.m, Cascade))

(* The CPU never takes a stale request: the interrupt it is given is, at   *)
(* that moment, requested, unmasked and the first in priority, on the      *)
(* slave and on the master's line in front of it.  An 808x decides before  *)
(* it acknowledges, and a device may lower its line in between: only then  *)
(* does it take the spurious IRQ 7; and if a better request came in        *)
(* between, it takes that.                                                 *)
DeliveredIsDue ==
    [][/\ picinterrupt => LineDue(vector')
       /\ pic_irq_ack => IF pic.m.int_pending THEN LineDue(acked')
                                              ELSE acked' = <<"m", L - 1>>]_vars

(* "int_pending" is never behind the registers it was computed from,       *)
(* whatever was programmed, raised, lowered, acknowledged or ended: no     *)
(* interrupt waits unseen.  A poll command, "Freeze the interrupt until    *)
(* the poll is over", holds it back until its answer was read.  (An 808x   *)
(* writes masks without an update: ImrWritten.)                            *)
PendingNoticed ==
    Is286 /\ ready = Chips /\ ~ pic.m.interrupt.frozen =>
        /\ pic.m.int_pending <=> Contenders(pic.m) # {}
        /\ AT => (Cascade \in pic.m.irr <=> Contenders(pic.s) # {})

(* Handlers end in the order they were entered: the line that a            *)
(* non-specific EOI ends is the one that went into service last, also when *)
(* priorities rotate.  (Special mask mode leaves masked lines out, and the *)
(* spurious IRQ 7 of an 808x goes into service below the one before it.)   *)
InnermostFirst ==
    \A d \in Chips : Is286 /\ ~ pic[d].smm =>
        LET i == pic_non_specific_find(pic[d])
        IN  \A j \in pic[d].isr \ {i} : <<j, i>> \in nest[d]

(* A request is lost only when it is acknowledged, lowered, or its         *)
(* controller initialised.  The line that the slave's ICW3 names follows   *)
(* the slave; until ICW3 is written that is line 0.                        *)
Taken(d, i) ==
    /\ picinterrupt \/ pic_irq_ack
    /\ acked' = <<d, i>> \/ (acked'[1] = "s" /\ <<d, i>> = <<"m", Cascade>>)

RequestKept ==
    [][\A d \in Chips : \A i \in pic[d].irr \ pic'[d].irr :
          \/ Taken(d, i)
          \/ ReadPoll(d) /\ i = pic[d].interrupt.line
          \/ \E e \in Edge : picint(e, FALSE) /\ Target(Irq[e]) = <<d, i>>
          \/ \E e \in Level : picintlevel(e, FALSE) /\ Target(Irq[e]) = <<d, i>>
          \/ pic_latch_read(<<d, i>>) \/ \E word \in Config[machine].icw1s : WriteIcw1(d, word)
          \/ d = "m" /\ i = pic'.s.icw3]_vars

(* A level-triggered line shared by devices is requested exactly while one *)
(* of them asserts it, and its count is the number of those that do,       *)
(* whatever the guest programs and ends in between - unless a device on it *)
(* changed its line while an AT's master was initialised and its ICW3 not  *)
(* yet written.  Such a change is noted in the device's irq_state, but not *)
(* counted, or counted at another line, and no later initialisation sets   *)
(* the count right.  (No edge device is on a line that ELCR makes level    *)
(* triggered.)                                                             *)
Asserting(t) == {e \in irq_state : Home(Irq[e]) = t}

LevelSound ==
    \A d \in Chips : \A i \in {j \in Line : <<d, j>> \notin strayed} :
        /\ pic[d].lines[i] = Cardinality(Asserting(<<d, i>>))
        /\ elcr_enabled /\ i \in pic[d].elcr =>
              (i \in pic[d].irr <=> Asserting(<<d, i>>) # {})

(* pic_irq_ack_read(): "Freeze it so it still takes interrupts but they do *)
(* not override the one currently being processed" - the vector of the     *)
(* second acknowledge is that of the line the first one put in service.    *)
VectorIsServiced == [][IrqAckSecond => vector' = acked]_vars

(* picinterrupt(): "Do a supurious IRQ 15 (spurious IRQ 7 on PIC 2)" when  *)
(* the slave has nothing pending.                                          *)
SpuriousIs15 == [][picinterrupt /\ SlaveMissing => vector' = <<"s", L - 1>>]_vars
==============================================================================
