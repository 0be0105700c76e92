----------------------------- MODULE PicProofs -----------------------------
(***************************************************************************)
(* What is proved about the interrupt controllers, for every configuration *)
(* Config that PicAssumption allows.                                       *)
(*                                                                         *)
(* Controllers are compared field by field: Rest, SameRegisters and        *)
(* SameRequest say which fields of two records agree.  With them, Updated  *)
(* is what update_pending() promises, and one lemma per action (...Does)   *)
(* says which controllers it updates and how they differ from those        *)
(* before.  The invariants are then about these relations alone:           *)
(*   - Acking: who is where while an 808x acknowledges;                    *)
(*   - Judged: a request that the CPU may see is due (DeliveredIsDue);     *)
(*   - Alert: an initialised controller's request is never behind its      *)
(*     registers (PendingNoticed);                                         *)
(*   - Wired: counts and requests of shared lines (LevelSound);            *)
(*   - Stacked: lines in service are in the order of their ranks           *)
(*     (InnermostFirst).                                                   *)
(* What the guest, or firmware, is taken to do for the last four stands in *)
(* the theorems (Initialised, Unmasked808x, MasterNotPolled, EdgesApart,   *)
(* FullyNested).                                                           *)
(***************************************************************************)
EXTENDS Pic, FiniteSetTheorems, WellFoundedInduction, TLAPS

-----------------------------------------------------------------------------
(* Ranks, and the line of highest priority. *)

LEMMA LeastNatural ==
  ASSUME NEW T \in SUBSET Nat, T # {}
  PROVE  \E x \in T : \A y \in T : x <= y
<1> DEFINE R == {ss \in Nat \X Nat : ss[1] < ss[2]}
<1>1. IsWellFoundedOn(R, Nat) BY NatLessThanWellFounded DEF OpToRel
<1> HIDE DEF R
<1>2. PICK x \in T : \A y \in T : ~ (<<y, x>> \in R) BY <1>1, WFMin, Zenon
<1>3. \A y \in T : x <= y
  <2> TAKE y \in T
  <2>1. ~ (<<y, x>> \in R) BY <1>2
  <2>2. ~ (y < x) BY <2>1 DEF R
  <2> QED BY <2>2
<1> QED BY <1>3

LEMMA RankType ==
  ASSUME NEW c, c.priority \in Line, NEW i \in Line
  PROVE  Rank(c, i) \in 0 .. L - 1
BY LinesAssumption DEF Rank, Line

LEMMA RankInjective ==
  ASSUME NEW c, c.priority \in Line, NEW i \in Line, NEW j \in Line,
         Rank(c, i) = Rank(c, j)
  PROVE  i = j
BY LinesAssumption DEF Rank, Line

LEMMA HighestExists ==
  ASSUME NEW c, c.priority \in Line, NEW S \in SUBSET Line, S # {}
  PROVE  /\ Highest(c, S) \in S
         /\ \A j \in S : Rank(c, Highest(c, S)) <= Rank(c, j)
<1> DEFINE T == {Rank(c, i) : i \in S}
<1>1. T \in SUBSET Nat BY RankType
<1>2. T # {} OBVIOUS
<1>3. PICK x \in T : \A y \in T : x <= y BY <1>1, <1>2, LeastNatural
<1>4. PICK i \in S : x = Rank(c, i) BY <1>3
<1>5. \A j \in S : Rank(c, i) <= Rank(c, j) BY <1>3, <1>4
<1> QED BY <1>5 DEF Highest

LEMMA HighestIs ==
  ASSUME NEW c, c.priority \in Line, NEW S \in SUBSET Line, NEW i \in S,
         \A j \in S : Rank(c, i) <= Rank(c, j)
  PROVE  Highest(c, S) = i
<1>1. Highest(c, S) \in S /\ \A j \in S : Rank(c, Highest(c, S)) <= Rank(c, j)
  BY HighestExists
<1>2. Rank(c, Highest(c, S)) = Rank(c, i) BY <1>1, RankType
<1> QED BY <1>1, <1>2, RankInjective

LEMMA NoLineIsNone == NoLine \notin Line
BY LinesAssumption DEF NoLine, Line

(* What decides which line may interrupt. *)
SameRegisters(c, b) ==
    c.irr = b.irr /\ c.imr = b.imr /\ c.isr = b.isr /\ c.priority = b.priority

(* A request is for the line that is due; without one, the spurious line.  *)
Sound(c) ==
    IF c.int_pending THEN c.state = "NONE" /\ Due(c, c.interrupt.line)
                     ELSE c.interrupt.line = L - 1

LEMMA DueSame ==
  ASSUME NEW c, NEW b, SameRegisters(c, b), NEW i
  PROVE  /\ Due(c, i) <=> Due(b, i)
         /\ Contenders(c) = Contenders(b)
BY DEF SameRegisters, Due, Contenders, Rank

LEMMA BestIsDue ==
  ASSUME NEW c, c.priority \in Line, c.irr \in SUBSET Line, c.isr \in SUBSET Line,
         Contenders(c) # {}
  PROVE  Due(c, Highest(c, Contenders(c)))
<1> DEFINE i == Highest(c, Contenders(c))
<1>1. Contenders(c) \in SUBSET Line BY DEF Contenders
<1>2. i \in Contenders(c) /\ \A j \in Contenders(c) : Rank(c, i) <= Rank(c, j)
  BY <1>1, HighestExists
<1> HIDE DEF i
<1>3. i \in Line /\ i \in c.irr \ c.imr /\ \A j \in c.isr : Rank(c, i) < Rank(c, j)
  BY <1>2 DEF Contenders
<1>4. ASSUME NEW j \in c.irr \ c.imr PROVE Rank(c, i) <= Rank(c, j)
  <2>1. CASE j \in Contenders(c) BY <2>1, <1>2
  <2>2. CASE j \notin Contenders(c)
    <3>1. PICK k \in c.isr : ~ (Rank(c, j) < Rank(c, k)) BY <2>2 DEF Contenders
    <3>2. Rank(c, i) < Rank(c, k) BY <1>3
    <3>3. Rank(c, i) \in Int /\ Rank(c, j) \in Int /\ Rank(c, k) \in Int
      BY <1>3, RankType
    <3> QED BY <3>1, <3>2, <3>3
  <2> QED BY <2>1, <2>2
<1>5. Due(c, i) BY <1>3, <1>4 DEF Due
<1> QED BY <1>5 DEF i

LEMMA BestType ==
  ASSUME NEW S, NEW c \in Chip(S)
  PROVE  /\ find_best_interrupt(c) \in Line \cup {NoLine}
         /\ find_best_interrupt(c) # NoLine <=> c.state = "NONE" /\ Contenders(c) # {}
         /\ find_best_interrupt(c) # NoLine => find_best_interrupt(c) = Highest(c, Contenders(c))
<1>1. c.priority \in Line /\ c.irr \in SUBSET Line BY DEF Chip
<1>2. Contenders(c) \in SUBSET Line BY <1>1 DEF Contenders
<1>3. CASE Contenders(c) = {} 
  BY <1>3 DEF find_best_interrupt, Highest
<1>4. CASE Contenders(c) # {}
  <2>1. Highest(c, Contenders(c)) \in Contenders(c) BY <1>1, <1>2, <1>4, HighestExists
  <2>2. Highest(c, Contenders(c)) \in Line /\ Highest(c, Contenders(c)) # NoLine
    BY <2>1, <1>2, NoLineIsNone
  <2> QED BY <2>2, <1>4 DEF find_best_interrupt
<1> QED BY <1>3, <1>4

(* What a controller was programmed to. *)
Programmed(c, b) ==
    /\ c.ltim = b.ltim /\ c.single = b.single /\ c.ic4 = b.ic4 /\ c.icw3 = b.icw3
    /\ c.icw4 = b.icw4 /\ c.state = b.state /\ c.elcr = b.elcr

(* Everything but the registers and the request. *)
Rest(c, b) ==
    /\ Programmed(c, b)
    /\ c.poll = b.poll /\ c.smm = b.smm /\ c.ack_bytes = b.ack_bytes
    /\ c.auto_eoi_rotate = b.auto_eoi_rotate /\ c.lines = b.lines

SameRequest(c, b) == c.int_pending = b.int_pending /\ c.interrupt = b.interrupt

LEMMA RequestFields ==
  /\ \A i \in Line : Request(i) \in [line : Line, none : BOOLEAN, frozen : BOOLEAN, slave : BOOLEAN]
  /\ NoRequest \in [line : Line, none : BOOLEAN, frozen : BOOLEAN, slave : BOOLEAN]
  /\ \A i : Request(i).line = i /\ Request(i).frozen = FALSE /\ Request(i).slave = FALSE
  /\ NoRequest.line = L - 1 /\ NoRequest.frozen = FALSE /\ NoRequest.slave = FALSE
<1>1. L - 1 \in Line BY LinesAssumption DEF Line
<1> QED BY <1>1 DEF Request, NoRequest

LEMMA RefreshedChip ==
  ASSUME NEW S, NEW c \in Chip(S)
  PROVE  /\ Refreshed(c) \in Chip(S)
         /\ Rest(Refreshed(c), c) /\ SameRegisters(Refreshed(c), c)
         /\ Refreshed(c).interrupt.frozen = FALSE /\ Refreshed(c).interrupt.slave = FALSE
         /\ Refreshed(c).int_pending <=> c.state = "NONE" /\ Contenders(c) # {}
         /\ Sound(Refreshed(c))
<1> DEFINE best == find_best_interrupt(c)
           n == best # NoLine
           r == IF best = NoLine THEN NoRequest ELSE Request(best)
<1>1. Refreshed(c) = [c EXCEPT !.int_pending = n, !.interrupt = r] BY DEF Refreshed
<1>2. n \in BOOLEAN OBVIOUS
<1>3. r \in [line : Line, none : BOOLEAN, frozen : BOOLEAN, slave : BOOLEAN]
  BY BestType, RequestFields
<1>4. r.frozen = FALSE /\ r.slave = FALSE /\ r.line = IF n THEN best ELSE L - 1 
  BY RequestFields
<1>5. n <=> c.state = "NONE" /\ Contenders(c) # {} BY BestType
<1>6. n => best = Highest(c, Contenders(c)) BY BestType
<1>7. c.priority \in Line /\ c.irr \in SUBSET Line /\ c.isr \in SUBSET Line BY DEF Chip
<1>8. n => Due(c, best) BY <1>5, <1>6, <1>7, BestIsDue
<1> HIDE DEF best, n, r
<1>9. Refreshed(c).int_pending = n /\ Refreshed(c).interrupt = r BY <1>1 DEF Chip
<1>10. Refreshed(c) \in Chip(S) BY <1>1, <1>2, <1>3 DEF Chip
<1>11. Rest(Refreshed(c), c) BY <1>1 DEF Chip, Rest, Programmed
<1>12. SameRegisters(Refreshed(c), c) BY <1>1 DEF Chip, SameRegisters
<1>13. n => Due(Refreshed(c), best) BY <1>8, <1>12, DueSame
<1>14. Sound(Refreshed(c)) BY <1>4, <1>5, <1>9, <1>11, <1>13 DEF Sound, Rest, Programmed
<1> QED BY <1>4, <1>5, <1>9, <1>10, <1>11, <1>12, <1>14

-----------------------------------------------------------------------------
Controllers == [m : Chip(SUBSET Line), s : Chip(Line)]

(* What an update leaves alone. *)
Kept(c, b) == Rest(c, b) /\ c.imr = b.imr /\ c.isr = b.isr /\ c.priority = b.priority

Fresh(c) ==
    /\ c.interrupt.frozen = FALSE /\ c.interrupt.slave = FALSE
    /\ c.int_pending <=> c.state = "NONE" /\ Contenders(c) # {}
    /\ Sound(c)

(* What update_pending() makes of the controllers p. *)
Updated(u, p) ==
    /\ u \in Controllers
    /\ Kept(u.m, p.m) /\ Kept(u.s, p.s)
    /\ u.s.irr = p.s.irr
    /\ \A i : i # p.s.icw3 => (i \in u.m.irr <=> i \in p.m.irr)
    /\ ~ AT => u.m.irr = p.m.irr /\ u.s = p.s
    /\ p.m.interrupt.frozen => u = p
    /\ ~ p.m.interrupt.frozen =>
          /\ Fresh(u.m)
          /\ AT => Fresh(u.s) /\ (p.s.icw3 \in u.m.irr <=> u.s.int_pending)

LEMMA SlaveLine ==
  ASSUME NEW p \in Controllers, NEW n \in BOOLEAN
  PROVE  /\ [p.m EXCEPT !.irr = IF n THEN p.m.irr \cup {p.s.icw3} ELSE p.m.irr \ {p.s.icw3}] \in Chip(SUBSET Line)
BY DEF Controllers, Chip

LEMMA FreshChip ==
  ASSUME NEW S, NEW c \in Chip(S)
  PROVE  Fresh(Refreshed(c)) /\ Kept(Refreshed(c), c) /\ Refreshed(c).irr = c.irr
<1>1. Rest(Refreshed(c), c) /\ SameRegisters(Refreshed(c), c) BY RefreshedChip
<1>2. Kept(Refreshed(c), c) /\ Refreshed(c).irr = c.irr BY <1>1 DEF Kept, SameRegisters
<1>3. Contenders(Refreshed(c)) = Contenders(c) BY <1>1, DueSame
<1>4. Refreshed(c).state = c.state BY <1>1 DEF Rest, Programmed
<1> QED BY <1>2, <1>3, <1>4, RefreshedChip DEF Fresh

LEMMA UpdateUpdates ==
  ASSUME NEW p \in Controllers
  PROVE  Updated(update_pending(p), p)
<1>1. CASE p.m.interrupt.frozen
  <2>1. update_pending(p) = p BY <1>1 DEF update_pending
  <2> QED BY <2>1, <1>1 DEF Updated, Kept, Rest, Programmed, Controllers
<1>2. CASE ~ p.m.interrupt.frozen /\ ~ AT
  <2>1. update_pending(p) = [p EXCEPT !.m = Refreshed(p.m)] BY <1>2 DEF update_pending
  <2>2. p.m \in Chip(SUBSET Line) /\ p.s \in Chip(Line) BY DEF Controllers
  <2>3. Refreshed(p.m) \in Chip(SUBSET Line) BY <2>2, RefreshedChip
  <2>4. Fresh(Refreshed(p.m)) /\ Kept(Refreshed(p.m), p.m) /\ Refreshed(p.m).irr = p.m.irr
    BY <2>2, FreshChip
  <2>5. /\ update_pending(p) \in Controllers /\ update_pending(p).m = Refreshed(p.m)
        /\ update_pending(p).s = p.s
    BY <2>1, <2>3 DEF Controllers
  <2>6. Kept(p.s, p.s) BY DEF Kept, Rest, Programmed
  <2> QED BY <2>4, <2>5, <2>6, <1>2 DEF Updated
<1>3. CASE ~ p.m.interrupt.frozen /\ AT
  <2> DEFINE s == Refreshed(p.s)
             irr == IF s.int_pending THEN p.m.irr \cup {p.s.icw3} ELSE p.m.irr \ {p.s.icw3}
             c == [p.m EXCEPT !.irr = irr]
             m == Refreshed(c)
  <2>1. p.m \in Chip(SUBSET Line) /\ p.s \in Chip(Line) BY DEF Controllers
  <2>2. s \in Chip(Line) BY <2>1, RefreshedChip
  <2>3. Fresh(s) /\ Kept(s, p.s) /\ s.irr = p.s.irr BY <2>1, FreshChip
  <2>4. update_pending(p) = [m |-> m, s |-> s] BY <1>3, <2>3 DEF update_pending, Kept, Rest, Programmed
  <2>5. s.int_pending \in BOOLEAN BY <2>2 DEF Chip
  <2>6. c \in Chip(SUBSET Line) BY <2>5, SlaveLine
  <2>7. c.irr = irr /\ Kept(c, p.m) BY <2>1 DEF Chip, Kept, Rest, Programmed
  <2>8. m \in Chip(SUBSET Line) BY <2>6, RefreshedChip
  <2>9. Fresh(m) /\ Kept(m, c) /\ m.irr = c.irr BY <2>6, FreshChip
  <2>10. \A i : i # p.s.icw3 => (i \in irr <=> i \in p.m.irr) OBVIOUS
  <2>11. p.s.icw3 \in irr <=> s.int_pending OBVIOUS
  <2> HIDE DEF irr, c, m, s
  <2>12. Kept(m, p.m) BY <2>7, <2>9 DEF Kept, Rest, Programmed
  <2>13. update_pending(p) \in Controllers BY <2>2, <2>4, <2>8 DEF Controllers
  <2>14. update_pending(p).m = m /\ update_pending(p).s = s BY <2>4
  <2> QED BY <1>3, <2>3, <2>7, <2>9, <2>10, <2>11, <2>12, <2>13, <2>14 DEF Updated
<1> QED BY <1>1, <1>2, <1>3

-----------------------------------------------------------------------------
Kind(d) == Chip(IF d = "m" THEN SUBSET Line ELSE Line)

(* Only controller d differs. *)
Replaced(q, p, d) ==
    q \in Controllers /\ \A e \in {"m", "s"} : e # d => q[e] = p[e]

LEMMA ChipKind ==
  ASSUME NEW p \in Controllers, NEW d \in {"m", "s"}
  PROVE  p[d] \in Kind(d)
BY DEF Controllers, Kind

LEMMA ReplaceChip ==
  ASSUME NEW p \in Controllers, NEW d \in {"m", "s"}, NEW x \in Kind(d)
  PROVE  Replaced([p EXCEPT ![d] = x], p, d) /\ [p EXCEPT ![d] = x][d] = x
BY DEF Controllers, Kind, Replaced

LEMMA IrrChip ==
  ASSUME NEW S, NEW c \in Chip(S), NEW irr \in SUBSET Line
  PROVE  LET x == [c EXCEPT !.irr = irr]
         IN  /\ x \in Chip(S) /\ Rest(x, c) /\ SameRequest(x, c)
             /\ x.irr = irr /\ x.imr = c.imr /\ x.isr = c.isr /\ x.priority = c.priority
BY DEF Chip, Rest, Programmed, SameRequest

LEMMA ImrChip ==
  ASSUME NEW S, NEW c \in Chip(S), NEW imr \in SUBSET Line
  PROVE  LET x == [c EXCEPT !.imr = imr]
         IN  /\ x \in Chip(S) /\ Rest(x, c) /\ SameRequest(x, c)
             /\ x.irr = c.irr /\ x.imr = imr /\ x.isr = c.isr /\ x.priority = c.priority
BY DEF Chip, Rest, Programmed, SameRequest

LEMMA LinesChip ==
  ASSUME NEW S, NEW c \in Chip(S), NEW lines \in [Line -> 0 .. Wrap - 1]
  PROVE  LET x == [c EXCEPT !.lines = lines]
         IN  /\ x \in Chip(S) /\ Programmed(x, c) /\ SameRequest(x, c) /\ SameRegisters(x, c)
             /\ x.poll = c.poll /\ x.smm = c.smm /\ x.ack_bytes = c.ack_bytes
             /\ x.auto_eoi_rotate = c.auto_eoi_rotate /\ x.lines = lines
BY DEF Chip, Programmed, SameRequest, SameRegisters

LEMMA RotateChip ==
  ASSUME NEW S, NEW c \in Chip(S), NEW r \in BOOLEAN
  PROVE  LET x == [c EXCEPT !.auto_eoi_rotate = r]
         IN  /\ x \in Chip(S) /\ Programmed(x, c) /\ SameRequest(x, c) /\ SameRegisters(x, c)
             /\ x.poll = c.poll /\ x.smm = c.smm /\ x.ack_bytes = c.ack_bytes
             /\ x.auto_eoi_rotate = r /\ x.lines = c.lines
BY DEF Chip, Programmed, SameRequest, SameRegisters

(* What an end of interrupt i makes of a controller. *)
EndedTo(x, c, i, eoi, rotate) ==
    /\ Rest(x, c) /\ SameRequest(x, c) /\ x.irr = c.irr /\ x.imr = c.imr
    /\ x.isr = IF eoi THEN c.isr \ {i} ELSE c.isr
    /\ x.priority = IF rotate THEN (i + 1) % L ELSE c.priority

LEMMA EndedChip ==
  ASSUME NEW S, NEW c \in Chip(S), NEW i \in Line, NEW eoi \in BOOLEAN, NEW rotate \in BOOLEAN
  PROVE  /\ Ended(c, i, eoi, rotate) \in Chip(S)
         /\ EndedTo(Ended(c, i, eoi, rotate), c, i, eoi, rotate)
<1> DEFINE isr == IF eoi THEN c.isr \ {i} ELSE c.isr
           priority == IF rotate THEN (i + 1) % L ELSE c.priority
<1>1. (i + 1) % L \in Line BY LinesAssumption DEF Line
<1>2. isr \in SUBSET Line /\ priority \in Line BY <1>1 DEF Chip
<1>3. Ended(c, i, eoi, rotate) = [c EXCEPT !.isr = isr, !.priority = priority] BY DEF Ended
<1> HIDE DEF isr, priority
<1>4. LET x == Ended(c, i, eoi, rotate)
      IN  /\ x \in Chip(S) /\ Rest(x, c) /\ SameRequest(x, c)
          /\ x.irr = c.irr /\ x.imr = c.imr /\ x.isr = isr /\ x.priority = priority
  BY <1>2, <1>3 DEF Chip, Rest, Programmed, SameRequest
<1> QED BY <1>4 DEF EndedTo, isr, priority

(* The line of a request goes into service. *)
Serviced(x, c) ==
    LET i == c.interrupt.line
    IN  /\ x.isr = c.isr \cup {i} /\ x.imr = c.imr /\ x.priority = c.priority
        /\ x.irr = IF ~ pic_level_triggered(c, i, elcr_enabled) \/ c.lines[i] = 0
                   THEN c.irr \ {i} ELSE c.irr

LEMMA AcknowledgedChip ==
  ASSUME NEW S, NEW c \in Chip(S)
  PROVE  LET x == pic_acknowledge(c, elcr_enabled)
         IN  x \in Chip(S) /\ Rest(x, c) /\ SameRequest(x, c) /\ Serviced(x, c)
<1> DEFINE i == c.interrupt.line
           isr == c.isr \cup {i}
           irr == IF ~ pic_level_triggered(c, i, elcr_enabled) \/ c.lines[i] = 0
                  THEN c.irr \ {i} ELSE c.irr
<1>1. isr \in SUBSET Line /\ irr \in SUBSET Line BY DEF Chip
<1>2. pic_acknowledge(c, elcr_enabled) = [c EXCEPT !.isr = isr, !.irr = irr]
  BY DEF pic_acknowledge
<1> HIDE DEF isr, irr
<1>3. LET x == pic_acknowledge(c, elcr_enabled)
      IN  /\ x \in Chip(S) /\ Rest(x, c) /\ SameRequest(x, c)
          /\ x.isr = isr /\ x.irr = irr /\ x.imr = c.imr /\ x.priority = c.priority
  BY <1>1, <1>2 DEF Chip, Rest, Programmed, SameRequest
<1> QED BY <1>3 DEF Serviced, isr, irr

LEMMA FrozenChip ==
  ASSUME NEW S, NEW c \in Chip(S), NEW f \in BOOLEAN
  PROVE  LET x == [c EXCEPT !.interrupt.frozen = f]
         IN  /\ x \in Chip(S) /\ Rest(x, c) /\ SameRegisters(x, c)
             /\ x.int_pending = c.int_pending /\ x.interrupt.frozen = f
             /\ x.interrupt.line = c.interrupt.line /\ x.interrupt.slave = c.interrupt.slave
BY DEF Chip, Rest, Programmed, SameRegisters

(* What the first acknowledge makes of a controller. *)
LEMMA AckedChip ==
  ASSUME NEW S, NEW c \in Chip(S)
  PROVE  LET x == Acknowledged(c)
         IN  /\ x \in Chip(S) /\ Rest(x, c) /\ Serviced(x, c)
             /\ x.int_pending = c.int_pending /\ x.interrupt.frozen = TRUE
             /\ x.interrupt.line = c.interrupt.line /\ x.interrupt.slave = c.interrupt.slave
<1> DEFINE b == [c EXCEPT !.interrupt.frozen = TRUE]
<1>1. /\ b \in Chip(S) /\ Rest(b, c) /\ SameRegisters(b, c)
      /\ b.int_pending = c.int_pending /\ b.interrupt.frozen = TRUE
      /\ b.interrupt.line = c.interrupt.line /\ b.interrupt.slave = c.interrupt.slave
  BY FrozenChip
<1>2. Acknowledged(c) = pic_acknowledge(b, elcr_enabled) BY DEF Acknowledged
<1> HIDE DEF b
<1> DEFINE x == Acknowledged(c)
<1>3. x \in Chip(S) /\ Rest(x, b) /\ SameRequest(x, b) /\ Serviced(x, b)
  BY <1>1, <1>2, AcknowledgedChip
<1> HIDE DEF x
<1>4. Rest(x, c) BY <1>1, <1>3 DEF Rest, Programmed
<1>5. Serviced(x, c)
  BY <1>1, <1>3 DEF Serviced, SameRegisters, Rest, Programmed, pic_level_triggered
<1>6. /\ x.int_pending = c.int_pending /\ x.interrupt.frozen = TRUE
      /\ x.interrupt.line = c.interrupt.line /\ x.interrupt.slave = c.interrupt.slave
  BY <1>1, <1>3 DEF SameRequest
<1> QED BY <1>3, <1>4, <1>5, <1>6 DEF x

(* What ICW1 makes of a controller. *)
Begins(x, c, word, icw3) ==
    /\ x.single = word.single /\ x.icw3 = icw3 /\ x.state = "ICW2"
    /\ x.elcr = c.elcr /\ x.lines = c.lines
    /\ x.irr = {i \in Line : c.lines[i] # 0} /\ x.imr = {} /\ x.isr = {}
    /\ x.poll = FALSE /\ x.smm = FALSE /\ x.ack_bytes = 0
    /\ x.int_pending = FALSE /\ x.interrupt = NoRequest

LEMMA Icw1Chip ==
  ASSUME NEW S, NEW c \in Chip(S), NEW icw3 \in S,
         NEW word \in [ltim : BOOLEAN, single : BOOLEAN, ic4 : BOOLEAN]
  PROVE  /\ Icw1Written(c, word, icw3) \in Chip(S)
         /\ Begins(Icw1Written(c, word, icw3), c, word, icw3)
<1>1. 0 \in Line /\ {i \in Line : c.lines[i] # 0} \in SUBSET Line
  BY LinesAssumption DEF Line
<1>2. c.icw4 \in Icw4 /\ [upm |-> FALSE, aeoi |-> FALSE] \in Icw4 BY DEF Chip, Icw4
<1>3. (IF word.ic4 THEN c.icw4 ELSE [upm |-> FALSE, aeoi |-> FALSE]) \in Icw4 BY <1>2
<1> DEFINE irr == {i \in Line : c.lines[i] # 0}
           icw4 == IF word.ic4 THEN c.icw4 ELSE [upm |-> FALSE, aeoi |-> FALSE]
<1>4. Cleared(icw3).icw4 = [upm |-> FALSE, aeoi |-> FALSE] BY DEF Cleared
<1>10. Icw1Written(c, word, icw3) =
        [Cleared(icw3) EXCEPT !.ltim = word.ltim, !.single = word.single, !.ic4 = word.ic4,
                              !.icw4 = icw4, !.irr = irr,
                              !.state = "ICW2", !.elcr = c.elcr, !.lines = c.lines]
  BY <1>4 DEF Icw1Written
<1>5. c.elcr \in SUBSET Line /\ c.lines \in [Line -> 0 .. Wrap - 1] BY DEF Chip
<1>6. NoRequest \in [line : Line, none : BOOLEAN, frozen : BOOLEAN, slave : BOOLEAN]
  BY RequestFields
<1>7. irr \in SUBSET Line /\ icw4 \in Icw4 /\ {} \in SUBSET Line BY <1>1, <1>3
<1> HIDE DEF irr, icw4
<1>11. [upm |-> FALSE, aeoi |-> FALSE] \in Icw4 /\ [i \in Line |-> 0] \in [Line -> 0 .. Wrap - 1]
  BY WrapAssumption DEF Icw4
<1>12. Cleared(icw3) \in Chip(S) BY <1>1, <1>6, <1>7, <1>11 DEF Cleared, Chip
<1>13. /\ Cleared(icw3).icw3 = icw3 /\ Cleared(icw3).imr = {} /\ Cleared(icw3).isr = {}
       /\ Cleared(icw3).poll = FALSE /\ Cleared(icw3).smm = FALSE
       /\ Cleared(icw3).ack_bytes = 0 /\ Cleared(icw3).int_pending = FALSE
       /\ Cleared(icw3).interrupt = NoRequest
  BY DEF Cleared
<1> DEFINE b == Cleared(icw3)
           x == Icw1Written(c, word, icw3)
           t == word.ltim
           n == word.single
           f == word.ic4
<1>2a. t \in BOOLEAN /\ n \in BOOLEAN /\ f \in BOOLEAN OBVIOUS
<1>2b. x = [b EXCEPT !.ltim = t, !.single = n, !.ic4 = f, !.icw4 = icw4, !.irr = irr,
                     !.state = "ICW2", !.elcr = c.elcr, !.lines = c.lines] BY <1>10
<1>2c. b \in Chip(S) BY <1>12
<1> HIDE DEF b, x, t, n, f
<1>14. x \in Chip(S)
  <2>1. [b EXCEPT !.ltim = t, !.single = n, !.ic4 = f] \in Chip(S)
    BY <1>2a, <1>2c DEF Chip
  <2> DEFINE b1 == [b EXCEPT !.ltim = t, !.single = n, !.ic4 = f]
  <2> HIDE DEF b1
  <2>2. [b1 EXCEPT !.icw4 = icw4, !.irr = irr] \in Chip(S) BY <2>1, <1>7 DEF Chip, b1
  <2> DEFINE b2 == [b1 EXCEPT !.icw4 = icw4, !.irr = irr]
  <2> HIDE DEF b2
  <2>3. [b2 EXCEPT !.state = "ICW2", !.elcr = c.elcr, !.lines = c.lines] \in Chip(S)
    BY <2>2, <1>5 DEF Chip, b2
  <2>4. x = [b2 EXCEPT !.state = "ICW2", !.elcr = c.elcr, !.lines = c.lines]
    BY <1>2b DEF b1, b2
  <2> QED BY <2>3, <2>4
<1>15. /\ x.icw3 = b.icw3 /\ x.imr = b.imr /\ x.isr = b.isr /\ x.poll = b.poll
       /\ x.smm = b.smm /\ x.ack_bytes = b.ack_bytes /\ x.int_pending = b.int_pending
       /\ x.interrupt = b.interrupt
  BY <1>2b, <1>2c DEF Chip
<1>16. /\ x.single = n /\ x.state = "ICW2" /\ x.elcr = c.elcr /\ x.lines = c.lines
       /\ x.irr = irr /\ x.icw4 = icw4
  BY <1>2b, <1>2c DEF Chip
<1> QED BY <1>13, <1>14, <1>15, <1>16 DEF Begins, irr, b, x, n

LEMMA Icw2Chip ==
  ASSUME NEW S, NEW c \in Chip(S)
  PROVE  LET x == Icw2Written(c)
         IN  /\ x \in Chip(S) /\ SameRequest(x, c) /\ SameRegisters(x, c)
             /\ x.state = IF c.single THEN AfterIcw3(c) ELSE "ICW3"
             /\ x.single = c.single /\ x.icw3 = c.icw3 /\ x.icw4 = c.icw4 /\ x.elcr = c.elcr
             /\ x.poll = c.poll /\ x.smm = c.smm /\ x.ack_bytes = c.ack_bytes
             /\ x.lines = c.lines
BY DEF Chip, Icw2Written, AfterIcw3, SameRequest, SameRegisters

LEMMA Icw3Chip ==
  ASSUME NEW S, NEW c \in Chip(S), NEW icw3 \in S
  PROVE  LET x == Icw3Written(c, icw3)
         IN  /\ x \in Chip(S) /\ SameRequest(x, c) /\ SameRegisters(x, c)
             /\ x.state = AfterIcw3(c) /\ x.icw3 = icw3
             /\ x.single = c.single /\ x.icw4 = c.icw4 /\ x.elcr = c.elcr
             /\ x.poll = c.poll /\ x.smm = c.smm /\ x.ack_bytes = c.ack_bytes
             /\ x.lines = c.lines
BY DEF Chip, Icw3Written, AfterIcw3, SameRequest, SameRegisters

LEMMA Icw4Chip ==
  ASSUME NEW S, NEW c \in Chip(S), NEW icw4 \in Icw4
  PROVE  LET x == Icw4Written(c, icw4)
         IN  /\ x \in Chip(S) /\ SameRequest(x, c) /\ SameRegisters(x, c)
             /\ x.state = "NONE" /\ x.icw4 = icw4
             /\ x.single = c.single /\ x.icw3 = c.icw3 /\ x.elcr = c.elcr
             /\ x.poll = c.poll /\ x.smm = c.smm /\ x.ack_bytes = c.ack_bytes
             /\ x.lines = c.lines
BY DEF Chip, Icw4Written, SameRequest, SameRegisters

LEMMA Ocw3Chip ==
  ASSUME NEW S, NEW c \in Chip(S), NEW word \in [poll : BOOLEAN, esmm : BOOLEAN, smm : BOOLEAN]
  PROVE  LET x == Ocw3Written(c, word)
         IN  /\ x \in Chip(S) /\ Programmed(x, c) /\ SameRegisters(x, c)
             /\ x.poll = word.poll /\ x.smm = (IF word.esmm THEN word.smm ELSE c.smm)
             /\ x.ack_bytes = c.ack_bytes
             /\ x.auto_eoi_rotate = c.auto_eoi_rotate /\ x.lines = c.lines
             /\ x.int_pending = c.int_pending
             /\ x.interrupt.frozen = (c.interrupt.frozen \/ word.poll)
             /\ x.interrupt.line = c.interrupt.line /\ x.interrupt.slave = c.interrupt.slave
BY DEF Chip, Ocw3Written, Programmed, SameRegisters

(* The answer to a poll, before the request goes into service. *)
LEMMA PolledChip ==
  ASSUME NEW S, NEW c \in Chip(S)
  PROVE  LET x == [c EXCEPT !.interrupt.frozen = FALSE, !.poll = FALSE]
         IN  /\ x \in Chip(S) /\ Programmed(x, c) /\ SameRegisters(x, c)
             /\ x.poll = FALSE /\ x.smm = c.smm /\ x.ack_bytes = c.ack_bytes
             /\ x.auto_eoi_rotate = c.auto_eoi_rotate /\ x.lines = c.lines
             /\ x.int_pending = c.int_pending /\ x.interrupt.frozen = FALSE
             /\ x.interrupt.line = c.interrupt.line /\ x.interrupt.slave = c.interrupt.slave
BY DEF Chip, Programmed, SameRegisters

LEMMA PendingChip ==
  ASSUME NEW S, NEW c \in Chip(S)
  PROVE  LET x == [c EXCEPT !.int_pending = FALSE]
         IN  /\ x \in Chip(S) /\ Rest(x, c) /\ SameRegisters(x, c)
             /\ x.int_pending = FALSE /\ x.interrupt = c.interrupt
BY DEF Chip, Rest, Programmed, SameRegisters

-----------------------------------------------------------------------------
Inputs == {"m", "s"} \X Line

(* Line t of controllers p is driven. *)
Moved(q, p, t, set) ==
    LET x == q[t[1]]
        c == p[t[1]]
    IN  /\ Replaced(q, p, t[1])
        /\ Rest(x, c) /\ SameRequest(x, c)
        /\ x.imr = c.imr /\ x.isr = c.isr /\ x.priority = c.priority
        /\ x.irr = IF set THEN c.irr \cup {t[2]} ELSE c.irr \ {t[2]}

LEMMA DrivenMoves ==
  ASSUME NEW p \in Controllers, NEW t \in Inputs, NEW set \in BOOLEAN
  PROVE  \E q \in Controllers : Moved(q, p, t, set) /\ Updated(Driven(p, t, set), q)
<1> DEFINE d == t[1]
           c == p[d]
           irr == IF set THEN c.irr \cup {t[2]} ELSE c.irr \ {t[2]}
           x == [c EXCEPT !.irr = irr]
           q == [p EXCEPT ![d] = x]
<1>1. d \in {"m", "s"} /\ t[2] \in Line BY DEF Inputs
<1>2. c \in Kind(d) BY <1>1, ChipKind
<1>3. c.irr \in SUBSET Line BY <1>2 DEF Kind, Chip
<1>4. irr \in SUBSET Line BY <1>1, <1>3
<1>5. Driven(p, t, set) = update_pending(q) BY DEF Driven
<1> HIDE DEF irr
<1>6. /\ x \in Kind(d) /\ Rest(x, c) /\ SameRequest(x, c)
      /\ x.irr = irr /\ x.imr = c.imr /\ x.isr = c.isr /\ x.priority = c.priority
  BY <1>2, <1>4, IrrChip DEF Kind
<1> HIDE DEF x, c
<1>7. Replaced(q, p, d) /\ q[d] = x BY <1>1, <1>6, ReplaceChip
<1> HIDE DEF q
<1>8. q \in Controllers BY <1>7 DEF Replaced
<1>9. Moved(q, p, t, set) BY <1>6, <1>7 DEF Moved, irr, c
<1>10. Updated(Driven(p, t, set), q) BY <1>5, <1>8, UpdateUpdates
<1> QED BY <1>8, <1>9, <1>10

(* The count of line t of controllers p changes by n. *)
Counted(b, p, t, n) ==
    LET x == b[t[1]]
        c == p[t[1]]
    IN  /\ Replaced(b, p, t[1])
        /\ Programmed(x, c) /\ SameRequest(x, c) /\ SameRegisters(x, c)
        /\ x.poll = c.poll /\ x.smm = c.smm /\ x.ack_bytes = c.ack_bytes
        /\ x.auto_eoi_rotate = c.auto_eoi_rotate
        /\ x.lines = [c.lines EXCEPT ![t[2]] = (@ + n) % Wrap]

LEMMA LinesCounted ==
  ASSUME NEW p \in Controllers, NEW t \in Inputs, NEW set \in BOOLEAN
  PROVE  Counted([p EXCEPT ![t[1]].lines[t[2]] = (IF set THEN @ + 1 ELSE @ - 1) % Wrap],
                 p, t, IF set THEN 1 ELSE -1)
<1> DEFINE d == t[1]
           c == p[d]
           n == IF set THEN 1 ELSE -1
           lines == [c.lines EXCEPT ![t[2]] = (@ + n) % Wrap]
           x == [c EXCEPT !.lines = lines]
           b == [p EXCEPT ![t[1]].lines[t[2]] = (IF set THEN @ + 1 ELSE @ - 1) % Wrap]
<1>1. d \in {"m", "s"} /\ t[2] \in Line BY DEF Inputs
<1>2. c \in Kind(d) BY <1>1, ChipKind
<1>3. c.lines \in [Line -> 0 .. Wrap - 1] BY <1>2 DEF Kind, Chip
<1>4. (IF set THEN c.lines[t[2]] + 1 ELSE c.lines[t[2]] - 1) = c.lines[t[2]] + n
  BY <1>1, <1>3, WrapAssumption
<1>5. n \in Int OBVIOUS
<1> HIDE DEF n
<1>6. lines \in [Line -> 0 .. Wrap - 1]
  <2>1. c.lines[t[2]] \in Int BY <1>1, <1>3, WrapAssumption
  <2>2. (c.lines[t[2]] + n) % Wrap \in 0 .. Wrap - 1 BY <1>5, <2>1, WrapAssumption
  <2> QED BY <1>3, <2>2
<1>7. b = [p EXCEPT ![d] = x] BY <1>4
<1> HIDE DEF lines
<1>8. /\ x \in Kind(d) /\ Programmed(x, c) /\ SameRequest(x, c) /\ SameRegisters(x, c)
      /\ x.poll = c.poll /\ x.smm = c.smm /\ x.ack_bytes = c.ack_bytes
      /\ x.auto_eoi_rotate = c.auto_eoi_rotate /\ x.lines = lines
  BY <1>2, <1>6, LinesChip DEF Kind
<1> HIDE DEF x, c
<1>9. Replaced(b, p, d) /\ b[d] = x BY <1>1, <1>7, <1>8, ReplaceChip
<1> HIDE DEF b
<1>10. Counted(b, p, t, n) BY <1>8, <1>9 DEF Counted, lines, c
<1> QED BY <1>10 DEF b, n

(* pic_action() on line i of controller d. *)
EndedAt(q, p, d, i, eoi, rotate) ==
    Replaced(q, p, d) /\ EndedTo(q[d], p[d], i, eoi, rotate)

LEMMA ActionEnds ==
  ASSUME NEW p \in Controllers, NEW d \in {"m", "s"}, NEW i \in Line,
         NEW eoi \in BOOLEAN, NEW rotate \in BOOLEAN
  PROVE  \E q \in Controllers : /\ EndedAt(q, p, d, i, eoi, rotate)
                                 /\ Updated(pic_action(p, d, i, eoi, rotate), q)
<1> DEFINE c == p[d]
           x == Ended(c, i, eoi, rotate)
           q == [p EXCEPT ![d] = x]
<1>1. c \in Kind(d) BY ChipKind
<1>2. pic_action(p, d, i, eoi, rotate) = update_pending(q)
  BY NoLineIsNone DEF pic_action
<1>3. x \in Kind(d) /\ EndedTo(x, c, i, eoi, rotate) BY <1>1, EndedChip DEF Kind
<1> HIDE DEF x, c
<1>4. Replaced(q, p, d) /\ q[d] = x BY <1>3, ReplaceChip
<1> HIDE DEF q
<1>5. EndedAt(q, p, d, i, eoi, rotate) BY <1>3, <1>4 DEF EndedAt, c
<1>6. q \in Controllers BY <1>4 DEF Replaced
<1> QED BY <1>2, <1>5, <1>6, UpdateUpdates

(* The lines an end of interrupt may find, and the first of them. *)
Served(c) == IF c.smm THEN c.isr \ c.imr ELSE c.isr

IsFirst(c, S, i) == i \in S /\ \A j \in S : Rank(c, i) <= Rank(c, j)

LEMMA FindsFirst ==
  ASSUME NEW S, NEW c \in Chip(S)
  PROVE  /\ Served(c) \in SUBSET Line
         /\ Served(c) = {} => pic_non_specific_find(c) = NoLine
         /\ Served(c) # {} => /\ pic_non_specific_find(c) \in Line
                              /\ IsFirst(c, Served(c), pic_non_specific_find(c))
<1>1. c.priority \in Line /\ Served(c) \in SUBSET Line BY DEF Chip, Served
<1>2. pic_non_specific_find(c) = Highest(c, Served(c)) BY DEF pic_non_specific_find, Served
<1>3. CASE Served(c) = {} BY <1>1, <1>2, <1>3 DEF Highest
<1>4. CASE Served(c) # {}
  <2>1. /\ Highest(c, Served(c)) \in Served(c)
        /\ \A j \in Served(c) : Rank(c, Highest(c, Served(c))) <= Rank(c, j)
    BY <1>1, <1>4, HighestExists
  <2> QED BY <2>1, <1>1, <1>2, <1>4 DEF IsFirst
<1> QED BY <1>3, <1>4

(* The first acknowledge of controllers p. *)
FirstAcked(u, p) ==
    /\ u \in Controllers
    /\ Programmed(u.m, p.m) /\ u.m.poll = p.m.poll /\ u.m.smm = p.m.smm
    /\ u.m.auto_eoi_rotate = p.m.auto_eoi_rotate /\ u.m.lines = p.m.lines
    /\ u.m.ack_bytes = 1 /\ Serviced(u.m, p.m)
    /\ u.m.int_pending = p.m.int_pending /\ u.m.interrupt.frozen = TRUE
    /\ u.m.interrupt.line = p.m.interrupt.line /\ u.m.interrupt.slave = p.m.interrupt.slave
    /\ IF p.m.interrupt.slave
       THEN /\ Rest(u.s, p.s) /\ Serviced(u.s, p.s)
            /\ u.s.int_pending = p.s.int_pending
            /\ u.s.interrupt.line = p.s.interrupt.line
       ELSE u.s = p.s

LEMMA AckBytesChip ==
  ASSUME NEW S, NEW c \in Chip(S), NEW n \in {0, 1}
  PROVE  LET x == [c EXCEPT !.ack_bytes = n]
         IN  /\ x \in Chip(S) /\ Programmed(x, c) /\ SameRequest(x, c) /\ SameRegisters(x, c)
             /\ x.poll = c.poll /\ x.smm = c.smm /\ x.ack_bytes = n
             /\ x.auto_eoi_rotate = c.auto_eoi_rotate /\ x.lines = c.lines
BY DEF Chip, Programmed, SameRequest, SameRegisters

LEMMA AckFirstAcks ==
  ASSUME NEW p \in Controllers
  PROVE  FirstAcked(AckFirst(p), p)
<1> DEFINE u == AckFirst(p)
           b == Acknowledged(p.m)
           m == [b EXCEPT !.ack_bytes = 1]
           s == Acknowledged(p.s)
<1>1. p.m \in Chip(SUBSET Line) /\ p.s \in Chip(Line) BY DEF Controllers
<1>2. /\ b \in Chip(SUBSET Line) /\ Rest(b, p.m) /\ Serviced(b, p.m)
      /\ b.int_pending = p.m.int_pending /\ b.interrupt.frozen = TRUE
      /\ b.interrupt.line = p.m.interrupt.line /\ b.interrupt.slave = p.m.interrupt.slave
  BY <1>1, AckedChip
<1>3. /\ s \in Chip(Line) /\ Rest(s, p.s) /\ Serviced(s, p.s)
      /\ s.int_pending = p.s.int_pending /\ s.interrupt.line = p.s.interrupt.line
  BY <1>1, AckedChip
<1>4. u.m = m /\ u.s = IF p.m.interrupt.slave THEN s ELSE p.s BY DEF AckFirst
<1>5. u = [m |-> u.m, s |-> u.s] BY DEF AckFirst
<1> HIDE DEF b, s, u
<1>6. /\ m \in Chip(SUBSET Line) /\ Programmed(m, b) /\ SameRequest(m, b) /\ SameRegisters(m, b)
      /\ m.poll = b.poll /\ m.smm = b.smm /\ m.ack_bytes = 1
      /\ m.auto_eoi_rotate = b.auto_eoi_rotate /\ m.lines = b.lines
  BY <1>2, AckBytesChip
<1> HIDE DEF m
<1>7. u \in Controllers BY <1>1, <1>3, <1>4, <1>5, <1>6 DEF Controllers
<1>8. Programmed(m, p.m) BY <1>2, <1>6 DEF Programmed, Rest
<1>9. Serviced(m, p.m) BY <1>2, <1>6 DEF Serviced, SameRegisters
<1>10. /\ m.poll = p.m.poll /\ m.smm = p.m.smm /\ m.ack_bytes = 1
       /\ m.auto_eoi_rotate = p.m.auto_eoi_rotate /\ m.lines = p.m.lines
  BY <1>2, <1>6 DEF Rest
<1>11. /\ m.int_pending = p.m.int_pending /\ m.interrupt.frozen = TRUE
       /\ m.interrupt.line = p.m.interrupt.line /\ m.interrupt.slave = p.m.interrupt.slave
  BY <1>2, <1>6 DEF SameRequest
<1>12. FirstAcked(u, p)
  BY <1>3, <1>4, <1>7, <1>8, <1>9, <1>10, <1>11 DEF FirstAcked
<1> QED BY <1>12 DEF u

(* An automatic end of interrupt. *)
RegistersEnded(x, c) ==
    /\ x.irr = c.irr /\ x.imr = c.imr
    /\ IF c.icw4.aeoi /\ Served(c) # {}
       THEN \E i \in Line : /\ IsFirst(c, Served(c), i) /\ x.isr = c.isr \ {i}
                            /\ x.priority = IF c.auto_eoi_rotate THEN (i + 1) % L ELSE c.priority
       ELSE x.isr = c.isr /\ x.priority = c.priority

AutoEnded(x, c) == Rest(x, c) /\ SameRequest(x, c) /\ RegistersEnded(x, c)

LEMMA AutoEnds ==
  ASSUME NEW p \in Controllers, NEW d \in {"m", "s"}, p.m.interrupt.frozen
  PROVE  /\ pic_auto_non_specific_eoi(p, d) \in Controllers
         /\ AutoEnded(pic_auto_non_specific_eoi(p, d)[d], p[d])
         /\ \A e \in {"m", "s"} : e # d => pic_auto_non_specific_eoi(p, d)[e] = p[e]
         /\ pic_auto_non_specific_eoi(p, d).m.interrupt.frozen
<1> DEFINE c == p[d]
           i == pic_non_specific_find(c)
           u == pic_auto_non_specific_eoi(p, d)
<1>1. c \in Kind(d) BY ChipKind
<1>2. CASE ~ (c.icw4.aeoi /\ Served(c) # {})
  <2>1. ~ c.icw4.aeoi \/ i = NoLine BY <1>1, <1>2, FindsFirst DEF Kind
  <2>2. u = p BY <2>1 DEF pic_auto_non_specific_eoi, pic_action
  <2>3. AutoEnded(c, c) BY <1>2 DEF AutoEnded, RegistersEnded, Rest, Programmed, SameRequest
  <2> QED BY <2>2, <2>3
<1>3. CASE c.icw4.aeoi /\ Served(c) # {}
  <2>1. i \in Line /\ IsFirst(c, Served(c), i) BY <1>1, <1>3, FindsFirst DEF Kind
  <2>2. c.auto_eoi_rotate \in BOOLEAN BY <1>1 DEF Kind, Chip
  <2>3. u = pic_action(p, d, i, TRUE, c.auto_eoi_rotate)
    BY <1>3 DEF pic_auto_non_specific_eoi
  <2> DEFINE r == c.auto_eoi_rotate
  <2> HIDE DEF i, r
  <2>4. PICK q \in Controllers : /\ EndedAt(q, p, d, i, TRUE, r)
                                 /\ Updated(pic_action(p, d, i, TRUE, r), q)
    BY <2>1, <2>2, ActionEnds DEF r
  <2>5. EndedTo(q[d], c, i, TRUE, r) /\ \A e \in {"m", "s"} : e # d => q[e] = p[e]
    BY <2>4 DEF EndedAt, Replaced
  <2>6. q.m.interrupt = p.m.interrupt
    BY <2>5 DEF EndedTo, SameRequest
  <2>7. u = q BY <2>3, <2>4, <2>6 DEF Updated, r
  <2>8. AutoEnded(q[d], c)
    BY <1>3, <2>1, <2>5 DEF AutoEnded, RegistersEnded, EndedTo, r
  <2> QED BY <2>4, <2>5, <2>6, <2>7, <2>8
<1> QED BY <1>2, <1>3

(* The controllers at the end of the second acknowledge, before the update. *)
Thawed(q, p) ==
    /\ q \in Controllers
    /\ Programmed(q.m, p.m) /\ q.m.poll = p.m.poll /\ q.m.smm = p.m.smm
    /\ q.m.auto_eoi_rotate = p.m.auto_eoi_rotate /\ q.m.lines = p.m.lines
    /\ q.m.ack_bytes = 0 /\ q.m.int_pending = FALSE /\ q.m.interrupt = NoRequest
    /\ RegistersEnded(q.m, p.m)
    /\ IF p.m.interrupt.slave
       THEN /\ Rest(q.s, p.s) /\ RegistersEnded(q.s, p.s)
            /\ q.s.int_pending = FALSE /\ q.s.interrupt = NoRequest
       ELSE q.s = p.s

LEMMA RegistersEndedSame ==
  ASSUME NEW x, NEW c, NEW b, Rest(c, b), SameRegisters(c, b), RegistersEnded(x, c)
  PROVE  RegistersEnded(x, b)
<1>1. Served(c) = Served(b) BY DEF Served, Rest, SameRegisters
<1>2. c.icw4 = b.icw4 /\ c.auto_eoi_rotate = b.auto_eoi_rotate BY DEF Rest, Programmed
<1>3. \A i : IsFirst(c, Served(c), i) <=> IsFirst(b, Served(b), i)
  BY <1>1 DEF IsFirst, Rank, SameRegisters
<1> QED BY <1>1, <1>2, <1>3 DEF RegistersEnded, SameRegisters

LEMMA ThawedChip ==
  ASSUME NEW S, NEW c \in Chip(S)
  PROVE  LET x == [c EXCEPT !.interrupt = NoRequest]
         IN  /\ x \in Chip(S) /\ Rest(x, c) /\ SameRegisters(x, c)
             /\ x.int_pending = c.int_pending /\ x.interrupt = NoRequest
BY RequestFields DEF Chip, Rest, Programmed, SameRegisters

LEMMA AckSecondThaws ==
  ASSUME NEW p \in Controllers, p.m.interrupt.frozen
  PROVE  \E q \in Controllers : Thawed(q, p) /\ Updated(AckSecond(p), q)
<1> DEFINE slave == p.m.interrupt.slave
           p1 == [p EXCEPT !.m.int_pending = FALSE,
                           !.s.int_pending = IF slave THEN FALSE ELSE @]
           p2 == IF slave THEN pic_auto_non_specific_eoi(p1, "s") ELSE p1
           p3 == pic_auto_non_specific_eoi(p2, "m")
           q == [p3 EXCEPT !.m.ack_bytes = 0, !.m.interrupt = NoRequest,
                           !.s.interrupt = IF slave THEN NoRequest ELSE @]
<1>1. p.m \in Chip(SUBSET Line) /\ p.s \in Chip(Line) BY DEF Controllers
<1>2. /\ p1 \in Controllers
      /\ p1.m = [p.m EXCEPT !.int_pending = FALSE]
      /\ p1.s = IF slave THEN [p.s EXCEPT !.int_pending = FALSE] ELSE p.s
  <2> DEFINE m1 == [p.m EXCEPT !.int_pending = FALSE]
             s1 == IF slave THEN [p.s EXCEPT !.int_pending = FALSE] ELSE p.s
  <2>1. m1 \in Chip(SUBSET Line) /\ s1 \in Chip(Line) BY <1>1, PendingChip
  <2>2. s1 = [p.s EXCEPT !.int_pending = IF slave THEN FALSE ELSE @] BY <1>1 DEF Chip
  <2>3. p1 = [p EXCEPT !.m = m1, !.s = s1] BY <2>2 DEF Controllers
  <2> HIDE DEF m1, s1
  <2>4. p1 \in Controllers /\ p1.m = m1 /\ p1.s = s1 BY <2>1, <2>3 DEF Controllers
  <2> QED BY <2>4 DEF m1, s1
<1>6. AckSecond(p) = update_pending(q) BY DEF AckSecond
<1> HIDE DEF p1, slave
<1>3. /\ Rest(p1.m, p.m) /\ SameRegisters(p1.m, p.m)
      /\ p1.m.int_pending = FALSE /\ p1.m.interrupt = p.m.interrupt
  BY <1>1, <1>2, PendingChip
<1>4. slave => /\ Rest(p1.s, p.s) /\ SameRegisters(p1.s, p.s)
               /\ p1.s.int_pending = FALSE /\ p1.s.interrupt = p.s.interrupt
  BY <1>1, <1>2, PendingChip
<1>5. ~ slave => p1.s = p.s BY <1>2
<1>7. p1.m.interrupt.frozen BY <1>3
<1>8. /\ p2 \in Controllers /\ p2.m = p1.m
      /\ IF slave THEN AutoEnded(p2.s, p1.s) ELSE p2.s = p1.s
  <2>1. CASE slave BY <1>2, <1>7, <2>1, AutoEnds
  <2>2. CASE ~ slave BY <1>2, <2>2
  <2> QED BY <2>1, <2>2
<1> HIDE DEF p2
<1>9. p3 \in Controllers /\ AutoEnded(p3.m, p1.m) /\ p3.s = p2.s
  BY <1>7, <1>8, AutoEnds
<1> HIDE DEF p3
<1> DEFINE m1 == [p3.m EXCEPT !.ack_bytes = 0]
           m2 == [m1 EXCEPT !.interrupt = NoRequest]
           s2 == IF slave THEN [p3.s EXCEPT !.interrupt = NoRequest] ELSE p3.s
<1>10. p3.m \in Chip(SUBSET Line) /\ p3.s \in Chip(Line) BY <1>9 DEF Controllers
<1>11. /\ m1 \in Chip(SUBSET Line) /\ Programmed(m1, p3.m) /\ SameRequest(m1, p3.m)
       /\ SameRegisters(m1, p3.m) /\ m1.poll = p3.m.poll /\ m1.smm = p3.m.smm
       /\ m1.ack_bytes = 0
       /\ m1.auto_eoi_rotate = p3.m.auto_eoi_rotate /\ m1.lines = p3.m.lines
  BY <1>10, AckBytesChip
<1>12. s2 = [p3.s EXCEPT !.interrupt = IF slave THEN NoRequest ELSE @]
  BY <1>10 DEF Chip
<1>22. q = [p3 EXCEPT !.m = m2, !.s = s2] BY <1>9, <1>12 DEF Controllers
<1> HIDE DEF q, m1
<1>13. /\ m2 \in Chip(SUBSET Line) /\ Rest(m2, m1) /\ SameRegisters(m2, m1)
       /\ m2.int_pending = m1.int_pending /\ m2.interrupt = NoRequest
  BY <1>11, ThawedChip
<1>14. slave => /\ s2 \in Chip(Line) /\ Rest(s2, p3.s) /\ SameRegisters(s2, p3.s)
                /\ s2.int_pending = p3.s.int_pending /\ s2.interrupt = NoRequest
  BY <1>10, ThawedChip
<1>15. ~ slave => s2 = p3.s OBVIOUS
<1> HIDE DEF m2, s2
<1>23. m2 \in Chip(SUBSET Line) /\ s2 \in Chip(Line) BY <1>10, <1>13, <1>14, <1>15
<1>16. q \in Controllers /\ q.m = m2 /\ q.s = s2 BY <1>9, <1>22, <1>23 DEF Controllers
<1>17. RegistersEnded(q.m, p.m)
  <2>1. RegistersEnded(p3.m, p.m) BY <1>3, <1>9, RegistersEndedSame DEF AutoEnded
  <2>2. SameRegisters(q.m, p3.m) BY <1>11, <1>16, <1>13 DEF SameRegisters
  <2> QED BY <2>1, <2>2 DEF RegistersEnded, SameRegisters
<1>18. /\ Programmed(q.m, p.m) /\ q.m.poll = p.m.poll /\ q.m.smm = p.m.smm
       /\ q.m.auto_eoi_rotate = p.m.auto_eoi_rotate /\ q.m.lines = p.m.lines
       /\ q.m.ack_bytes = 0 /\ q.m.int_pending = FALSE /\ q.m.interrupt = NoRequest
  BY <1>3, <1>9, <1>11, <1>16, <1>13 DEF Rest, Programmed, AutoEnded, SameRequest
<1>19. slave => /\ Rest(q.s, p.s) /\ RegistersEnded(q.s, p.s)
                /\ q.s.int_pending = FALSE /\ q.s.interrupt = NoRequest
  <2> SUFFICES ASSUME slave
               PROVE  /\ Rest(q.s, p.s) /\ RegistersEnded(q.s, p.s)
                      /\ q.s.int_pending = FALSE /\ q.s.interrupt = NoRequest
    OBVIOUS
  <2>1. AutoEnded(p3.s, p1.s) BY <1>8, <1>9
  <2>2. RegistersEnded(p3.s, p.s) BY <1>4, <2>1, RegistersEndedSame DEF AutoEnded
  <2>3. SameRegisters(q.s, p3.s) BY <1>16, <1>14
  <2>4. RegistersEnded(q.s, p.s) BY <2>2, <2>3 DEF RegistersEnded, SameRegisters
  <2>5. Rest(q.s, p.s) BY <1>4, <1>16, <1>14, <2>1 DEF AutoEnded, Rest, Programmed
  <2>6. q.s.int_pending = FALSE /\ q.s.interrupt = NoRequest
    BY <1>4, <1>16, <1>14, <2>1 DEF AutoEnded, SameRequest
  <2> QED BY <2>4, <2>5, <2>6
<1>20. ~ slave => q.s = p.s BY <1>5, <1>8, <1>9, <1>16, <1>15
<1>21. Thawed(q, p) BY <1>16, <1>17, <1>18, <1>19, <1>20 DEF Thawed, slave
<1> QED BY <1>6, <1>16, <1>21, UpdateUpdates

-----------------------------------------------------------------------------
(* What the actions do to the controllers. *)
LEMMA Configured ==
  ASSUME machine \in Machines
  PROVE  /\ Config[machine] \in Configuration
         /\ Chips \in SUBSET {"m", "s"} /\ Edge \in SUBSET DOMAIN Irq /\ Level \in SUBSET DOMAIN Irq
         /\ Latches \in SUBSET Inputs
BY PicAssumption DEF Configuration, Chips, Edge, Level, Latches, Inputs

LEMMA TargetType ==
  ASSUME NEW irq \in Inputs, Target(irq) # <<>>
  PROVE  Target(irq) \in Inputs
<1>1. 1 \in Line BY LinesAssumption DEF Line
<1> QED BY <1>1 DEF Target, Inputs

LEMMA PicintDoes ==
  ASSUME TypeOK, NEW e \in Edge, NEW set \in BOOLEAN, picint(e, set)
  PROVE  /\ Target(Irq[e]) \in Inputs /\ Reached(Target(Irq[e]))
         /\ \E q \in Controllers : Moved(q, pic, Target(Irq[e]), set) /\ Updated(pic', q)
<1>1. pic \in Controllers BY DEF TypeOK, Controllers
<1>2. Irq[e] \in Inputs BY Configured, PicAssumption DEF TypeOK, Inputs
<1>3. Target(Irq[e]) \in Inputs /\ Reached(Target(Irq[e])) BY <1>2, TargetType DEF picint
<1>4. pic' = Driven(pic, Target(Irq[e]), set) BY DEF picint
<1> QED BY <1>1, <1>3, <1>4, DrivenMoves

LEMMA PicintlevelDoes ==
  ASSUME TypeOK, NEW e \in Level, NEW set \in BOOLEAN, picintlevel(e, set)
  PROVE  LET t == Target(Irq[e])
             changed == (e \in irq_state) # set
         IN  /\ t \in Inputs
             /\ \E b \in Controllers :
                   /\ IF changed /\ Reached(t) THEN Counted(b, pic, t, IF set THEN 1 ELSE -1)
                                               ELSE b = pic
                   /\ IF Reached(t) /\ PassedOn(b[t[1]], t[2], changed, set)
                      THEN \E q \in Controllers : Moved(q, b, t, set) /\ Updated(pic', q)
                      ELSE pic' = b
<1> DEFINE t == Target(Irq[e])
           changed == (e \in irq_state) # set
           b == IF changed /\ Reached(t)
                THEN [pic EXCEPT ![t[1]].lines[t[2]] = (IF set THEN @ + 1 ELSE @ - 1) % Wrap]
                ELSE pic
           passed == Reached(t) /\ PassedOn(b[t[1]], t[2], changed, set)
<1>1. pic \in Controllers BY DEF TypeOK, Controllers
<1>2. Irq[e] \in Inputs BY Configured, PicAssumption DEF TypeOK, Inputs
<1>3. t \in Inputs BY <1>2, TargetType DEF picintlevel
<1>4. pic' = IF passed THEN Driven(b, t, set) ELSE b BY DEF picintlevel
<1>5. IF changed /\ Reached(t) THEN Counted(b, pic, t, IF set THEN 1 ELSE -1) ELSE b = pic
  <2>1. CASE changed /\ Reached(t)
    <3>1. b = [pic EXCEPT ![t[1]].lines[t[2]] = (IF set THEN @ + 1 ELSE @ - 1) % Wrap] BY <2>1
    <3> HIDE DEF b, t
    <3> QED BY <1>1, <1>3, <2>1, <3>1, LinesCounted
  <2>2. CASE ~ (changed /\ Reached(t)) BY <2>2
  <2> QED BY <2>1, <2>2
<1> HIDE DEF b, t, changed
<1>6. b \in Controllers BY <1>1, <1>5 DEF Counted, Replaced
<1>7. IF Reached(t) /\ PassedOn(b[t[1]], t[2], changed, set)
      THEN \E q \in Controllers : Moved(q, b, t, set) /\ Updated(pic', q)
      ELSE pic' = b
  BY <1>3, <1>4, <1>6, DrivenMoves
<1> QED BY <1>3, <1>5, <1>6, <1>7 DEF t, changed

LEMMA LatchReadDoes ==
  ASSUME TypeOK, NEW t \in Latches, pic_latch_read(t)
  PROVE  /\ t \in Inputs /\ Reached(t)
         /\ \E q \in Controllers : Moved(q, pic, t, FALSE) /\ Updated(pic', q)
<1>1. pic \in Controllers BY DEF TypeOK, Controllers
<1>2. t \in Inputs BY Configured DEF TypeOK
<1> QED BY <1>1, <1>2, DrivenMoves DEF pic_latch_read

(* Initialisation of controller d begins. *)
Begun(q, d, word) == Replaced(q, pic, d) /\ Begins(q[d], pic[d], word, NoIcw3(d))

LEMMA WriteIcw1Does ==
  ASSUME TypeOK, NEW d \in Chips, NEW word \in Config[machine].icw1s, WriteIcw1(d, word)
  PROVE  \E q \in Controllers : Begun(q, d, word) /\ Updated(pic', q)
<1>1. pic \in Controllers BY DEF TypeOK, Controllers
<1>2. d \in {"m", "s"} BY Configured DEF TypeOK
<1>3. word \in [ltim : BOOLEAN, single : BOOLEAN, ic4 : BOOLEAN]
  BY Configured DEF TypeOK, Configuration
<1> DEFINE c == pic[d]
           x == Icw1Written(c, word, NoIcw3(d))
           q == [pic EXCEPT ![d] = x]
           S == IF d = "m" THEN SUBSET Line ELSE Line
<1>4. NoIcw3(d) \in S BY LinesAssumption DEF NoIcw3, Line
<1>5. c \in Kind(d) /\ Kind(d) = Chip(S) BY <1>1, <1>2, ChipKind DEF Kind
<1>6. pic' = update_pending(q) BY DEF WriteIcw1
<1> HIDE DEF S
<1>7. x \in Kind(d) /\ Begins(x, c, word, NoIcw3(d)) BY <1>3, <1>4, <1>5, Icw1Chip
<1> HIDE DEF x, c
<1>8. Replaced(q, pic, d) /\ q[d] = x BY <1>1, <1>2, <1>7, ReplaceChip
<1> HIDE DEF q
<1>9. q \in Controllers /\ Begun(q, d, word) BY <1>7, <1>8 DEF Begun, Replaced, c
<1> QED BY <1>6, <1>9, UpdateUpdates

(* The next initialisation word of controller d. *)
Continued(d) ==
    LET x == pic'[d]
        c == pic[d]
    IN  /\ Replaced(pic', pic, d)
        /\ SameRequest(x, c) /\ SameRegisters(x, c)
        /\ x.single = c.single /\ x.elcr = c.elcr
        /\ x.poll = c.poll /\ x.smm = c.smm /\ x.ack_bytes = c.ack_bytes
        /\ x.lines = c.lines
        /\ \/ /\ c.state = "ICW2" /\ x.state = (IF c.single THEN AfterIcw3(c) ELSE "ICW3")
              /\ x.icw3 = c.icw3 /\ x.icw4 = c.icw4
           \/ /\ c.state = "ICW3" /\ x.state = AfterIcw3(c)
              /\ x.icw3 = Icw3(d) /\ x.icw4 = c.icw4
           \/ c.state = "ICW4" /\ x.state = "NONE" /\ x.icw3 = c.icw3

LEMMA WriteIcwDoes ==
  ASSUME TypeOK, NEW d \in Chips, WriteIcw(d)
  PROVE  Continued(d)
<1>1. pic \in Controllers BY DEF TypeOK, Controllers
<1>2. d \in {"m", "s"} BY Configured DEF TypeOK
<1> DEFINE c == pic[d]
           S == IF d = "m" THEN SUBSET Line ELSE Line
<1>3. c \in Kind(d) /\ Kind(d) = Chip(S) BY <1>1, <1>2, ChipKind DEF Kind
<1>4. Icw3(d) \in S BY PicAssumption DEF Icw3
<1> HIDE DEF S
<1>5. CASE c.state = "ICW2" /\ pic' = [pic EXCEPT ![d] = Icw2Written(@)]
  <2> DEFINE x == Icw2Written(c)
  <2>1. /\ x \in Kind(d) /\ SameRequest(x, c) /\ SameRegisters(x, c)
        /\ x.state = (IF c.single THEN AfterIcw3(c) ELSE "ICW3")
        /\ x.single = c.single /\ x.icw3 = c.icw3 /\ x.icw4 = c.icw4 /\ x.elcr = c.elcr
        /\ x.poll = c.poll /\ x.smm = c.smm /\ x.ack_bytes = c.ack_bytes
        /\ x.lines = c.lines
    BY <1>3, Icw2Chip
  <2>2. pic' = [pic EXCEPT ![d] = x] BY <1>5
  <2> HIDE DEF x
  <2>3. Replaced(pic', pic, d) /\ pic'[d] = x BY <1>1, <1>2, <2>1, <2>2, ReplaceChip
  <2> QED BY <1>5, <2>1, <2>3 DEF Continued
<1>6. CASE c.state = "ICW3" /\ pic' = [pic EXCEPT ![d] = Icw3Written(@, Icw3(d))]
  <2> DEFINE x == Icw3Written(c, Icw3(d))
  <2>1. /\ x \in Kind(d) /\ SameRequest(x, c) /\ SameRegisters(x, c)
        /\ x.state = AfterIcw3(c) /\ x.icw3 = Icw3(d)
        /\ x.single = c.single /\ x.icw4 = c.icw4 /\ x.elcr = c.elcr
        /\ x.poll = c.poll /\ x.smm = c.smm /\ x.ack_bytes = c.ack_bytes
        /\ x.lines = c.lines
    BY <1>3, <1>4, Icw3Chip
  <2>2. pic' = [pic EXCEPT ![d] = x] BY <1>6
  <2> HIDE DEF x
  <2>3. Replaced(pic', pic, d) /\ pic'[d] = x BY <1>1, <1>2, <2>1, <2>2, ReplaceChip
  <2> QED BY <1>6, <2>1, <2>3 DEF Continued
<1>7. ASSUME c.state = "ICW4", NEW icw4 \in Config[machine].icw4s,
             pic' = [pic EXCEPT ![d] = Icw4Written(@, icw4)]
      PROVE  Continued(d)
  <2> DEFINE x == Icw4Written(c, icw4)
  <2>1. icw4 \in Icw4 BY Configured DEF TypeOK, Configuration
  <2>2. /\ x \in Kind(d) /\ SameRequest(x, c) /\ SameRegisters(x, c)
        /\ x.state = "NONE" /\ x.icw3 = c.icw3
        /\ x.single = c.single /\ x.elcr = c.elcr
        /\ x.poll = c.poll /\ x.smm = c.smm /\ x.ack_bytes = c.ack_bytes
        /\ x.lines = c.lines
    BY <1>3, <2>1, Icw4Chip
  <2>3. pic' = [pic EXCEPT ![d] = x] BY <1>7
  <2> HIDE DEF x
  <2>4. Replaced(pic', pic, d) /\ pic'[d] = x BY <1>1, <1>2, <2>2, <2>3, ReplaceChip
  <2> QED BY <1>7, <2>2, <2>4 DEF Continued
<1> QED BY <1>5, <1>6, <1>7 DEF WriteIcw

(* Controller d has a new mask. *)
MaskIs(q, d, mask) ==
    LET x == q[d]
        c == pic[d]
    IN  /\ Replaced(q, pic, d) /\ Rest(x, c) /\ SameRequest(x, c)
        /\ x.irr = c.irr /\ x.imr = mask /\ x.isr = c.isr /\ x.priority = c.priority

LEMMA WriteOcw1Does ==
  ASSUME TypeOK, NEW d \in Chips, NEW mask \in Config[machine].masks, WriteOcw1(d, mask)
  PROVE  \E q \in Controllers : /\ MaskIs(q, d, mask)
                                 /\ IF Is286 THEN Updated(pic', q) ELSE pic' = q
<1>1. pic \in Controllers BY DEF TypeOK, Controllers
<1>2. d \in {"m", "s"} BY Configured DEF TypeOK
<1>3. mask \in SUBSET Line BY Configured DEF TypeOK, Configuration
<1> DEFINE c == pic[d]
           x == [c EXCEPT !.imr = mask]
           q == [pic EXCEPT ![d] = x]
<1>4. c \in Kind(d) BY <1>1, <1>2, ChipKind
<1>5. pic' = IF Is286 THEN update_pending(q) ELSE q BY DEF WriteOcw1, ImrWritten
<1>6. /\ x \in Kind(d) /\ Rest(x, c) /\ SameRequest(x, c)
      /\ x.irr = c.irr /\ x.imr = mask /\ x.isr = c.isr /\ x.priority = c.priority
  BY <1>3, <1>4, ImrChip DEF Kind
<1> HIDE DEF x, c
<1>7. Replaced(q, pic, d) /\ q[d] = x BY <1>1, <1>2, <1>6, ReplaceChip
<1> HIDE DEF q
<1>8. q \in Controllers /\ MaskIs(q, d, mask) BY <1>6, <1>7 DEF MaskIs, Replaced, c
<1> QED BY <1>5, <1>8, UpdateUpdates

(* Only the rotation of controller d's automatic ends changes. *)
RotationIs(d, rotate) ==
    LET x == pic'[d]
        c == pic[d]
    IN  /\ Replaced(pic', pic, d)
        /\ Programmed(x, c) /\ SameRequest(x, c) /\ SameRegisters(x, c)
        /\ x.poll = c.poll /\ x.smm = c.smm /\ x.ack_bytes = c.ack_bytes
        /\ x.auto_eoi_rotate = rotate /\ x.lines = c.lines

(* The line an OCW2 is about. *)
CommandLine(d, word) == IF word.sl THEN word.line ELSE pic_non_specific_find(pic[d])

LEMMA WriteOcw2Does ==
  ASSUME TypeOK, NEW d \in Chips, NEW word \in Config[machine].commands, WriteOcw2(d, word)
  PROVE  LET i == CommandLine(d, word)
         IN  IF word.sl \/ word.eoi
             THEN IF i = NoLine THEN pic' = pic
                  ELSE /\ i \in Line
                       /\ word.sl \/ (Served(pic[d]) # {} /\ IsFirst(pic[d], Served(pic[d]), i))
                       /\ \E q \in Controllers : /\ EndedAt(q, pic, d, i, word.eoi, word.rotate)
                                                  /\ Updated(pic', q)
             ELSE RotationIs(d, word.rotate)
<1>1. pic \in Controllers BY DEF TypeOK, Controllers
<1>2. d \in {"m", "s"} BY Configured DEF TypeOK
<1>3. word \in [sl : BOOLEAN, eoi : BOOLEAN, rotate : BOOLEAN, line : Line]
  BY Configured DEF TypeOK, Configuration
<1> DEFINE c == pic[d]
           i == CommandLine(d, word)
           eoi == word.eoi
           rotate == word.rotate
           S == IF d = "m" THEN SUBSET Line ELSE Line
<1>4. c \in Chip(S) /\ Kind(d) = Chip(S) BY <1>1, <1>2, ChipKind DEF Kind
<1>5. eoi \in BOOLEAN /\ rotate \in BOOLEAN BY <1>3
<1>6. CASE word.sl \/ word.eoi
  <2>1. pic' = pic_action(pic, d, i, eoi, rotate) BY <1>6 DEF WriteOcw2, CommandLine
  <2>2. CASE i = NoLine
    <3>1. pic' = pic BY <2>1, <2>2 DEF pic_action
    <3> QED BY <1>6, <2>2, <3>1
  <2>3. CASE i # NoLine
    <3>1. i \in Line /\ (word.sl \/ (Served(c) # {} /\ IsFirst(c, Served(c), i)))
      <4>1. CASE word.sl BY <1>3, <4>1 DEF CommandLine
      <4>2. CASE ~ word.sl
        <5>1. i = pic_non_specific_find(c) BY <4>2 DEF CommandLine
        <5> HIDE DEF S, c, i
        <5> QED BY <1>4, <2>3, <5>1, FindsFirst
      <4> QED BY <4>1, <4>2
    <3> HIDE DEF i, eoi, rotate
    <3>2. \E q \in Controllers : /\ EndedAt(q, pic, d, i, eoi, rotate)
                                  /\ Updated(pic_action(pic, d, i, eoi, rotate), q)
      BY <1>1, <1>2, <1>5, <3>1, ActionEnds
    <3> QED BY <1>6, <2>1, <2>3, <3>1, <3>2 DEF i, eoi, rotate
  <2> QED BY <2>2, <2>3
<1>7. CASE ~ (word.sl \/ word.eoi)
  <2> DEFINE x == [c EXCEPT !.auto_eoi_rotate = rotate]
  <2>1. pic' = [pic EXCEPT ![d] = x] BY <1>7 DEF WriteOcw2
  <2> HIDE DEF S, c, rotate
  <2>2. /\ x \in Chip(S) /\ Programmed(x, c) /\ SameRequest(x, c) /\ SameRegisters(x, c)
        /\ x.poll = c.poll /\ x.smm = c.smm /\ x.ack_bytes = c.ack_bytes
        /\ x.auto_eoi_rotate = rotate /\ x.lines = c.lines
    BY <1>4, <1>5, RotateChip
  <2> HIDE DEF x
  <2>5. x \in Kind(d) BY <1>4, <2>2
  <2>3. Replaced(pic', pic, d) /\ pic'[d] = x BY <1>1, <1>2, <2>1, <2>5, ReplaceChip
  <2>4. RotationIs(d, rotate) BY <2>2, <2>3 DEF RotationIs, c
  <2> QED BY <1>7, <2>4 DEF rotate
<1> QED BY <1>6, <1>7

(* A poll command, or a change of the special mask mode. *)
Commanded(d, word) ==
    LET x == pic'[d]
        c == pic[d]
    IN  /\ Replaced(pic', pic, d) /\ Programmed(x, c) /\ SameRegisters(x, c)
        /\ x.poll = word.poll /\ x.smm = (IF word.esmm THEN word.smm ELSE c.smm)
        /\ x.ack_bytes = c.ack_bytes
        /\ x.auto_eoi_rotate = c.auto_eoi_rotate /\ x.lines = c.lines
        /\ x.int_pending = c.int_pending
        /\ x.interrupt.frozen = (c.interrupt.frozen \/ word.poll)
        /\ x.interrupt.line = c.interrupt.line /\ x.interrupt.slave = c.interrupt.slave

LEMMA WriteOcw3Does ==
  ASSUME TypeOK, NEW d \in Chips, NEW o \in Config[machine].ocw3s, WriteOcw3(d, o[2])
  PROVE  Commanded(d, o[2])
<1>1. pic \in Controllers BY DEF TypeOK, Controllers
<1>2. d \in {"m", "s"} BY Configured DEF TypeOK
<1>3. o[2] \in [poll : BOOLEAN, esmm : BOOLEAN, smm : BOOLEAN]
  BY Configured DEF TypeOK, Configuration
<1> DEFINE word == o[2]
           c == pic[d]
           x == Ocw3Written(c, word)
           S == IF d = "m" THEN SUBSET Line ELSE Line
<1>4. c \in Chip(S) /\ Kind(d) = Chip(S) BY <1>1, <1>2, ChipKind DEF Kind
<1>5. pic' = [pic EXCEPT ![d] = x] BY DEF WriteOcw3
<1> HIDE DEF S, c, word
<1>6. /\ x \in Chip(S) /\ Programmed(x, c) /\ SameRegisters(x, c)
      /\ x.poll = word.poll /\ x.smm = (IF word.esmm THEN word.smm ELSE c.smm)
      /\ x.ack_bytes = c.ack_bytes
      /\ x.auto_eoi_rotate = c.auto_eoi_rotate /\ x.lines = c.lines
      /\ x.int_pending = c.int_pending
      /\ x.interrupt.frozen = (c.interrupt.frozen \/ word.poll)
      /\ x.interrupt.line = c.interrupt.line /\ x.interrupt.slave = c.interrupt.slave
  BY <1>3, <1>4, Ocw3Chip DEF word
<1> HIDE DEF x
<1>8. x \in Kind(d) BY <1>4, <1>6
<1>7. Replaced(pic', pic, d) /\ pic'[d] = x BY <1>1, <1>2, <1>5, <1>8, ReplaceChip
<1> QED BY <1>6, <1>7 DEF Commanded, c, word

(* The answer of controller d to a poll: without a request it only thaws, *)
(* with one that goes into service.                                        *)
Polled(q, d) ==
    LET x == q[d]
        c == pic[d]
    IN  /\ Replaced(q, pic, d) /\ Programmed(x, c)
        /\ x.poll = FALSE /\ x.smm = c.smm /\ x.ack_bytes = c.ack_bytes
        /\ x.auto_eoi_rotate = c.auto_eoi_rotate /\ x.lines = c.lines
        /\ x.int_pending = FALSE /\ x.interrupt.frozen = FALSE
        /\ x.interrupt.line = c.interrupt.line /\ x.interrupt.slave = c.interrupt.slave
        /\ IF c.int_pending THEN Serviced(x, c) ELSE SameRegisters(x, c)

LEMMA ReadPollDoes ==
  ASSUME TypeOK, NEW d \in Chips, ReadPoll(d)
  PROVE  \E q \in Controllers : /\ Polled(q, d)
                                 /\ IF pic[d].int_pending THEN Updated(pic', q) ELSE pic' = q
<1>1. pic \in Controllers BY DEF TypeOK, Controllers
<1>2. d \in {"m", "s"} BY Configured DEF TypeOK
<1> DEFINE c == pic[d]
           b == [c EXCEPT !.interrupt.frozen = FALSE, !.poll = FALSE]
           a == pic_acknowledge(b, elcr_enabled)
           x == IF c.int_pending THEN [a EXCEPT !.int_pending = FALSE] ELSE b
           q == [pic EXCEPT ![d] = x]
           S == IF d = "m" THEN SUBSET Line ELSE Line
<1>3. c \in Chip(S) /\ Kind(d) = Chip(S) BY <1>1, <1>2, ChipKind DEF Kind
<1> HIDE DEF S
<1>4. /\ b \in Chip(S) /\ Programmed(b, c) /\ SameRegisters(b, c)
      /\ b.poll = FALSE /\ b.smm = c.smm /\ b.ack_bytes = c.ack_bytes
      /\ b.auto_eoi_rotate = c.auto_eoi_rotate /\ b.lines = c.lines
      /\ b.int_pending = c.int_pending /\ b.interrupt.frozen = FALSE
      /\ b.interrupt.line = c.interrupt.line /\ b.interrupt.slave = c.interrupt.slave
  BY <1>3, PolledChip
<1>5. c.int_pending \in BOOLEAN BY <1>3 DEF Chip
<1>6. pic' = IF pic[d].int_pending THEN update_pending(q) ELSE q
  <2>1. b.int_pending = c.int_pending BY <1>4
  <2>2. CASE c.int_pending BY <2>1, <2>2 DEF ReadPoll
  <2>3. CASE ~ c.int_pending BY <2>1, <2>3 DEF ReadPoll
  <2> QED BY <2>2, <2>3
<1> HIDE DEF b, c
<1>7. a \in Chip(S) /\ Rest(a, b) /\ SameRequest(a, b) /\ Serviced(a, b)
  BY <1>4, AcknowledgedChip
<1> HIDE DEF a
<1>8. CASE c.int_pending
  <2>1. /\ x \in Chip(S) /\ Rest(x, a) /\ SameRegisters(x, a)
        /\ x.int_pending = FALSE /\ x.interrupt = a.interrupt
    BY <1>7, <1>8, PendingChip
  <2> HIDE DEF x
  <2>2. Serviced(x, c)
    BY <1>4, <1>7, <2>1 DEF Serviced, SameRegisters, Rest, Programmed, pic_level_triggered
  <2>3. Replaced(q, pic, d) /\ q[d] = x BY <1>1, <1>2, <1>3, <2>1, ReplaceChip
  <2> HIDE DEF q
  <2>4. /\ x.int_pending = FALSE /\ x.interrupt.frozen = FALSE
        /\ x.interrupt.line = c.interrupt.line /\ x.interrupt.slave = c.interrupt.slave
    BY <1>4, <1>7, <2>1 DEF SameRequest
  <2>5. /\ Programmed(x, c) /\ x.poll = FALSE /\ x.smm = c.smm /\ x.ack_bytes = c.ack_bytes
        /\ x.auto_eoi_rotate = c.auto_eoi_rotate /\ x.lines = c.lines
    BY <1>4, <1>7, <2>1 DEF Rest, Programmed
  <2>6. Polled(q, d) BY <1>8, <2>2, <2>3, <2>4, <2>5 DEF Polled, c
  <2>7. q \in Controllers BY <2>3 DEF Replaced
  <2> QED BY <1>6, <1>8, <2>6, <2>7, UpdateUpdates DEF c
<1>9. CASE ~ c.int_pending
  <2>1. x = b BY <1>9
  <2> HIDE DEF x
  <2>2. Replaced(q, pic, d) /\ q[d] = x BY <1>1, <1>2, <1>3, <1>4, <2>1, ReplaceChip
  <2> HIDE DEF q
  <2>3. b.int_pending = FALSE BY <1>4, <1>5, <1>9
  <2>4. Polled(q, d) BY <1>4, <1>9, <2>1, <2>2, <2>3 DEF Polled, c
  <2>5. q \in Controllers BY <2>2 DEF Replaced
  <2> QED BY <1>6, <1>9, <2>4, <2>5 DEF c
<1> QED BY <1>8, <1>9

(* The controllers as the CPU is about to acknowledge; on a 386 core a     *)
(* slave that has nothing is made to have a spurious request.              *)
Asked(p, slave, spurious) ==
    /\ Rest(p.m, pic.m) /\ SameRegisters(p.m, pic.m)
    /\ p.m.int_pending = pic.m.int_pending
    /\ p.m.interrupt.line = pic.m.interrupt.line
    /\ p.m.interrupt.slave = (pic.m.interrupt.slave \/ slave)
    /\ IF spurious
       THEN Rest(p.s, pic.s) /\ SameRegisters(p.s, pic.s)
       ELSE p.s = pic.s

LEMMA FromSlaveAsks ==
  ASSUME pic \in Controllers
  PROVE  FromSlave \in Controllers /\ Asked(FromSlave, TRUE, FALSE)
<1> DEFINE c == pic.m
           x == [c EXCEPT !.interrupt.slave = TRUE]
<1>1. c \in Chip(SUBSET Line) BY DEF Controllers
<1>2. FromSlave = [pic EXCEPT !.m = x] BY DEF FromSlave
<1>3. /\ x \in Chip(SUBSET Line) /\ Rest(x, c) /\ SameRegisters(x, c)
      /\ x.int_pending = c.int_pending /\ x.interrupt.line = c.interrupt.line
      /\ x.interrupt.slave = TRUE
  BY <1>1 DEF Chip, Rest, Programmed, SameRegisters
<1> HIDE DEF x
<1>4. FromSlave \in Controllers /\ FromSlave.m = x /\ FromSlave.s = pic.s
  BY <1>2, <1>3 DEF Controllers
<1> QED BY <1>3, <1>4 DEF Asked

LEMMA AsIsAsks ==
  ASSUME pic \in Controllers
  PROVE  Asked(pic, FALSE, FALSE)
<1>1. pic.m.interrupt.slave \in BOOLEAN BY DEF Controllers, Chip
<1>2. pic.m.interrupt.slave = (pic.m.interrupt.slave \/ FALSE) BY <1>1
<1> QED BY <1>2 DEF Asked, Rest, Programmed, SameRegisters

LEMMA SpuriousAsks ==
  ASSUME pic \in Controllers
  PROVE  LET p == [pic EXCEPT !.s.int_pending = TRUE, !.s.interrupt = Request(L - 1)]
         IN  p \in Controllers /\ Asked(p, FALSE, TRUE)
<1> DEFINE c == pic.s
           x == [c EXCEPT !.int_pending = TRUE, !.interrupt = Request(L - 1)]
           p == [pic EXCEPT !.s.int_pending = TRUE, !.s.interrupt = Request(L - 1)]
<1>1. c \in Chip(Line) BY DEF Controllers
<1>2. p = [pic EXCEPT !.s = x] BY DEF Controllers
<1>3. Request(L - 1) \in [line : Line, none : BOOLEAN, frozen : BOOLEAN, slave : BOOLEAN]
  BY LinesAssumption, RequestFields DEF Line
<1>4. x \in Chip(Line) /\ Rest(x, c) /\ SameRegisters(x, c)
  BY <1>1, <1>3 DEF Chip, Rest, Programmed, SameRegisters
<1> HIDE DEF x, p
<1>5. p \in Controllers /\ p.m = pic.m /\ p.s = x BY <1>2, <1>4 DEF Controllers
<1>6. Asked(pic, FALSE, FALSE) BY AsIsAsks
<1>7. Asked(p, FALSE, TRUE) BY <1>4, <1>5, <1>6 DEF Asked
<1> QED BY <1>5, <1>7 DEF p

LEMMA PicinterruptDoes ==
  ASSUME TypeOK, picinterrupt
  PROVE  \E p \in Controllers : \E u \in Controllers : \E q \in Controllers :
            /\ Asked(p, pic_slave_on(pic.m) /\ pic.s.int_pending,
                        pic_slave_on(pic.m) /\ ~ pic.s.int_pending)
            /\ FirstAcked(u, p) /\ Thawed(q, u) /\ Updated(pic', q)
            /\ vector' = AckIrq(p) /\ acked' = AckIrq(p)
            /\ nest' = Nested(pic')
<1>1. pic \in Controllers BY DEF TypeOK, Controllers
<1> DEFINE p == IF ~ pic_slave_on(pic.m) THEN pic
                ELSE IF pic.s.int_pending THEN FromSlave
                ELSE [pic EXCEPT !.s.int_pending = TRUE, !.s.interrupt = Request(L - 1)]
           u == AckFirst(p)
           slave == pic_slave_on(pic.m) /\ pic.s.int_pending
           spurious == pic_slave_on(pic.m) /\ ~ pic.s.int_pending
<1>2. /\ pic' = AckSecond(u) /\ vector' = AckIrq(p) /\ acked' = AckIrq(p)
      /\ nest' = Nested(pic')
  BY DEF picinterrupt
<1>3. p \in Controllers /\ Asked(p, slave, spurious)
  <2>1. CASE ~ pic_slave_on(pic.m)
    <3>1. p = pic /\ slave = FALSE /\ spurious = FALSE BY <2>1
    <3> HIDE DEF p, slave, spurious
    <3> QED BY <1>1, <3>1, AsIsAsks
  <2>2. CASE pic_slave_on(pic.m) /\ pic.s.int_pending
    <3>1. p = FromSlave /\ slave = TRUE /\ spurious = FALSE BY <2>2
    <3> HIDE DEF p, slave, spurious
    <3> QED BY <1>1, <3>1, FromSlaveAsks
  <2>3. CASE pic_slave_on(pic.m) /\ ~ pic.s.int_pending
    <3>1. /\ p = [pic EXCEPT !.s.int_pending = TRUE, !.s.interrupt = Request(L - 1)]
          /\ slave = FALSE /\ spurious = TRUE
      BY <2>3
    <3> HIDE DEF p, slave, spurious
    <3> QED BY <1>1, <3>1, SpuriousAsks
  <2> QED BY <2>1, <2>2, <2>3
<1> HIDE DEF p
<1>4. FirstAcked(u, p) BY <1>3, AckFirstAcks
<1>5. u \in Controllers /\ u.m.interrupt.frozen BY <1>4 DEF FirstAcked
<1> HIDE DEF u
<1>6. PICK q \in Controllers : Thawed(q, u) /\ Updated(AckSecond(u), q)
  BY <1>5, AckSecondThaws
<1> QED BY <1>2, <1>3, <1>4, <1>5, <1>6

LEMMA PicIrqAckDoes ==
  ASSUME TypeOK, pic_irq_ack
  PROVE  \E p \in Controllers :
            /\ Asked(p, pic.m.int_pending /\ pic_slave_on(pic.m), FALSE)
            /\ FirstAcked(pic', p) /\ acked' = AckIrq(p) /\ nest' = Nested(pic')
<1>1. pic \in Controllers BY DEF TypeOK, Controllers
<1> DEFINE slave == pic.m.int_pending /\ pic_slave_on(pic.m)
           p == IF slave THEN FromSlave ELSE pic
<1>2. pic' = AckFirst(p) /\ acked' = AckIrq(p) /\ nest' = Nested(pic') BY DEF pic_irq_ack
<1>3. p \in Controllers /\ Asked(p, slave, FALSE)
  <2>1. CASE slave
    <3>1. p = FromSlave /\ slave = TRUE BY <2>1
    <3> HIDE DEF p, slave
    <3> QED BY <1>1, <3>1, FromSlaveAsks
  <2>2. CASE ~ slave
    <3>1. p = pic /\ slave = FALSE BY <2>2
    <3> HIDE DEF p, slave
    <3> QED BY <1>1, <3>1, AsIsAsks
  <2> QED BY <2>1, <2>2
<1> HIDE DEF p
<1>4. FirstAcked(pic', p) BY <1>2, <1>3, AckFirstAcks
<1> QED BY <1>2, <1>3, <1>4

LEMMA IrqAckSecondDoes ==
  ASSUME TypeOK, IrqAckSecond, pic.m.interrupt.frozen
  PROVE  \E q \in Controllers : Thawed(q, pic) /\ Updated(pic', q)
<1>1. pic \in Controllers BY DEF TypeOK, Controllers
<1>2. pic' = AckSecond(pic) BY DEF IrqAckSecond
<1> QED BY <1>1, <1>2, AckSecondThaws

-----------------------------------------------------------------------------
(* Who is where while an 808x acknowledges. *)
Acking ==
    /\ Is286 => cpu = "run"
    /\ pic.m.ack_bytes = 1 =>
          cpu = "ack" /\ pic.m.interrupt.frozen /\ acked = AckIrq(pic)
    /\ pic.m.interrupt.slave => pic.m.ack_bytes = 1
    /\ pic.m.icw3 \in {{}, {Cascade}}
    /\ cpu = "ack" /\ pic.m.ack_bytes = 0 => ~ pic.m.interrupt.frozen

Undisturbed(q) ==
    /\ q.m.interrupt = pic.m.interrupt /\ q.s.interrupt = pic.s.interrupt
    /\ q.m.ack_bytes = pic.m.ack_bytes /\ q.m.icw3 = pic.m.icw3

LEMMA CalmStay ==
  ASSUME TypeOK, Acking, Undisturbed(pic'), UNCHANGED <<machine, cpu, acked>>
  PROVE  Acking'
BY DEF Acking, Undisturbed, AckIrq, Is286

LEMMA CalmUpdate ==
  ASSUME TypeOK, Acking, NEW q \in Controllers, Undisturbed(q), Updated(pic', q),
         UNCHANGED <<machine, cpu, acked>>
  PROVE  Acking'
<1>1. CASE pic.m.interrupt.frozen
  <2>1. pic' = q BY <1>1 DEF Undisturbed, Updated
  <2> QED BY <2>1, CalmStay
<1>2. CASE ~ pic.m.interrupt.frozen
  <2>1. Fresh(pic'.m) /\ Kept(pic'.m, q.m) BY <1>2 DEF Undisturbed, Updated
  <2>2. /\ ~ pic'.m.interrupt.slave /\ ~ pic'.m.interrupt.frozen
        /\ pic'.m.ack_bytes = pic.m.ack_bytes /\ pic'.m.icw3 = pic.m.icw3
    BY <2>1 DEF Fresh, Kept, Rest, Programmed, Undisturbed
  <2>3. pic.m.ack_bytes = 0 BY <1>2 DEF Acking, TypeOK, Chip
  <2> QED BY <2>2, <2>3 DEF Acking, Is286
<1> QED BY <1>1, <1>2

LEMMA MovedCalm ==
  ASSUME NEW b \in Controllers, NEW q \in Controllers, NEW t \in Inputs, NEW set \in BOOLEAN,
         Moved(q, b, t, set)
  PROVE  /\ q.m.interrupt = b.m.interrupt /\ q.s.interrupt = b.s.interrupt
         /\ Rest(q.m, b.m) /\ Rest(q.s, b.s)
         /\ q.m.int_pending = b.m.int_pending /\ q.s.int_pending = b.s.int_pending
<1>1. t[1] \in {"m", "s"} BY DEF Inputs
<1>2. Rest(q[t[1]], b[t[1]]) /\ SameRequest(q[t[1]], b[t[1]]) BY DEF Moved
<1>3. \A e \in {"m", "s"} : e # t[1] => q[e] = b[e] BY DEF Moved, Replaced
<1>4. CASE t[1] = "m"
  <2>1. q.s = b.s BY <1>3, <1>4
  <2> QED BY <1>2, <1>4, <2>1 DEF Rest, Programmed, SameRequest
<1>5. CASE t[1] = "s"
  <2>1. q.m = b.m BY <1>3, <1>5
  <2> QED BY <1>2, <1>5, <2>1 DEF Rest, Programmed, SameRequest
<1> QED BY <1>1, <1>4, <1>5

LEMMA CountedCalm ==
  ASSUME NEW t \in Inputs, NEW b \in Controllers, NEW n, Counted(b, pic, t, n)
  PROVE  Undisturbed(b)
<1>1. t[1] \in {"m", "s"} BY DEF Inputs
<1>2. /\ Programmed(b[t[1]], pic[t[1]]) /\ SameRequest(b[t[1]], pic[t[1]])
      /\ b[t[1]].ack_bytes = pic[t[1]].ack_bytes
  BY DEF Counted
<1>3. \A e \in {"m", "s"} : e # t[1] => b[e] = pic[e] BY DEF Counted, Replaced
<1>4. CASE t[1] = "m"
  <2>1. b.s = pic.s BY <1>3, <1>4
  <2> QED BY <1>2, <1>4, <2>1 DEF Programmed, SameRequest, Undisturbed
<1>5. CASE t[1] = "s"
  <2>1. b.m = pic.m BY <1>3, <1>5
  <2> QED BY <1>2, <1>5, <2>1 DEF Programmed, SameRequest, Undisturbed
<1> QED BY <1>1, <1>4, <1>5

LEMMA DeviceAcking ==
  ASSUME TypeOK, Acking, Device \/ \E t \in Latches : pic_latch_read(t)
  PROVE  TypeOK' /\ Acking'
<1>1. ASSUME NEW e \in Edge, NEW set \in BOOLEAN, picint(e, set)
      PROVE  TypeOK' /\ Acking'
  <2> DEFINE t == Target(Irq[e])
  <2>1. t \in Inputs /\ \E q \in Controllers : Moved(q, pic, t, set) /\ Updated(pic', q)
    BY <1>1, PicintDoes
  <2>2. /\ UNCHANGED <<machine, irq_state, cpu, vector, ready, acked, nest, strayed>>
        /\ latched' = Latched(t, set)
    BY <1>1 DEF picint, history
  <2> HIDE DEF t
  <2>3. PICK q \in Controllers : Moved(q, pic, t, set) /\ Updated(pic', q) BY <2>1
  <2>4. pic \in Controllers BY DEF TypeOK, Controllers
  <2>5. Undisturbed(q) BY <2>1, <2>3, <2>4, MovedCalm DEF Undisturbed, Rest, Programmed
  <2>6. Acking' BY <2>2, <2>3, <2>5, CalmUpdate
  <2>7. pic' \in Controllers BY <2>3 DEF Updated
  <2>8. latched' \subseteq Latches BY <2>2 DEF Latched, TypeOK
  <2>9. TypeOK' BY <2>2, <2>7, <2>8 DEF TypeOK, Controllers, Level, Latches, Chips, AT
  <2> QED BY <2>6, <2>9
<1>2. ASSUME NEW e \in Level, NEW set \in BOOLEAN, picintlevel(e, set)
      PROVE  TypeOK' /\ Acking'
  <2> DEFINE t == Target(Irq[e])
             changed == (e \in irq_state) # set
  <2>1. PICK b \in Controllers :
          /\ t \in Inputs
          /\ IF changed /\ Reached(t) THEN Counted(b, pic, t, IF set THEN 1 ELSE -1)
                                      ELSE b = pic
          /\ IF Reached(t) /\ PassedOn(b[t[1]], t[2], changed, set)
             THEN \E q \in Controllers : Moved(q, b, t, set) /\ Updated(pic', q)
             ELSE pic' = b
    BY <1>2, PicintlevelDoes
  <2>2. /\ UNCHANGED <<machine, cpu, vector, ready, acked, nest>>
        /\ latched' \in {latched, Latched(t, set)}
        /\ irq_state' \in {irq_state \cup {e}, irq_state \ {e}}
        /\ strayed' \in {strayed, strayed \cup {Home(Irq[e]), t}}
    BY <1>2 DEF picintlevel, history, Stray
  <2>7. strayed' \subseteq Inputs
    <3>1. Irq[e] \in Inputs BY Configured, PicAssumption DEF TypeOK, Inputs
    <3>2. 1 \in Line BY LinesAssumption DEF Line
    <3>3. Home(Irq[e]) \in Inputs BY <3>1, <3>2 DEF Home, Inputs
    <3>4. strayed \subseteq Inputs BY DEF TypeOK, Inputs
    <3> QED BY <2>1, <2>2, <3>3, <3>4
  <2> HIDE DEF t, changed
  <2>3. Undisturbed(b) BY <2>1, CountedCalm DEF Undisturbed
  <2>4. pic' \in Controllers /\ Acking'
    <3>1. CASE Reached(t) /\ PassedOn(b[t[1]], t[2], changed, set)
      <4>1. PICK q \in Controllers : Moved(q, b, t, set) /\ Updated(pic', q) BY <2>1, <3>1
      <4>2. Undisturbed(q) BY <2>1, <2>3, <4>1, MovedCalm DEF Undisturbed, Rest, Programmed
      <4> QED BY <2>2, <4>1, <4>2, CalmUpdate DEF Updated
    <3>2. CASE ~ (Reached(t) /\ PassedOn(b[t[1]], t[2], changed, set))
      <4>1. pic' = b BY <2>1, <3>2
      <4> QED BY <2>2, <2>3, <4>1, CalmStay
    <3> QED BY <3>1, <3>2
  <2>5. latched' \subseteq Latches BY <2>2 DEF Latched, TypeOK
  <2>6. TypeOK'
    BY <2>2, <2>4, <2>5, <2>7 DEF TypeOK, Controllers, Level, Latches, Chips, AT, Inputs
  <2> QED BY <2>4, <2>6
<1>3. ASSUME NEW t \in Latches, pic_latch_read(t)
      PROVE  TypeOK' /\ Acking'
  <2>1. PICK q \in Controllers : t \in Inputs /\ Moved(q, pic, t, FALSE) /\ Updated(pic', q)
    BY <1>3, LatchReadDoes
  <2>2. /\ UNCHANGED <<machine, irq_state, cpu, vector, ready, acked, nest, strayed>>
        /\ latched' = Latched(t, FALSE)
    BY <1>3 DEF pic_latch_read, history
  <2>4. pic \in Controllers BY DEF TypeOK, Controllers
  <2>5. Undisturbed(q) BY <2>1, <2>4, MovedCalm DEF Undisturbed, Rest, Programmed
  <2>6. Acking' BY <2>1, <2>2, <2>5, CalmUpdate
  <2>7. pic' \in Controllers BY <2>1 DEF Updated
  <2>8. latched' \subseteq Latches BY <2>2 DEF Latched, TypeOK
  <2>9. TypeOK' BY <2>2, <2>7, <2>8 DEF TypeOK, Controllers, Level, Latches, Chips, AT
  <2> QED BY <2>6, <2>9
<1> QED BY <1>1, <1>2, <1>3 DEF Device

(* Between instructions the master acknowledges nothing. *)
Resting(q) ==
    q.m.ack_bytes = 0 /\ ~ q.m.interrupt.slave /\ q.m.icw3 \in {{}, {Cascade}}

LEMMA RestingUpdate ==
  ASSUME NEW q \in Controllers, NEW u, Resting(q), Updated(u, q)
  PROVE  Resting(u)
<1>1. CASE q.m.interrupt.frozen BY <1>1 DEF Updated
<1>2. CASE ~ q.m.interrupt.frozen
  BY <1>2 DEF Updated, Fresh, Kept, Rest, Programmed, Resting
<1> QED BY <1>1, <1>2

LEMMA RestingOther ==
  ASSUME NEW q \in Controllers, NEW d \in {"m", "s"}, Replaced(q, pic, d), Resting(pic),
         d = "m" => Resting(q)
  PROVE  Resting(q)
BY DEF Replaced, Resting

LEMMA GuestAcking ==
  ASSUME TypeOK, Acking, NEW d \in Chips, Guest(d)
  PROVE  TypeOK' /\ Acking'
<1>1. pic \in Controllers BY DEF TypeOK, Controllers
<1>2. d \in {"m", "s"} BY Configured DEF TypeOK
<1>3. /\ UNCHANGED <<machine, irq_state, latched, cpu, vector, acked, strayed>>
      /\ ready' \in {ready, ready \ {d}, ready \cup {d}}
      /\ cpu = "run"
  BY DEF Guest, WriteIcw1, WriteIcw, WriteOcw1, WriteOcw2, WriteOcw3, ReadPoll, history
<1>4. Resting(pic) BY <1>1, <1>3 DEF Acking, Resting, Controllers, Chip
<1>5. pic' \in Controllers /\ Resting(pic')
  <2>1. ASSUME NEW word \in Config[machine].icw1s, WriteIcw1(d, word)
        PROVE  pic' \in Controllers /\ Resting(pic')
    <3>1. PICK q \in Controllers : Begun(q, d, word) /\ Updated(pic', q)
      BY <2>1, WriteIcw1Does
    <3>2. d = "m" => Resting(q) BY <3>1, RequestFields DEF Begun, Begins, Resting, NoIcw3
    <3>3. Resting(q) BY <1>2, <1>4, <3>1, <3>2, RestingOther DEF Begun
    <3> QED BY <3>1, <3>3, RestingUpdate DEF Updated
  <2>2. CASE WriteIcw(d)
    <3>1. Continued(d) BY <2>2, WriteIcwDoes
    <3>2. pic' \in Controllers /\ Replaced(pic', pic, d) BY <3>1 DEF Continued, Replaced
    <3>3. d = "m" => Resting(pic')
      BY <1>4, <3>1 DEF Continued, SameRequest, Resting, Icw3
    <3> QED BY <1>2, <1>4, <3>2, <3>3, RestingOther
  <2>3. ASSUME NEW mask \in Config[machine].masks, WriteOcw1(d, mask)
        PROVE  pic' \in Controllers /\ Resting(pic')
    <3>1. PICK q \in Controllers : /\ MaskIs(q, d, mask)
                                   /\ IF Is286 THEN Updated(pic', q) ELSE pic' = q
      BY <2>3, WriteOcw1Does
    <3>2. d = "m" => Resting(q)
      BY <1>4, <3>1 DEF MaskIs, Resting, Rest, Programmed, SameRequest
    <3>3. Resting(q) BY <1>2, <1>4, <3>1, <3>2, RestingOther DEF MaskIs
    <3> QED BY <3>1, <3>3, RestingUpdate DEF Updated
  <2>4. ASSUME NEW word \in Config[machine].commands, WriteOcw2(d, word)
        PROVE  pic' \in Controllers /\ Resting(pic')
    <3> DEFINE i == CommandLine(d, word)
    <3>1. IF word.sl \/ word.eoi
          THEN IF i = NoLine THEN pic' = pic
               ELSE \E q \in Controllers : /\ EndedAt(q, pic, d, i, word.eoi, word.rotate)
                                           /\ Updated(pic', q)
          ELSE RotationIs(d, word.rotate)
      BY <2>4, WriteOcw2Does
    <3> HIDE DEF i
    <3>2. CASE pic' = pic BY <1>1, <1>4, <3>2
    <3>3. ASSUME NEW q \in Controllers, EndedAt(q, pic, d, i, word.eoi, word.rotate),
                 Updated(pic', q)
          PROVE  pic' \in Controllers /\ Resting(pic')
      <4>1. d = "m" => Resting(q)
        BY <1>4, <3>3 DEF EndedAt, EndedTo, Resting, Rest, Programmed, SameRequest
      <4>2. Resting(q) BY <1>2, <1>4, <3>3, <4>1, RestingOther DEF EndedAt
      <4> QED BY <3>3, <4>2, RestingUpdate DEF Updated
    <3>4. CASE RotationIs(d, word.rotate)
      <4>1. pic' \in Controllers /\ Replaced(pic', pic, d) BY <3>4 DEF RotationIs, Replaced
      <4>2. d = "m" => Resting(pic')
        BY <1>4, <3>4 DEF RotationIs, Resting, Programmed, SameRequest
      <4> QED BY <1>2, <1>4, <4>1, <4>2, RestingOther
    <3> QED BY <3>1, <3>2, <3>3, <3>4
  <2>5. ASSUME NEW o \in Config[machine].ocw3s, WriteOcw3(d, o[2])
        PROVE  pic' \in Controllers /\ Resting(pic')
    <3>1. Commanded(d, o[2]) BY <2>5, WriteOcw3Does
    <3>2. pic' \in Controllers /\ Replaced(pic', pic, d) BY <3>1 DEF Commanded, Replaced
    <3>3. d = "m" => Resting(pic') BY <1>4, <3>1 DEF Commanded, Resting, Programmed
    <3> QED BY <1>2, <1>4, <3>2, <3>3, RestingOther
  <2>6. CASE ReadPoll(d)
    <3>1. PICK q \in Controllers : /\ Polled(q, d)
                                   /\ IF pic[d].int_pending THEN Updated(pic', q) ELSE pic' = q
      BY <2>6, ReadPollDoes
    <3>2. d = "m" => Resting(q) BY <1>4, <3>1 DEF Polled, Resting, Programmed
    <3>3. Resting(q) BY <1>2, <1>4, <3>1, <3>2, RestingOther DEF Polled
    <3> QED BY <3>1, <3>3, RestingUpdate DEF Updated
  <2> QED BY <2>1, <2>2, <2>3, <2>4, <2>5, <2>6 DEF Guest
<1>6. TypeOK' BY <1>3, <1>5 DEF TypeOK, Controllers, Level, Latches, Chips, AT
<1>7. Acking' BY <1>3, <1>5 DEF Acking, Resting, Is286
<1> QED BY <1>6, <1>7

LEMMA CpuAcking ==
  ASSUME TypeOK, Acking, picinterrupt \/ check_interrupts \/ pic_irq_ack \/ IrqAckSecond
  PROVE  TypeOK' /\ Acking'
<1>1. pic \in Controllers BY DEF TypeOK, Controllers
<1>2. CASE picinterrupt
  <2>1. PICK p \in Controllers, u \in Controllers, q \in Controllers :
            /\ Asked(p, pic_slave_on(pic.m) /\ pic.s.int_pending,
                        pic_slave_on(pic.m) /\ ~ pic.s.int_pending)
            /\ FirstAcked(u, p) /\ Thawed(q, u) /\ Updated(pic', q)
    BY <1>2, PicinterruptDoes
  <2>2. UNCHANGED <<machine, irq_state, latched, cpu, ready, strayed>> BY <1>2 DEF picinterrupt
  <2>3. cpu = "run" BY <1>2 DEF picinterrupt, Acking
  <2>4. q.m.icw3 = pic.m.icw3 /\ q.m.ack_bytes = 0 /\ ~ q.m.interrupt.slave
    BY <2>1, RequestFields DEF Asked, FirstAcked, Thawed, Rest, Programmed
  <2>5. Resting(q) BY <2>4 DEF Resting, Acking
  <2>6. pic' \in Controllers /\ Resting(pic') BY <2>1, <2>5, RestingUpdate DEF Updated
  <2>7. TypeOK' BY <2>2, <2>6 DEF TypeOK, Controllers, Level, Latches, Chips, AT
  <2>8. Acking' BY <2>2, <2>3, <2>6 DEF Acking, Resting, Is286
  <2> QED BY <2>7, <2>8
<1>3. CASE check_interrupts
  <2>1. /\ UNCHANGED <<machine, pic, irq_state, latched, ready, strayed>> /\ cpu' = "ack"
        /\ ~ Is286 /\ cpu = "run" /\ ~ pic.m.interrupt.frozen
    BY <1>3 DEF check_interrupts, history, InterruptsOn
  <2>2. TypeOK' BY <2>1 DEF TypeOK, Level, Latches, Chips, AT
  <2>3. pic.m.ack_bytes = 0 BY <2>1 DEF Acking, TypeOK, Chip
  <2>4. Acking' BY <2>1, <2>3 DEF Acking, Is286
  <2> QED BY <2>2, <2>4
<1>4. CASE pic_irq_ack
  <2>1. PICK p \in Controllers :
            /\ Asked(p, pic.m.int_pending /\ pic_slave_on(pic.m), FALSE)
            /\ FirstAcked(pic', p) /\ acked' = AckIrq(p)
    BY <1>4, PicIrqAckDoes
  <2>2. UNCHANGED <<machine, irq_state, latched, cpu, ready, strayed>> /\ cpu = "ack"
    BY <1>4 DEF pic_irq_ack
  <2>3. pic' \in Controllers BY <2>1 DEF FirstAcked
  <2>4. TypeOK' BY <2>2, <2>3 DEF TypeOK, Controllers, Level, Latches, Chips, AT
  <2>5. pic'.m.ack_bytes = 1 /\ pic'.m.interrupt.frozen /\ pic'.m.icw3 = pic.m.icw3
    BY <2>1 DEF Asked, FirstAcked, Rest, Programmed
  <2>6. /\ pic'.m.interrupt.slave = p.m.interrupt.slave
        /\ pic'.m.interrupt.line = p.m.interrupt.line
        /\ p.m.interrupt.slave => pic'.s.interrupt.line = p.s.interrupt.line
    BY <2>1 DEF FirstAcked
  <2>7. p.m.interrupt.slave \in BOOLEAN BY DEF Controllers, Chip
  <2>8. acked' = AckIrq(pic') BY <2>1, <2>6, <2>7 DEF AckIrq
  <2>9. Acking' BY <2>2, <2>5, <2>8 DEF Acking, Is286, AckIrq
  <2> QED BY <2>4, <2>9
<1>5. CASE IrqAckSecond
  <2>1. /\ UNCHANGED <<machine, irq_state, latched, ready, strayed>> /\ cpu' = "run"
        /\ pic.m.ack_bytes = 1
    BY <1>5 DEF IrqAckSecond
  <2>2. pic.m.interrupt.frozen BY <2>1 DEF Acking
  <2>3. PICK q \in Controllers : Thawed(q, pic) /\ Updated(pic', q)
    BY <1>5, <2>2, IrqAckSecondDoes
  <2>4. q.m.icw3 = pic.m.icw3 /\ q.m.ack_bytes = 0 /\ ~ q.m.interrupt.slave
    BY <2>3, RequestFields DEF Thawed, Programmed
  <2>5. Resting(q) BY <2>4 DEF Resting, Acking
  <2>6. pic' \in Controllers /\ Resting(pic') BY <2>3, <2>5, RestingUpdate DEF Updated
  <2>7. TypeOK' BY <2>1, <2>6 DEF TypeOK, Controllers, Level, Latches, Chips, AT
  <2>8. Acking' BY <2>1, <2>6 DEF Acking, Resting, Is286
  <2> QED BY <2>7, <2>8
<1> QED BY <1>2, <1>3, <1>4, <1>5

LEMMA AckingInit == Init => TypeOK /\ Acking
<1> SUFFICES ASSUME Init PROVE TypeOK /\ Acking OBVIOUS
<1>1. Config[machine] \in Configuration BY Configured DEF Init
<1>2. Config[machine].elcr \in [m : SUBSET Line, s : SUBSET Line] BY <1>1 DEF Configuration, Pair
<1> DEFINE em == Config[machine].elcr.m
           es == Config[machine].elcr.s
<1>3. em \in SUBSET Line /\ es \in SUBSET Line BY <1>2
<1>4. /\ 0 \in Line /\ [upm |-> FALSE, aeoi |-> FALSE] \in Icw4 /\ [i \in Line |-> 0] \in [Line -> 0 .. Wrap - 1]
      /\ {} \in SUBSET Line
  BY LinesAssumption, WrapAssumption DEF Line, Icw4
<1>5. Cleared({}) \in Chip(SUBSET Line) /\ Cleared(0) \in Chip(Line)
  BY <1>4, RequestFields DEF Cleared, Chip
<1>6. pic = [m |-> [Cleared({}) EXCEPT !.elcr = em], s |-> [Cleared(0) EXCEPT !.elcr = es]]
  BY DEF Init
<1> HIDE DEF em, es
<1>7. pic \in Controllers BY <1>3, <1>5, <1>6 DEF Controllers, Chip
<1>8. TypeOK BY <1>7 DEF Init, TypeOK, Controllers
<1>9. /\ pic.m.ack_bytes = 0 /\ pic.m.icw3 = {} /\ ~ pic.m.interrupt.frozen
      /\ ~ pic.m.interrupt.slave
  BY <1>6, RequestFields DEF Cleared
<1> QED BY <1>8, <1>9 DEF Acking, Init

LEMMA AckingStep == TypeOK /\ Acking /\ [Next]_vars => TypeOK' /\ Acking'
<1> SUFFICES ASSUME TypeOK, Acking, [Next]_vars PROVE TypeOK' /\ Acking' OBVIOUS
<1>1. CASE UNCHANGED vars
  BY <1>1 DEF vars, TypeOK, Acking, Is286, AckIrq, Level, Latches, Chips, AT
<1>2. CASE Next BY <1>2, DeviceAcking, GuestAcking, CpuAcking DEF Next
<1> QED BY <1>1, <1>2

(* Every variable has its type, whatever the guest programs. *)
THEOREM PicTypeCorrect == Spec => []TypeOK
<1> QED BY AckingInit, AckingStep, PTL DEF Spec

(* The vector of the second acknowledge is the line that the first put in  *)
(* service: the frozen request does not change in between.                 *)
THEOREM PicVectorIsServiced == Spec => VectorIsServiced
<1>1. TypeOK /\ Acking => (IrqAckSecond => vector' = acked)
  BY DEF Acking, IrqAckSecond
<1> QED BY <1>1, AckingInit, AckingStep, PTL DEF Spec, VectorIsServiced

-----------------------------------------------------------------------------
(* Requests. *)
LEMMA LostInUpdate ==
  ASSUME NEW q \in Controllers, NEW u, Updated(u, q), NEW d \in {"m", "s"},
         NEW i \in q[d].irr \ u[d].irr
  PROVE  d = "m" /\ i = u.s.icw3
<1>1. u.s.irr = q.s.irr /\ u.s.icw3 = q.s.icw3 BY DEF Updated, Kept, Rest, Programmed
<1>2. d = "m" BY <1>1
<1>3. i = q.s.icw3 BY <1>2 DEF Updated
<1> QED BY <1>1, <1>2, <1>3

LEMMA DeviceKeeps ==
  ASSUME TypeOK, NEW d \in Chips, NEW i \in pic[d].irr \ pic'[d].irr,
         Device \/ \E t \in Latches : pic_latch_read(t)
  PROVE  \/ \E e \in Edge : picint(e, FALSE) /\ Target(Irq[e]) = <<d, i>>
         \/ \E e \in Level : picintlevel(e, FALSE) /\ Target(Irq[e]) = <<d, i>>
         \/ pic_latch_read(<<d, i>>)
         \/ d = "m" /\ i = pic'.s.icw3
<1>1. pic \in Controllers /\ d \in {"m", "s"} BY Configured DEF TypeOK, Controllers
<1>2. ASSUME NEW b \in Controllers, NEW q \in Controllers, NEW t \in Inputs, NEW set \in BOOLEAN,
             b[d].irr = pic[d].irr, Moved(q, b, t, set), Updated(pic', q)
      PROVE  (~ set /\ t = <<d, i>>) \/ (d = "m" /\ i = pic'.s.icw3)
  <2>1. CASE i \in q[d].irr BY <1>1, <1>2, <2>1, LostInUpdate
  <2>2. CASE i \notin q[d].irr
    <3>1. t[1] = d BY <1>1, <1>2, <2>2 DEF Moved, Replaced
    <3>2. ~ set /\ i = t[2] BY <1>2, <2>2, <3>1 DEF Moved
    <3> QED BY <3>1, <3>2 DEF Inputs
  <2> QED BY <2>1, <2>2
<1>3. ASSUME NEW e \in Edge, NEW set \in BOOLEAN, picint(e, set)
      PROVE  (picint(e, FALSE) /\ Target(Irq[e]) = <<d, i>>) \/ (d = "m" /\ i = pic'.s.icw3)
  <2> DEFINE t == Target(Irq[e])
  <2>1. t \in Inputs /\ \E q \in Controllers : Moved(q, pic, t, set) /\ Updated(pic', q)
    BY <1>3, PicintDoes
  <2> HIDE DEF t
  <2>2. (~ set /\ t = <<d, i>>) \/ (d = "m" /\ i = pic'.s.icw3) BY <1>1, <1>2, <2>1
  <2>3. ~ set => set = FALSE OBVIOUS
  <2>4. ~ set => picint(e, FALSE) BY <1>3, <2>3, Zenon
  <2> QED BY <2>2, <2>4 DEF t
<1>4. ASSUME NEW e \in Level, NEW set \in BOOLEAN, picintlevel(e, set)
      PROVE  (picintlevel(e, FALSE) /\ Target(Irq[e]) = <<d, i>>) \/ (d = "m" /\ i = pic'.s.icw3)
  <2> DEFINE t == Target(Irq[e])
             changed == (e \in irq_state) # set
  <2>1. PICK b \in Controllers :
          /\ t \in Inputs
          /\ IF changed /\ Reached(t) THEN Counted(b, pic, t, IF set THEN 1 ELSE -1)
                                      ELSE b = pic
          /\ IF Reached(t) /\ PassedOn(b[t[1]], t[2], changed, set)
             THEN \E q \in Controllers : Moved(q, b, t, set) /\ Updated(pic', q)
             ELSE pic' = b
    BY <1>4, PicintlevelDoes
  <2> HIDE DEF t, changed
  <2>2. b[d].irr = pic[d].irr
    <3>1. CASE b = pic BY <3>1
    <3>2. CASE Counted(b, pic, t, IF set THEN 1 ELSE -1) /\ t[1] = d
      BY <3>2 DEF Counted, SameRegisters
    <3>3. CASE Counted(b, pic, t, IF set THEN 1 ELSE -1) /\ t[1] # d
      BY <1>1, <3>3 DEF Counted, Replaced
    <3> QED BY <2>1, <3>1, <3>2, <3>3
  <2>3. pic' # b BY <2>2
  <2>4. \E q \in Controllers : Moved(q, b, t, set) /\ Updated(pic', q) BY <2>1, <2>3
  <2>5. (~ set /\ t = <<d, i>>) \/ (d = "m" /\ i = pic'.s.icw3) BY <1>2, <2>1, <2>2, <2>4
  <2>6. ~ set => set = FALSE OBVIOUS
  <2>7. ~ set => picintlevel(e, FALSE) BY <1>4, <2>6, Zenon
  <2> QED BY <2>5, <2>7 DEF t
<1>5. ASSUME NEW t \in Latches, pic_latch_read(t)
      PROVE  pic_latch_read(<<d, i>>) \/ (d = "m" /\ i = pic'.s.icw3)
  <2>1. PICK q \in Controllers : t \in Inputs /\ Moved(q, pic, t, FALSE) /\ Updated(pic', q)
    BY <1>5, LatchReadDoes
  <2>2. t = <<d, i>> \/ (d = "m" /\ i = pic'.s.icw3) BY <1>1, <1>2, <2>1
  <2> QED BY <1>5, <2>2
<1> QED BY <1>3, <1>4, <1>5 DEF Device

LEMMA GuestKeeps ==
  ASSUME TypeOK, NEW d \in Chips, NEW i \in pic[d].irr \ pic'[d].irr,
         NEW e \in Chips, Guest(e)
  PROVE  \/ ReadPoll(d) /\ i = pic[d].interrupt.line
         \/ \E word \in Config[machine].icw1s : WriteIcw1(d, word)
         \/ d = "m" /\ i = pic'.s.icw3
<1>1. pic \in Controllers /\ d \in {"m", "s"} /\ e \in {"m", "s"}
  BY Configured DEF TypeOK, Controllers
<1>2. ASSUME NEW word \in Config[machine].icw1s, WriteIcw1(e, word)
      PROVE  WriteIcw1(d, word) \/ (d = "m" /\ i = pic'.s.icw3)
  <2>1. PICK q \in Controllers : Begun(q, e, word) /\ Updated(pic', q) BY <1>2, WriteIcw1Does
  <2>2. CASE e = d BY <1>2, <2>2
  <2>3. CASE e # d
    <3>1. q[d] = pic[d] BY <1>1, <2>1, <2>3 DEF Begun, Replaced
    <3> QED BY <1>1, <2>1, <3>1, LostInUpdate
  <2> QED BY <2>2, <2>3
<1>3. CASE WriteIcw(e)
  <2>1. Continued(e) BY <1>3, WriteIcwDoes
  <2>2. pic'[d].irr = pic[d].irr
    BY <1>1, <2>1 DEF Continued, Replaced, SameRegisters
  <2> QED BY <2>2
<1>4. ASSUME NEW mask \in Config[machine].masks, WriteOcw1(e, mask)
      PROVE  d = "m" /\ i = pic'.s.icw3
  <2>1. PICK q \in Controllers : /\ MaskIs(q, e, mask)
                                 /\ IF Is286 THEN Updated(pic', q) ELSE pic' = q
    BY <1>4, WriteOcw1Does
  <2>2. q[d].irr = pic[d].irr BY <1>1, <2>1 DEF MaskIs, Replaced
  <2> QED BY <1>1, <2>1, <2>2, LostInUpdate
<1>5. ASSUME NEW word \in Config[machine].commands, WriteOcw2(e, word)
      PROVE  d = "m" /\ i = pic'.s.icw3
  <2> DEFINE j == CommandLine(e, word)
  <2>1. IF word.sl \/ word.eoi
        THEN IF j = NoLine THEN pic' = pic
             ELSE \E q \in Controllers : /\ EndedAt(q, pic, e, j, word.eoi, word.rotate)
                                         /\ Updated(pic', q)
        ELSE RotationIs(e, word.rotate)
    BY <1>5, WriteOcw2Does
  <2> HIDE DEF j
  <2>2. ASSUME NEW q \in Controllers, EndedAt(q, pic, e, j, word.eoi, word.rotate),
               Updated(pic', q)
        PROVE  d = "m" /\ i = pic'.s.icw3
    <3>1. q[d].irr = pic[d].irr BY <1>1, <2>2 DEF EndedAt, EndedTo, Replaced
    <3> QED BY <1>1, <2>2, <3>1, LostInUpdate
  <2>3. CASE RotationIs(e, word.rotate)
    <3>1. pic'[d].irr = pic[d].irr BY <1>1, <2>3 DEF RotationIs, Replaced, SameRegisters
    <3> QED BY <3>1
  <2> QED BY <2>1, <2>2, <2>3
<1>6. ASSUME NEW o \in Config[machine].ocw3s, WriteOcw3(e, o[2])
      PROVE  FALSE
  <2>1. Commanded(e, o[2]) BY <1>6, WriteOcw3Does
  <2>2. pic'[d].irr = pic[d].irr BY <1>1, <2>1 DEF Commanded, Replaced, SameRegisters
  <2> QED BY <2>2
<1>7. CASE ReadPoll(e)
  <2>1. PICK q \in Controllers : /\ Polled(q, e)
                                 /\ IF pic[e].int_pending THEN Updated(pic', q) ELSE pic' = q
    BY <1>7, ReadPollDoes
  <2>2. CASE i \in q[d].irr BY <1>1, <2>1, <2>2, LostInUpdate
  <2>3. CASE i \notin q[d].irr
    <3>1. e = d BY <1>1, <2>1, <2>3 DEF Polled, Replaced
    <3>2. i = pic[d].interrupt.line
      BY <2>1, <2>3, <3>1 DEF Polled, Serviced, SameRegisters
    <3> QED BY <1>7, <3>1, <3>2
  <2> QED BY <2>2, <2>3
<1> QED BY <1>2, <1>3, <1>4, <1>5, <1>6, <1>7 DEF Guest

LEMMA FirstAckKeeps ==
  ASSUME NEW p \in Controllers, NEW u \in Controllers, NEW slave, NEW spurious,
         TypeOK, Acking, pic.m.ack_bytes = 0,
         Asked(p, slave, spurious), FirstAcked(u, p), slave => pic_slave_on(pic.m),
         NEW d \in {"m", "s"}, NEW i \in pic[d].irr \ u[d].irr
  PROVE  AckIrq(p) = <<d, i>> \/ (AckIrq(p)[1] = "s" /\ <<d, i>> = <<"m", Cascade>>)
<1>1. p[d].irr = pic[d].irr BY DEF Asked, SameRegisters
<1>2. ~ pic.m.interrupt.slave BY DEF Acking
<1>3. p.m.interrupt.slave \in BOOLEAN /\ (p.m.interrupt.slave => slave)
  BY <1>2 DEF Asked, Controllers, Chip
<1>4. CASE d = "m"
  <2>1. i = p.m.interrupt.line BY <1>1, <1>4 DEF FirstAcked, Serviced
  <2>2. CASE p.m.interrupt.slave
    <3>1. pic_slave_on(pic.m) BY <1>3, <2>2
    <3>2. pic.m.interrupt.line = Cascade BY <3>1 DEF Acking, pic_slave_on
    <3>3. i = Cascade BY <2>1, <3>2 DEF Asked
    <3> QED BY <1>4, <2>2, <3>3 DEF AckIrq
  <2>3. CASE ~ p.m.interrupt.slave BY <1>4, <2>1, <2>3 DEF AckIrq
  <2> QED BY <2>2, <2>3
<1>5. CASE d = "s"
  <2>1. p.m.interrupt.slave BY <1>1, <1>5 DEF FirstAcked
  <2>2. i = p.s.interrupt.line BY <1>1, <1>5, <2>1 DEF FirstAcked, Serviced
  <2> QED BY <1>5, <2>1, <2>2 DEF AckIrq
<1> QED BY <1>4, <1>5

LEMMA ThawKeeps ==
  ASSUME NEW p \in Controllers, NEW q \in Controllers, Thawed(q, p), NEW d \in {"m", "s"}
  PROVE  q[d].irr = p[d].irr
BY DEF Thawed, RegistersEnded

LEMMA CpuKeeps ==
  ASSUME TypeOK, Acking, NEW d \in Chips, NEW i \in pic[d].irr \ pic'[d].irr,
         picinterrupt \/ check_interrupts \/ pic_irq_ack \/ IrqAckSecond
  PROVE  Taken(d, i) \/ (d = "m" /\ i = pic'.s.icw3)
<1>1. pic \in Controllers /\ d \in {"m", "s"} BY Configured DEF TypeOK, Controllers
<1>2. CASE picinterrupt
  <2> DEFINE slave == pic_slave_on(pic.m) /\ pic.s.int_pending
             spurious == pic_slave_on(pic.m) /\ ~ pic.s.int_pending
  <2>1. PICK p \in Controllers, u \in Controllers, q \in Controllers :
            /\ Asked(p, slave, spurious) /\ FirstAcked(u, p) /\ Thawed(q, u) /\ Updated(pic', q)
            /\ acked' = AckIrq(p)
    BY <1>2, PicinterruptDoes
  <2>2. pic.m.ack_bytes = 0 BY <1>1, <1>2 DEF picinterrupt, Acking, Controllers, Chip
  <2>3. slave => pic_slave_on(pic.m) OBVIOUS
  <2> HIDE DEF slave, spurious
  <2>4. CASE i \notin u[d].irr
    <3>1. AckIrq(p) = <<d, i>> \/ (AckIrq(p)[1] = "s" /\ <<d, i>> = <<"m", Cascade>>)
      BY <1>1, <2>1, <2>2, <2>3, <2>4, FirstAckKeeps
    <3> QED BY <1>2, <2>1, <3>1 DEF Taken
  <2>5. CASE i \in u[d].irr
    <3>1. i \in q[d].irr BY <1>1, <2>1, <2>5, ThawKeeps
    <3> QED BY <1>1, <2>1, <3>1, LostInUpdate
  <2> QED BY <2>4, <2>5
<1>3. CASE check_interrupts BY <1>3 DEF check_interrupts
<1>4. CASE pic_irq_ack
  <2> DEFINE slave == pic.m.int_pending /\ pic_slave_on(pic.m)
  <2>1. PICK p \in Controllers : Asked(p, slave, FALSE) /\ FirstAcked(pic', p) /\ acked' = AckIrq(p)
    BY <1>4, PicIrqAckDoes
  <2>2. pic.m.ack_bytes = 0 BY <1>4 DEF pic_irq_ack
  <2>3. slave => pic_slave_on(pic.m) OBVIOUS
  <2>4. pic' \in Controllers BY <2>1 DEF FirstAcked
  <2> HIDE DEF slave
  <2>5. AckIrq(p) = <<d, i>> \/ (AckIrq(p)[1] = "s" /\ <<d, i>> = <<"m", Cascade>>)
    BY <1>1, <2>1, <2>2, <2>3, <2>4, FirstAckKeeps
  <2> QED BY <1>4, <2>1, <2>5 DEF Taken
<1>5. CASE IrqAckSecond
  <2>1. pic.m.interrupt.frozen BY <1>5 DEF Acking, IrqAckSecond
  <2>2. PICK q \in Controllers : Thawed(q, pic) /\ Updated(pic', q)
    BY <1>5, <2>1, IrqAckSecondDoes
  <2>3. i \in q[d].irr BY <1>1, <2>2, ThawKeeps
  <2> QED BY <1>1, <2>2, <2>3, LostInUpdate
<1> QED BY <1>2, <1>3, <1>4, <1>5

(* A request is lost only when it is acknowledged, polled, lowered, or its *)
(* controller initialised, whatever the guest programs.                    *)
THEOREM PicRequestKept == Spec => RequestKept
<1> DEFINE Lost(d, i) ==
          \/ Taken(d, i)
          \/ ReadPoll(d) /\ i = pic[d].interrupt.line
          \/ \E e \in Edge : picint(e, FALSE) /\ Target(Irq[e]) = <<d, i>>
          \/ \E e \in Level : picintlevel(e, FALSE) /\ Target(Irq[e]) = <<d, i>>
          \/ pic_latch_read(<<d, i>>) \/ \E word \in Config[machine].icw1s : WriteIcw1(d, word)
          \/ d = "m" /\ i = pic'.s.icw3
<1>1. ASSUME TypeOK, Acking, [Next]_vars, NEW d \in Chips, NEW i \in pic[d].irr \ pic'[d].irr
      PROVE  Lost(d, i)
  <2>1. CASE UNCHANGED vars BY <1>1, <2>1 DEF vars
  <2>2. CASE Device \/ \E t \in Latches : pic_latch_read(t) BY <1>1, <2>2, DeviceKeeps
  <2>3. CASE \E e \in Chips : Guest(e) BY <1>1, <2>3, GuestKeeps
  <2>4. CASE picinterrupt \/ check_interrupts \/ pic_irq_ack \/ IrqAckSecond
    BY <1>1, <2>4, CpuKeeps
  <2> QED BY <1>1, <2>1, <2>2, <2>3, <2>4 DEF Next
<1>2. TypeOK /\ Acking /\ [Next]_vars =>
        \A d \in Chips : \A i \in pic[d].irr \ pic'[d].irr : Lost(d, i)
  BY <1>1
<1>3. TypeOK /\ Acking /\ [Next]_vars =>
        [\A d \in Chips : \A i \in pic[d].irr \ pic'[d].irr :
          \/ Taken(d, i)
          \/ ReadPoll(d) /\ i = pic[d].interrupt.line
          \/ \E e \in Edge : picint(e, FALSE) /\ Target(Irq[e]) = <<d, i>>
          \/ \E e \in Level : picintlevel(e, FALSE) /\ Target(Irq[e]) = <<d, i>>
          \/ pic_latch_read(<<d, i>>) \/ \E word \in Config[machine].icw1s : WriteIcw1(d, word)
          \/ d = "m" /\ i = pic'.s.icw3]_vars
  BY <1>2
<1> HIDE DEF Lost
<1> QED BY <1>3, AckingInit, AckingStep, PTL DEF Spec, RequestKept

-----------------------------------------------------------------------------
(* What firmware and guests are taken to do. *)

(* ICW1 says whether there is a slave. *)
Initialised ==
    \A k \in Machines : \A word \in Config[k].icw1s : word.single <=> ~ Config[k].at

(* A guest of an 808x leaves lines unmasked, as OCW1 does not update there. *)
Unmasked808x == \A k \in Machines : ~ Config[k].is286 => Config[k].masks \subseteq {{}}

Modest(q) ==
    /\ ~ AT => /\ q.m.icw3 = {} /\ q.m.state # "ICW3"
               /\ q.m.state = "ICW2" => q.m.single
    /\ ~ Is286 => q.m.imr = {} /\ q.s.imr = {}

Idle(q) == ~ q.m.int_pending => q.m.interrupt.line = L - 1

(* Requests that the CPU may see are due. *)
Judged ==
    /\ Modest(pic) /\ Idle(pic)
    /\ ~ pic.m.interrupt.frozen =>
          Sound(pic.m) /\ (pic.m.int_pending /\ AT => Sound(pic.s))

LEMMA SoundSame ==
  ASSUME NEW x, NEW c, SameRegisters(x, c), x.int_pending = c.int_pending,
         x.interrupt.line = c.interrupt.line, x.state = c.state \/ c.state # "NONE",
         Sound(c)
  PROVE  Sound(x)
BY DueSame DEF Sound

LEMMA JudgedUpdate ==
  ASSUME NEW q \in Controllers, Updated(pic', q), Modest(q), Idle(q), UNCHANGED machine
  PROVE  Judged'
<1>1. AT' = AT /\ Is286' = Is286 BY DEF AT, Is286
<1>2. /\ pic'.m.icw3 = q.m.icw3 /\ pic'.m.state = q.m.state /\ pic'.m.single = q.m.single
      /\ pic'.m.imr = q.m.imr /\ pic'.s.imr = q.s.imr
  BY DEF Updated, Kept, Rest, Programmed
<1>3. Modest(pic)' BY <1>1, <1>2 DEF Modest
<1>4. CASE q.m.interrupt.frozen
  <2>1. pic' = q BY <1>4 DEF Updated
  <2> QED BY <1>3, <1>4, <2>1 DEF Judged, Idle
<1>5. CASE ~ q.m.interrupt.frozen
  <2>1. Sound(pic'.m) /\ (AT => Sound(pic'.s)) BY <1>5 DEF Updated, Fresh
  <2>2. Idle(pic)' BY <2>1 DEF Sound, Idle
  <2> QED BY <1>1, <1>3, <2>1, <2>2 DEF Judged, Sound, Due, Rank
<1> QED BY <1>4, <1>5

(* Nothing that decides about requests differs. *)
Still(q) ==
    /\ q.m.icw3 = pic.m.icw3 /\ q.m.single = pic.m.single
    /\ SameRegisters(q.m, pic.m) /\ SameRegisters(q.s, pic.s)
    /\ q.m.state = pic.m.state /\ q.s.state = pic.s.state
    /\ q.m.int_pending = pic.m.int_pending /\ q.s.int_pending = pic.s.int_pending
    /\ q.m.interrupt.line = pic.m.interrupt.line /\ q.s.interrupt.line = pic.s.interrupt.line

LEMMA StillJudged ==
  ASSUME Judged, Still(pic'), ~ pic'.m.interrupt.frozen => ~ pic.m.interrupt.frozen,
         UNCHANGED machine
  PROVE  Judged'
<1>1. AT' = AT /\ Is286' = Is286 BY DEF AT, Is286
<1>2. Modest(pic)' BY <1>1 DEF Judged, Modest, Still, SameRegisters
<1>3. Idle(pic)' BY DEF Judged, Idle, Still
<1>4. Sound(pic.m) => Sound(pic'.m) BY SoundSame DEF Still
<1>5. Sound(pic.s) => Sound(pic'.s) BY SoundSame DEF Still
<1>6. ~ pic'.m.interrupt.frozen =>
          Sound(pic'.m) /\ (pic'.m.int_pending /\ AT' => Sound(pic'.s))
  BY <1>1, <1>4, <1>5 DEF Judged, Still
<1> QED BY <1>2, <1>3, <1>6 DEF Judged, Sound, Due, Rank

LEMMA ReplacedStill ==
  ASSUME NEW q \in Controllers, NEW d \in {"m", "s"}, Replaced(q, pic, d),
         Programmed(q[d], pic[d]), SameRegisters(q[d], pic[d]),
         q[d].int_pending = pic[d].int_pending, q[d].interrupt.line = pic[d].interrupt.line
  PROVE  Still(q)
<1>1. CASE d = "m"
  <2>1. q.s = pic.s BY <1>1 DEF Replaced
  <2> QED BY <1>1, <2>1 DEF Still, Programmed, SameRegisters
<1>2. CASE d = "s"
  <2>1. q.m = pic.m BY <1>2 DEF Replaced
  <2> QED BY <1>2, <2>1 DEF Still, Programmed, SameRegisters
<1> QED BY <1>1, <1>2

LEMMA CountedStill ==
  ASSUME NEW t \in Inputs, NEW b \in Controllers, NEW n, Counted(b, pic, t, n)
  PROVE  Still(b) /\ b.m.interrupt = pic.m.interrupt
<1>1. t[1] \in {"m", "s"} BY DEF Inputs
<1>2. Still(b) BY <1>1, ReplacedStill DEF Counted, SameRequest
<1> QED BY <1>2, CountedCalm DEF Undisturbed

LEMMA MovedModest ==
  ASSUME NEW b \in Controllers, NEW q \in Controllers, NEW t \in Inputs, NEW set \in BOOLEAN,
         Moved(q, b, t, set), Modest(b), Idle(b)
  PROVE  Modest(q) /\ Idle(q)
<1>1. /\ q.m.interrupt = b.m.interrupt /\ Rest(q.m, b.m) /\ q.m.int_pending = b.m.int_pending
  BY MovedCalm
<1>2. q.m.imr = b.m.imr /\ q.s.imr = b.s.imr
  <2>1. t[1] \in {"m", "s"} BY DEF Inputs
  <2> QED BY <2>1 DEF Moved, Replaced
<1> QED BY <1>1, <1>2 DEF Modest, Idle, Rest, Programmed

LEMMA DeviceJudged ==
  ASSUME TypeOK, Judged, Device \/ \E t \in Latches : pic_latch_read(t)
  PROVE  Judged'
<1>1. pic \in Controllers BY DEF TypeOK, Controllers
<1>2. ASSUME NEW e \in Edge, NEW set \in BOOLEAN, picint(e, set)
      PROVE  Judged'
  <2> DEFINE t == Target(Irq[e])
  <2>1. t \in Inputs /\ \E q \in Controllers : Moved(q, pic, t, set) /\ Updated(pic', q)
    BY <1>2, PicintDoes
  <2>2. UNCHANGED machine BY <1>2 DEF picint
  <2> HIDE DEF t
  <2> QED BY <1>1, <2>1, <2>2, MovedModest, JudgedUpdate DEF Judged
<1>3. ASSUME NEW e \in Level, NEW set \in BOOLEAN, picintlevel(e, set)
      PROVE  Judged'
  <2> DEFINE t == Target(Irq[e])
             changed == (e \in irq_state) # set
  <2>1. PICK b \in Controllers :
          /\ t \in Inputs
          /\ IF changed /\ Reached(t) THEN Counted(b, pic, t, IF set THEN 1 ELSE -1)
                                      ELSE b = pic
          /\ IF Reached(t) /\ PassedOn(b[t[1]], t[2], changed, set)
             THEN \E q \in Controllers : Moved(q, b, t, set) /\ Updated(pic', q)
             ELSE pic' = b
    BY <1>3, PicintlevelDoes
  <2>2. UNCHANGED machine BY <1>3 DEF picintlevel
  <2> HIDE DEF t, changed
  <2>3. Still(b) /\ b.m.interrupt = pic.m.interrupt
    <3>1. CASE b = pic BY <3>1 DEF Still, SameRegisters
    <3>2. CASE Counted(b, pic, t, IF set THEN 1 ELSE -1) BY <2>1, <3>2, CountedStill
    <3> QED BY <2>1, <3>1, <3>2
  <2>4. Modest(b) /\ Idle(b) BY <2>3 DEF Judged, Modest, Idle, Still, SameRegisters
  <2>5. CASE pic' = b BY <2>2, <2>3, <2>5, StillJudged
  <2>6. CASE \E q \in Controllers : Moved(q, b, t, set) /\ Updated(pic', q)
    BY <2>1, <2>2, <2>4, <2>6, MovedModest, JudgedUpdate
  <2> QED BY <2>1, <2>5, <2>6
<1>4. ASSUME NEW t \in Latches, pic_latch_read(t)
      PROVE  Judged'
  <2>1. PICK q \in Controllers : t \in Inputs /\ Moved(q, pic, t, FALSE) /\ Updated(pic', q)
    BY <1>4, LatchReadDoes
  <2>2. UNCHANGED machine BY <1>4 DEF pic_latch_read
  <2> QED BY <1>1, <2>1, <2>2, MovedModest, JudgedUpdate DEF Judged
<1> QED BY <1>2, <1>3, <1>4 DEF Device

LEMMA ReplacedModest ==
  ASSUME NEW q \in Controllers, NEW d \in {"m", "s"}, Replaced(q, pic, d), Judged,
         ~ Is286 => q[d].imr = {},
         d = "m" => /\ Idle(q)
                    /\ ~ AT => /\ q.m.icw3 = {} /\ q.m.state # "ICW3"
                               /\ q.m.state = "ICW2" => q.m.single
  PROVE  Modest(q) /\ Idle(q)
<1>1. CASE d = "m"
  <2>1. q.s = pic.s BY <1>1 DEF Replaced
  <2> QED BY <1>1, <2>1 DEF Judged, Modest
<1>2. CASE d = "s"
  <2>1. q.m = pic.m BY <1>2 DEF Replaced
  <2> QED BY <1>2, <2>1 DEF Judged, Modest, Idle
<1> QED BY <1>1, <1>2

LEMMA GuestJudged ==
  ASSUME Initialised, Unmasked808x, TypeOK, Judged, NEW d \in Chips, Guest(d)
  PROVE  Judged'
<1>1. pic \in Controllers BY DEF TypeOK, Controllers
<1>2. d \in {"m", "s"} BY Configured DEF TypeOK
<1>3. UNCHANGED machine
  BY DEF Guest, WriteIcw1, WriteIcw, WriteOcw1, WriteOcw2, WriteOcw3, ReadPoll
<1>4. ASSUME NEW word \in Config[machine].icw1s, WriteIcw1(d, word)
      PROVE  Judged'
  <2>1. PICK q \in Controllers : Begun(q, d, word) /\ Updated(pic', q)
    BY <1>4, WriteIcw1Does
  <2>2. word.single <=> ~ AT BY DEF Initialised, TypeOK, AT
  <2>3. /\ q[d].single = word.single /\ q[d].icw3 = NoIcw3(d) /\ q[d].state = "ICW2"
        /\ q[d].imr = {} /\ q[d].interrupt = NoRequest
    BY <2>1 DEF Begun, Begins
  <2>4. d = "m" => Idle(q) BY <2>3, RequestFields DEF Idle
  <2>5. d = "m" /\ ~ AT => /\ q.m.icw3 = {} /\ q.m.state # "ICW3"
                           /\ q.m.state = "ICW2" => q.m.single
    BY <2>2, <2>3 DEF NoIcw3
  <2>6. Modest(q) /\ Idle(q) BY <1>2, <2>1, <2>3, <2>4, <2>5, ReplacedModest DEF Begun
  <2> QED BY <1>3, <2>1, <2>6, JudgedUpdate
<1>5. CASE WriteIcw(d)
  <2>1. Continued(d) BY <1>5, WriteIcwDoes
  <2>2. /\ Replaced(pic', pic, d) /\ SameRequest(pic'[d], pic[d]) /\ SameRegisters(pic'[d], pic[d])
        /\ pic'[d].single = pic[d].single
        /\ \/ /\ pic[d].state = "ICW2" /\ pic'[d].icw3 = pic[d].icw3
              /\ pic'[d].state = (IF pic[d].single THEN AfterIcw3(pic[d]) ELSE "ICW3")
           \/ pic[d].state = "ICW3" /\ pic'[d].state = AfterIcw3(pic[d])
           \/ pic[d].state = "ICW4" /\ pic'[d].state = "NONE" /\ pic'[d].icw3 = pic[d].icw3
    BY <2>1 DEF Continued
  <2>3. pic[d].state # "NONE" BY <2>2
  <2>4. Sound(pic[d]) => Sound(pic'[d]) BY <2>2, <2>3, SoundSame DEF SameRequest
  <2>5. pic' \in Controllers BY <2>2 DEF Replaced
  <2>6. d = "m" => Idle(pic') BY <2>2 DEF Judged, Idle, SameRequest
  <2>7. d = "m" /\ ~ AT => /\ pic'.m.icw3 = {} /\ pic'.m.state # "ICW3"
                           /\ pic'.m.state = "ICW2" => pic'.m.single
    BY <2>2 DEF Judged, Modest, AfterIcw3
  <2>8. ~ Is286 => pic'[d].imr = {} BY <1>2, <2>2 DEF Judged, Modest, SameRegisters
  <2>9. Modest(pic') /\ Idle(pic') BY <1>2, <2>2, <2>5, <2>6, <2>7, <2>8, ReplacedModest
  <2>10. pic'.m.interrupt = pic.m.interrupt /\ pic'.m.int_pending = pic.m.int_pending
    BY <1>2, <2>2 DEF Replaced, SameRequest
  <2>11. /\ Sound(pic.m) => Sound(pic'.m)
         /\ Sound(pic.s) => Sound(pic'.s)
    BY <1>2, <2>2, <2>4 DEF Replaced
  <2>12. AT' = AT /\ Is286' = Is286 BY <1>3 DEF AT, Is286
  <2>13. Modest(pic)' BY <2>9, <2>12 DEF Modest
  <2>14. ~ pic'.m.interrupt.frozen =>
            Sound(pic'.m) /\ (pic'.m.int_pending /\ AT' => Sound(pic'.s))
    BY <2>10, <2>11, <2>12 DEF Judged
  <2> QED BY <2>9, <2>13, <2>14 DEF Judged, Idle, Sound, Due, Rank
<1>6. ASSUME NEW mask \in Config[machine].masks, WriteOcw1(d, mask)
      PROVE  Judged'
  <2>1. PICK q \in Controllers : /\ MaskIs(q, d, mask)
                                 /\ IF Is286 THEN Updated(pic', q) ELSE pic' = q
    BY <1>6, WriteOcw1Does
  <2>2. ~ Is286 => mask = {} BY DEF Unmasked808x, TypeOK, Is286
  <2>3. /\ Replaced(q, pic, d) /\ Rest(q[d], pic[d]) /\ SameRequest(q[d], pic[d])
        /\ q[d].imr = mask
    BY <2>1 DEF MaskIs
  <2>4. d = "m" => Idle(q) BY <2>3 DEF Judged, Idle, SameRequest
  <2>5. d = "m" /\ ~ AT => /\ q.m.icw3 = {} /\ q.m.state # "ICW3"
                           /\ q.m.state = "ICW2" => q.m.single
    BY <2>3 DEF Judged, Modest, Rest, Programmed
  <2>6. Modest(q) /\ Idle(q) BY <1>2, <2>2, <2>3, <2>4, <2>5, ReplacedModest
  <2>7. CASE Is286 BY <1>3, <2>1, <2>6, <2>7, JudgedUpdate
  <2>8. CASE ~ Is286
    <3>1. SameRegisters(q[d], pic[d])
      BY <1>2, <2>1, <2>2, <2>8 DEF MaskIs, SameRegisters, Judged, Modest
    <3>2. Still(q) BY <1>2, <2>3, <3>1, ReplacedStill DEF Rest, SameRequest
    <3>3. q.m.interrupt = pic.m.interrupt BY <1>2, <2>3 DEF Replaced, SameRequest
    <3> QED BY <1>3, <2>1, <2>8, <3>2, <3>3, StillJudged
  <2> QED BY <2>7, <2>8
<1>7. ASSUME NEW word \in Config[machine].commands, WriteOcw2(d, word)
      PROVE  Judged'
  <2> DEFINE i == CommandLine(d, word)
  <2>1. IF word.sl \/ word.eoi
        THEN IF i = NoLine THEN pic' = pic
             ELSE \E q \in Controllers : /\ EndedAt(q, pic, d, i, word.eoi, word.rotate)
                                         /\ Updated(pic', q)
        ELSE RotationIs(d, word.rotate)
    BY <1>7, WriteOcw2Does
  <2> HIDE DEF i
  <2>2. CASE pic' = pic
    <3>1. Still(pic') BY <2>2 DEF Still, SameRegisters
    <3> QED BY <1>3, <2>2, <3>1, StillJudged
  <2>3. ASSUME NEW q \in Controllers, EndedAt(q, pic, d, i, word.eoi, word.rotate),
               Updated(pic', q)
        PROVE  Judged'
    <3>1. /\ Replaced(q, pic, d) /\ Rest(q[d], pic[d]) /\ SameRequest(q[d], pic[d])
          /\ q[d].imr = pic[d].imr
      BY <2>3 DEF EndedAt, EndedTo
    <3>2. d = "m" => Idle(q) BY <3>1 DEF Judged, Idle, SameRequest
    <3>3. d = "m" /\ ~ AT => /\ q.m.icw3 = {} /\ q.m.state # "ICW3"
                             /\ q.m.state = "ICW2" => q.m.single
      BY <3>1 DEF Judged, Modest, Rest, Programmed
    <3>4. ~ Is286 => q[d].imr = {} BY <1>2, <3>1 DEF Judged, Modest
    <3>5. Modest(q) /\ Idle(q) BY <1>2, <3>1, <3>2, <3>3, <3>4, ReplacedModest
    <3> QED BY <1>3, <2>3, <3>5, JudgedUpdate
  <2>4. CASE RotationIs(d, word.rotate)
    <3>1. /\ pic' \in Controllers /\ Replaced(pic', pic, d)
          /\ Programmed(pic'[d], pic[d]) /\ SameRequest(pic'[d], pic[d])
          /\ SameRegisters(pic'[d], pic[d])
      BY <2>4 DEF RotationIs, Replaced
    <3>2. Still(pic') BY <1>2, <3>1, ReplacedStill DEF SameRequest
    <3>3. pic'.m.interrupt = pic.m.interrupt BY <1>2, <3>1 DEF Replaced, SameRequest
    <3> QED BY <1>3, <3>2, <3>3, StillJudged
  <2> QED BY <2>1, <2>2, <2>3, <2>4
<1>8. ASSUME NEW o \in Config[machine].ocw3s, WriteOcw3(d, o[2])
      PROVE  Judged'
  <2>1. Commanded(d, o[2]) BY <1>8, WriteOcw3Does
  <2>2. /\ pic' \in Controllers /\ Replaced(pic', pic, d)
        /\ Programmed(pic'[d], pic[d]) /\ SameRegisters(pic'[d], pic[d])
        /\ pic'[d].int_pending = pic[d].int_pending
        /\ pic'[d].interrupt.line = pic[d].interrupt.line
        /\ pic'[d].interrupt.frozen = (pic[d].interrupt.frozen \/ o[2].poll)
    BY <2>1 DEF Commanded, Replaced
  <2>3. Still(pic') BY <1>2, <2>2, ReplacedStill
  <2>4. ~ pic'.m.interrupt.frozen => ~ pic.m.interrupt.frozen
    BY <1>2, <2>2 DEF Replaced
  <2> QED BY <1>3, <2>3, <2>4, StillJudged
<1>9. CASE ReadPoll(d)
  <2>1. PICK q \in Controllers : /\ Polled(q, d)
                                 /\ IF pic[d].int_pending THEN Updated(pic', q) ELSE pic' = q
    BY <1>9, ReadPollDoes
  <2>2. /\ Replaced(q, pic, d) /\ Programmed(q[d], pic[d])
        /\ q[d].int_pending = FALSE /\ q[d].interrupt.line = pic[d].interrupt.line
        /\ IF pic[d].int_pending THEN Serviced(q[d], pic[d]) ELSE SameRegisters(q[d], pic[d])
        /\ q[d].interrupt.frozen = FALSE
    BY <2>1 DEF Polled
  <2>3. ~ Is286 => q[d].imr = {}
    BY <1>2, <2>2 DEF Judged, Modest, Serviced, SameRegisters
  <2>4. d = "m" /\ ~ AT => /\ q.m.icw3 = {} /\ q.m.state # "ICW3"
                           /\ q.m.state = "ICW2" => q.m.single
    BY <2>2 DEF Judged, Modest, Programmed
  <2>5. CASE pic[d].int_pending
    <3>1. Updated(pic', q) BY <2>1, <2>5
    <3>2. CASE d = "m"
      <4>1. AT' = AT /\ Is286' = Is286 BY <1>3 DEF AT, Is286
      <4>2. ~ q.m.interrupt.frozen BY <2>2, <3>2
      <4>3. Sound(pic'.m) /\ (AT => Sound(pic'.s)) BY <3>1, <4>2 DEF Updated, Fresh
      <4>4. Idle(pic') BY <4>3 DEF Sound, Idle
      <4>5. /\ pic'.m.icw3 = q.m.icw3 /\ pic'.m.state = q.m.state /\ pic'.m.single = q.m.single
            /\ pic'.m.imr = q.m.imr /\ pic'.s.imr = q.s.imr
        BY <3>1 DEF Updated, Kept, Rest, Programmed
      <4>6. q.s = pic.s BY <2>2, <3>2 DEF Replaced
      <4>7. Modest(pic)' BY <2>3, <2>4, <3>2, <4>1, <4>5, <4>6 DEF Judged, Modest
      <4> QED BY <4>1, <4>3, <4>4, <4>7 DEF Judged, Idle, Sound, Due, Rank
    <3>3. CASE d = "s"
      <4>1. Modest(q) /\ Idle(q) BY <1>2, <2>2, <2>3, <3>3, ReplacedModest
      <4> QED BY <1>3, <3>1, <4>1, JudgedUpdate
    <3> QED BY <1>2, <3>2, <3>3
  <2>6. CASE ~ pic[d].int_pending
    <3>1. pic' = q /\ SameRegisters(q[d], pic[d]) BY <2>1, <2>2, <2>6
    <3>2. pic[d].int_pending = FALSE BY <1>1, <1>2, <2>6 DEF Controllers, Chip
    <3>3. Still(q) BY <1>2, <2>2, <3>1, <3>2, ReplacedStill
    <3>4. CASE d = "s"
      <4>1. q.m = pic.m BY <2>2, <3>4 DEF Replaced
      <4> QED BY <1>3, <3>1, <3>3, <4>1, StillJudged
    <3>5. CASE d = "m"
      <4>1. AT' = AT /\ Is286' = Is286 BY <1>3 DEF AT, Is286
      <4>2. ~ q.m.int_pending /\ q.m.interrupt.line = L - 1
        BY <2>2, <2>6, <3>5 DEF Judged, Idle
      <4>3. Sound(q.m) BY <4>2 DEF Sound
      <4>4. Modest(pic)' BY <3>1, <3>3, <4>1 DEF Judged, Modest, Still, SameRegisters
      <4> QED BY <3>1, <4>1, <4>2, <4>3, <4>4 DEF Judged, Idle, Sound, Due, Rank
    <3> QED BY <1>2, <3>4, <3>5
  <2> QED BY <2>5, <2>6
<1> QED BY <1>4, <1>5, <1>6, <1>7, <1>8, <1>9 DEF Guest

LEMMA CpuJudged ==
  ASSUME TypeOK, Acking, Judged,
         picinterrupt \/ check_interrupts \/ pic_irq_ack \/ IrqAckSecond
  PROVE  Judged'
<1>1. pic \in Controllers BY DEF TypeOK, Controllers
<1>2. UNCHANGED machine BY DEF picinterrupt, check_interrupts, pic_irq_ack, IrqAckSecond
<1>3. AT' = AT /\ Is286' = Is286 BY <1>2 DEF AT, Is286
<1>4. CASE picinterrupt
  <2>1. PICK p \in Controllers, u \in Controllers, q \in Controllers :
            /\ Asked(p, pic_slave_on(pic.m) /\ pic.s.int_pending,
                        pic_slave_on(pic.m) /\ ~ pic.s.int_pending)
            /\ FirstAcked(u, p) /\ Thawed(q, u) /\ Updated(pic', q)
    BY <1>4, PicinterruptDoes
  <2>2. /\ q.m.icw3 = pic.m.icw3 /\ q.m.state = pic.m.state /\ q.m.single = pic.m.single
        /\ q.m.imr = pic.m.imr
    BY <2>1 DEF Asked, FirstAcked, Thawed, Rest, Programmed, SameRegisters, Serviced,
                RegistersEnded
  <2>3. q.s.imr = pic.s.imr
    <3>1. p.s.imr = pic.s.imr BY <2>1 DEF Asked, SameRegisters
    <3>2. u.s.imr = p.s.imr BY <2>1 DEF FirstAcked, Serviced
    <3>3. q.s.imr = u.s.imr BY <2>1 DEF Thawed, RegistersEnded
    <3> QED BY <3>1, <3>2, <3>3
  <2>4. Idle(q) BY <2>1, RequestFields DEF Thawed, Idle
  <2>5. Modest(q) BY <2>2, <2>3 DEF Judged, Modest
  <2> QED BY <1>2, <2>1, <2>4, <2>5, JudgedUpdate
<1>5. CASE check_interrupts
  <2>1. pic' = pic BY <1>5 DEF check_interrupts
  <2>2. Still(pic') BY <2>1 DEF Still, SameRegisters
  <2> QED BY <1>2, <2>1, <2>2, StillJudged
<1>6. CASE pic_irq_ack
  <2>1. PICK p \in Controllers :
            /\ Asked(p, pic.m.int_pending /\ pic_slave_on(pic.m), FALSE)
            /\ FirstAcked(pic', p)
    BY <1>6, PicIrqAckDoes
  <2>2. /\ pic'.m.icw3 = pic.m.icw3 /\ pic'.m.state = pic.m.state
        /\ pic'.m.single = pic.m.single /\ pic'.m.imr = pic.m.imr
    BY <2>1 DEF Asked, FirstAcked, Rest, Programmed, SameRegisters, Serviced
  <2>3. pic'.s.imr = pic.s.imr BY <2>1 DEF Asked, FirstAcked, Serviced
  <2>4. /\ pic'.m.int_pending = pic.m.int_pending /\ pic'.m.interrupt.frozen
        /\ pic'.m.interrupt.line = pic.m.interrupt.line
    BY <2>1 DEF Asked, FirstAcked
  <2>5. Modest(pic)' BY <1>3, <2>2, <2>3 DEF Judged, Modest
  <2> QED BY <2>4, <2>5 DEF Judged, Idle
<1>7. CASE IrqAckSecond
  <2>1. pic.m.interrupt.frozen BY <1>7 DEF Acking, IrqAckSecond
  <2>2. PICK q \in Controllers : Thawed(q, pic) /\ Updated(pic', q)
    BY <1>7, <2>1, IrqAckSecondDoes
  <2>3. /\ q.m.icw3 = pic.m.icw3 /\ q.m.state = pic.m.state /\ q.m.single = pic.m.single
        /\ q.m.imr = pic.m.imr
    BY <2>2 DEF Thawed, Programmed, RegistersEnded
  <2>4. q.s.imr = pic.s.imr BY <2>2 DEF Thawed, RegistersEnded
  <2>5. Idle(q) BY <2>2, RequestFields DEF Thawed, Idle
  <2>6. Modest(q) BY <2>3, <2>4 DEF Judged, Modest
  <2> QED BY <1>2, <2>2, <2>5, <2>6, JudgedUpdate
<1> QED BY <1>4, <1>5, <1>6, <1>7

LEMMA JudgedInit == Init => Judged
<1> SUFFICES ASSUME Init PROVE Judged OBVIOUS
<1>1. /\ pic.m.icw3 = {} /\ pic.m.state = "NONE" /\ pic.m.imr = {} /\ pic.s.imr = {}
      /\ pic.m.int_pending = FALSE /\ pic.m.interrupt = NoRequest
  BY DEF Init, Cleared
<1>2. pic.m.interrupt.line = L - 1 BY <1>1, RequestFields
<1> QED BY <1>1, <1>2 DEF Judged, Modest, Idle, Sound

LEMMA JudgedStep ==
  ASSUME Initialised, Unmasked808x
  PROVE  TypeOK /\ Acking /\ Judged /\ [Next]_vars => Judged'
<1> SUFFICES ASSUME TypeOK, Acking, Judged, [Next]_vars PROVE Judged' OBVIOUS
<1>1. CASE UNCHANGED vars
  <2>1. pic' = pic /\ UNCHANGED machine BY <1>1 DEF vars
  <2>2. Still(pic') BY <2>1 DEF Still, SameRegisters
  <2> QED BY <2>1, <2>2, StillJudged
<1>2. CASE Next BY <1>2, DeviceJudged, GuestJudged, CpuJudged DEF Next
<1> QED BY <1>1, <1>2

LEMMA AskedIsDue ==
  ASSUME TypeOK, Acking, Judged, pic.m.int_pending,
         ~ pic.m.interrupt.frozen, pic.m.ack_bytes = 0,
         NEW p \in Controllers, NEW slave, NEW spurious, Asked(p, slave, spurious),
         slave => pic_slave_on(pic.m) /\ pic.s.int_pending /\ ~ spurious
  PROVE  LineDue(AckIrq(p))
<1>1. Due(pic.m, pic.m.interrupt.line) BY DEF Judged, Sound
<1>2. ~ pic.m.interrupt.slave BY DEF Acking
<1>3. p.m.interrupt.slave \in BOOLEAN BY DEF Controllers, Chip
<1>4. CASE p.m.interrupt.slave
  <2>1. slave BY <1>2, <1>4 DEF Asked
  <2>2. /\ pic.m.interrupt.line \in pic.m.icw3 /\ pic.s.int_pending /\ ~ spurious
    BY <2>1 DEF pic_slave_on
  <2>3. pic.m.interrupt.line = Cascade BY <2>2 DEF Acking
  <2>4. AT BY <2>2 DEF Judged, Modest
  <2>5. Due(pic.s, pic.s.interrupt.line) BY <2>2, <2>4 DEF Judged, Sound
  <2>6. AckIrq(p) = <<"s", pic.s.interrupt.line>> BY <1>4, <2>2 DEF AckIrq, Asked
  <2> QED BY <1>1, <2>3, <2>5, <2>6 DEF LineDue
<1>5. CASE ~ p.m.interrupt.slave
  <2>1. AckIrq(p) = <<"m", pic.m.interrupt.line>> BY <1>5 DEF AckIrq, Asked
  <2> QED BY <1>1, <2>1 DEF LineDue
<1> QED BY <1>3, <1>4, <1>5

(* The CPU never takes a stale request, for every machine on which ICW1    *)
(* tells whether there is a slave, whatever else is programmed, raised and *)
(* lowered; on an 808x if its guest leaves all lines unmasked.             *)
THEOREM PicDeliveredIsDue ==
  ASSUME Initialised, Unmasked808x
  PROVE  Spec => DeliveredIsDue
<1>1. ASSUME TypeOK, Acking, Judged, picinterrupt PROVE LineDue(vector')
  <2> DEFINE slave == pic_slave_on(pic.m) /\ pic.s.int_pending
             spurious == pic_slave_on(pic.m) /\ ~ pic.s.int_pending
  <2>1. PICK p \in Controllers : Asked(p, slave, spurious) /\ vector' = AckIrq(p)
    BY <1>1, PicinterruptDoes
  <2>2. pic.m.int_pending /\ ~ pic.m.interrupt.frozen BY <1>1 DEF picinterrupt, InterruptsOn
  <2>3. pic.m.ack_bytes = 0 BY <1>1, <2>2 DEF Acking, TypeOK, Chip
  <2>4. slave => pic_slave_on(pic.m) /\ pic.s.int_pending /\ ~ spurious OBVIOUS
  <2> HIDE DEF slave, spurious
  <2>5. LineDue(AckIrq(p)) BY <1>1, <2>1, <2>2, <2>3, <2>4, AskedIsDue
  <2> QED BY <2>1, <2>5
<1>2. ASSUME TypeOK, Acking, Judged, pic_irq_ack
      PROVE  IF pic.m.int_pending THEN LineDue(acked') ELSE acked' = <<"m", L - 1>>
  <2> DEFINE slave == pic.m.int_pending /\ pic_slave_on(pic.m)
  <2>1. PICK p \in Controllers : Asked(p, slave, FALSE) /\ acked' = AckIrq(p)
    BY <1>2, PicIrqAckDoes
  <2>2. /\ cpu = "ack" /\ pic.m.ack_bytes = 0 /\ ~ SlaveMissing BY <1>2 DEF pic_irq_ack
  <2>3. ~ pic.m.interrupt.frozen BY <1>2, <2>2 DEF Acking
  <2>4. CASE pic.m.int_pending
    <3>1. slave => pic_slave_on(pic.m) /\ pic.s.int_pending /\ ~ FALSE
      BY <2>2 DEF SlaveMissing
    <3> HIDE DEF slave
    <3>2. LineDue(AckIrq(p)) BY <1>2, <2>1, <2>2, <2>3, <2>4, <3>1, AskedIsDue
    <3> QED BY <2>1, <2>4, <3>2
  <2>5. CASE ~ pic.m.int_pending
    <3>1. ~ pic.m.interrupt.slave BY <1>2, <2>2 DEF Acking
    <3>2. slave = FALSE BY <2>5
    <3> HIDE DEF slave
    <3>3. p.m.interrupt.slave = FALSE /\ p.m.interrupt.line = pic.m.interrupt.line
      BY <1>2, <2>1, <3>1, <3>2 DEF Asked, TypeOK, Chip
    <3>4. pic.m.interrupt.line = L - 1 BY <1>2, <2>5 DEF Judged, Idle
    <3> QED BY <2>1, <2>5, <3>3, <3>4 DEF AckIrq
  <2> QED BY <2>4, <2>5
<1>3. TypeOK /\ Acking /\ Judged =>
        [/\ picinterrupt => LineDue(vector')
         /\ pic_irq_ack => IF pic.m.int_pending THEN LineDue(acked')
                                                ELSE acked' = <<"m", L - 1>>]_vars
  BY <1>1, <1>2
<1>4. TypeOK /\ Acking /\ Judged /\ [Next]_vars => Judged' BY JudgedStep
<1> QED BY <1>3, <1>4, AckingInit, AckingStep, JudgedInit, PTL DEF Spec, DeliveredIsDue

-----------------------------------------------------------------------------
(* No interrupt of a 286 or later waits unseen. *)

(* Guests poll the slave only: a poll of the master that finds nothing     *)
(* thaws it without an update.                                             *)
MasterNotPolled ==
    \A k \in Machines : Config[k].is286 =>
        \A o \in Config[k].ocw3s : o[1] = "m" => ~ o[2].poll

(* On the way through its initialisation the slave is told its line. *)
ToldItsLine(c) ==
    /\ c.state = "ICW2" => ~ c.single
    /\ c.state = "ICW4" \/ (c.state = "NONE" /\ c.icw4.upm) => c.icw3 = Cascade

(* Controllers q, those in r initialised: the next update sees everything. *)
Prepared(q, r) ==
    /\ ~ q.m.interrupt.frozen /\ ~ q.m.poll
    /\ \A d \in r : q[d].state = "NONE"
    /\ AT => ToldItsLine(q.s) /\ ("s" \in r => q.s.icw3 = Cascade)

Alert ==
    Is286 =>
        /\ Prepared(pic, ready)
        /\ "m" \in ready => (pic.m.int_pending <=> Contenders(pic.m) # {})
        /\ AT /\ "s" \in ready => (Cascade \in pic.m.irr <=> Contenders(pic.s) # {})

(* Controllers programmed alike, neither being polled or frozen if the     *)
(* other is not.                                                           *)
Alike(q, b) ==
    /\ Programmed(q.m, b.m) /\ Programmed(q.s, b.s)
    /\ q.m.poll = b.m.poll /\ q.m.interrupt.frozen = b.m.interrupt.frozen

LEMMA AlikePrepared ==
  ASSUME NEW q \in Controllers, NEW b \in Controllers, NEW r \in SUBSET {"m", "s"},
         Alike(q, b), Prepared(b, r)
  PROVE  Prepared(q, r)
<1>1. \A d \in {"m", "s"} : q[d].state = b[d].state BY DEF Alike, Programmed
<1>2. ToldItsLine(b.s) => ToldItsLine(q.s) BY DEF ToldItsLine, Alike, Programmed
<1>3. q.s.icw3 = b.s.icw3 BY DEF Alike, Programmed
<1> QED BY <1>1, <1>2, <1>3 DEF Prepared, Alike

LEMMA ReplacedAlike ==
  ASSUME NEW q \in Controllers, NEW b \in Controllers, NEW d \in {"m", "s"},
         Replaced(q, b, d), Programmed(q[d], b[d]),
         d = "m" => /\ q.m.poll = b.m.poll
                    /\ q.m.interrupt.frozen = b.m.interrupt.frozen
  PROVE  Alike(q, b)
<1>1. CASE d = "m"
  <2>1. q.s = b.s BY <1>1 DEF Replaced
  <2> QED BY <1>1, <2>1 DEF Alike, Programmed
<1>2. CASE d = "s"
  <2>1. q.m = b.m BY <1>2 DEF Replaced
  <2> QED BY <1>2, <2>1 DEF Alike, Programmed
<1> QED BY <1>1, <1>2

LEMMA AlertUpdate ==
  ASSUME NEW q \in Controllers, NEW r \in SUBSET {"m", "s"}, Prepared(q, r), Updated(pic', q),
         ready' = r, UNCHANGED machine
  PROVE  Alert'
<1>1. AT' = AT /\ Is286' = Is286 BY DEF AT, Is286
<1>2. ~ q.m.interrupt.frozen BY DEF Prepared
<1>3. Fresh(pic'.m) /\ (AT => Fresh(pic'.s) /\ (q.s.icw3 \in pic'.m.irr <=> pic'.s.int_pending))
  BY <1>2 DEF Updated
<1>4. /\ pic' \in Controllers /\ Programmed(pic'.m, q.m) /\ Programmed(pic'.s, q.s)
      /\ pic'.m.poll = q.m.poll
  BY DEF Updated, Kept, Rest
<1>5. pic'.m.interrupt.frozen = FALSE BY <1>3 DEF Fresh
<1>6. q.m.interrupt.frozen = FALSE BY <1>2 DEF Controllers, Chip
<1>7. Prepared(pic', r) BY <1>4, <1>5, <1>6, AlikePrepared DEF Alike
<1>8. "m" \in r => (pic'.m.int_pending <=> Contenders(pic'.m) # {})
  BY <1>3, <1>7 DEF Fresh, Prepared
<1>9. AT /\ "s" \in r => (Cascade \in pic'.m.irr <=> Contenders(pic'.s) # {})
  <2>1. SUFFICES ASSUME AT, "s" \in r PROVE Cascade \in pic'.m.irr <=> Contenders(pic'.s) # {}
    OBVIOUS
  <2>2. q.s.icw3 = Cascade BY <2>1 DEF Prepared
  <2>3. pic'.s.int_pending <=> Contenders(pic'.s) # {} BY <1>3, <1>7, <2>1 DEF Fresh, Prepared
  <2> QED BY <1>3, <2>1, <2>2, <2>3
<1> QED BY <1>1, <1>7, <1>8, <1>9 DEF Alert, Prepared, Contenders, Rank

LEMMA AlertSame ==
  ASSUME Alert, Is286 => Prepared(pic', ready), UNCHANGED <<machine, ready>>,
         SameRegisters(pic'.m, pic.m), SameRegisters(pic'.s, pic.s),
         pic'.m.int_pending = pic.m.int_pending
  PROVE  Alert'
<1>1. AT' = AT /\ Is286' = Is286 BY DEF AT, Is286
<1>2. Contenders(pic'.m) = Contenders(pic.m) /\ Contenders(pic'.s) = Contenders(pic.s)
  BY DueSame
<1>3. pic'.m.irr = pic.m.irr BY DEF SameRegisters
<1> QED BY <1>1, <1>2, <1>3 DEF Alert, Prepared, Contenders, Rank

LEMMA MovedAlike ==
  ASSUME NEW b \in Controllers, NEW q \in Controllers, NEW t \in Inputs, NEW set \in BOOLEAN,
         Moved(q, b, t, set)
  PROVE  Alike(q, b)
<1>1. t[1] \in {"m", "s"} BY DEF Inputs
<1>2. /\ Replaced(q, b, t[1]) /\ Programmed(q[t[1]], b[t[1]]) /\ SameRequest(q[t[1]], b[t[1]])
      /\ q[t[1]].poll = b[t[1]].poll
  BY DEF Moved, Rest
<1> QED BY <1>1, <1>2, ReplacedAlike DEF SameRequest

LEMMA CountedAlike ==
  ASSUME NEW b \in Controllers, pic \in Controllers, NEW t \in Inputs, NEW n,
         Counted(b, pic, t, n)
  PROVE  Alike(b, pic)
<1>1. t[1] \in {"m", "s"} BY DEF Inputs
<1>2. /\ Replaced(b, pic, t[1]) /\ Programmed(b[t[1]], pic[t[1]])
      /\ SameRequest(b[t[1]], pic[t[1]]) /\ b[t[1]].poll = pic[t[1]].poll
  BY DEF Counted
<1> QED BY <1>1, <1>2, ReplacedAlike DEF SameRequest

LEMMA NotAlert ==
  ASSUME ~ Is286, UNCHANGED machine
  PROVE  Alert'
<1>1. ~ Is286' BY DEF Is286
<1> QED BY <1>1 DEF Alert, Is286

LEMMA DeviceAlert ==
  ASSUME TypeOK, Alert, Is286, Device \/ \E t \in Latches : pic_latch_read(t)
  PROVE  Alert'
<1>1. pic \in Controllers /\ Prepared(pic, ready) BY DEF TypeOK, Controllers, Alert
<1>2. ready \in SUBSET {"m", "s"} BY Configured DEF TypeOK
<1>3. UNCHANGED <<machine, ready>>
  BY DEF Device, picint, picintlevel, pic_latch_read, history
<1>4. ASSUME NEW e \in Edge, NEW set \in BOOLEAN, picint(e, set)
      PROVE  Alert'
  <2> DEFINE t == Target(Irq[e])
  <2>1. PICK q \in Controllers : t \in Inputs /\ Moved(q, pic, t, set) /\ Updated(pic', q)
    BY <1>4, PicintDoes
  <2> HIDE DEF t
  <2>2. Prepared(q, ready) BY <1>1, <1>2, <2>1, MovedAlike, AlikePrepared
  <2> QED BY <1>2, <1>3, <2>1, <2>2, AlertUpdate
<1>5. ASSUME NEW e \in Level, NEW set \in BOOLEAN, picintlevel(e, set)
      PROVE  Alert'
  <2> DEFINE t == Target(Irq[e])
             changed == (e \in irq_state) # set
  <2>1. PICK b \in Controllers :
          /\ t \in Inputs
          /\ IF changed /\ Reached(t) THEN Counted(b, pic, t, IF set THEN 1 ELSE -1)
                                      ELSE b = pic
          /\ IF Reached(t) /\ PassedOn(b[t[1]], t[2], changed, set)
             THEN \E q \in Controllers : Moved(q, b, t, set) /\ Updated(pic', q)
             ELSE pic' = b
    BY <1>5, PicintlevelDoes
  <2> HIDE DEF t, changed
  <2>2. Still(b) /\ Prepared(b, ready)
    <3>1. CASE b = pic BY <1>1, <3>1 DEF Still, SameRegisters
    <3>2. CASE Counted(b, pic, t, IF set THEN 1 ELSE -1)
      BY <1>1, <1>2, <2>1, <3>2, CountedStill, CountedAlike, AlikePrepared
    <3> QED BY <2>1, <3>1, <3>2
  <2>3. CASE pic' = b BY <1>3, <2>2, <2>3, AlertSame DEF Still
  <2>4. ASSUME NEW q \in Controllers, Moved(q, b, t, set), Updated(pic', q)
        PROVE  Alert'
    <3>1. Prepared(q, ready) BY <1>2, <2>1, <2>2, <2>4, MovedAlike, AlikePrepared
    <3> QED BY <1>2, <1>3, <2>4, <3>1, AlertUpdate
  <2> QED BY <2>1, <2>3, <2>4
<1>6. ASSUME NEW t \in Latches, pic_latch_read(t)
      PROVE  Alert'
  <2>1. PICK q \in Controllers : t \in Inputs /\ Moved(q, pic, t, FALSE) /\ Updated(pic', q)
    BY <1>6, LatchReadDoes
  <2>2. Prepared(q, ready) BY <1>1, <1>2, <2>1, MovedAlike, AlikePrepared
  <2> QED BY <1>2, <1>3, <2>1, <2>2, AlertUpdate
<1> QED BY <1>4, <1>5, <1>6 DEF Device

LEMMA CpuAlert ==
  ASSUME TypeOK, Acking, Alert, Is286,
         picinterrupt \/ check_interrupts \/ pic_irq_ack \/ IrqAckSecond
  PROVE  Alert'
<1>1. picinterrupt BY DEF Acking, check_interrupts, pic_irq_ack, IrqAckSecond
<1>2. pic \in Controllers /\ Prepared(pic, ready) BY DEF TypeOK, Controllers, Alert
<1>3. ready \in SUBSET {"m", "s"} BY Configured DEF TypeOK
<1>4. UNCHANGED <<machine, ready>> BY <1>1 DEF picinterrupt
<1>5. PICK p \in Controllers, u \in Controllers, q \in Controllers :
          /\ Asked(p, pic_slave_on(pic.m) /\ pic.s.int_pending,
                      pic_slave_on(pic.m) /\ ~ pic.s.int_pending)
          /\ FirstAcked(u, p) /\ Thawed(q, u) /\ Updated(pic', q)
  BY <1>1, PicinterruptDoes
<1>6. Programmed(q.m, pic.m) /\ q.m.poll = pic.m.poll
  <2>1. Programmed(p.m, pic.m) /\ p.m.poll = pic.m.poll BY <1>5 DEF Asked, Rest
  <2>2. Programmed(u.m, p.m) /\ u.m.poll = p.m.poll BY <1>5 DEF FirstAcked
  <2>3. Programmed(q.m, u.m) /\ q.m.poll = u.m.poll BY <1>5 DEF Thawed
  <2> QED BY <2>1, <2>2, <2>3 DEF Programmed
<1>7. Programmed(q.s, pic.s)
  <2>1. Programmed(p.s, pic.s) BY <1>5 DEF Asked, Rest, Programmed
  <2>2. Programmed(u.s, p.s) BY <1>5 DEF FirstAcked, Rest, Programmed
  <2>3. Programmed(q.s, u.s) BY <1>5 DEF Thawed, Rest, Programmed
  <2> QED BY <2>1, <2>2, <2>3 DEF Programmed
<1>8. q.m.interrupt.frozen = FALSE BY <1>5, RequestFields DEF Thawed
<1>9. pic.m.interrupt.frozen = FALSE BY <1>2 DEF Prepared, Controllers, Chip
<1>10. Prepared(q, ready) BY <1>2, <1>3, <1>6, <1>7, <1>8, <1>9, AlikePrepared DEF Alike
<1> QED BY <1>3, <1>4, <1>5, <1>10, AlertUpdate

LEMMA ReplacedPrepared ==
  ASSUME NEW q \in Controllers, NEW d \in {"m", "s"}, NEW r \in SUBSET {"m", "s"},
         Prepared(pic, ready), Replaced(q, pic, d), r \ {d} \subseteq ready,
         d \in r => q[d].state = "NONE",
         d = "m" => ~ q.m.interrupt.frozen /\ ~ q.m.poll,
         d = "s" /\ AT => ToldItsLine(q.s) /\ ("s" \in r => q.s.icw3 = Cascade)
  PROVE  Prepared(q, r)
<1>1. \A e \in {"m", "s"} : e # d => q[e] = pic[e] BY DEF Replaced
<1>2. ASSUME NEW e \in r PROVE q[e].state = "NONE" BY <1>1 DEF Prepared
<1>3. ~ q.m.interrupt.frozen /\ ~ q.m.poll BY <1>1 DEF Prepared
<1>4. AT => ToldItsLine(q.s) /\ ("s" \in r => q.s.icw3 = Cascade)
  <2>1. CASE d = "s" BY <2>1
  <2>2. CASE d = "m"
    <3>1. q.s = pic.s /\ ("s" \in r => "s" \in ready) BY <1>1, <2>2
    <3> QED BY <3>1 DEF Prepared
  <2> QED BY <2>1, <2>2
<1> QED BY <1>2, <1>3, <1>4 DEF Prepared

LEMMA GuestAlert ==
  ASSUME Initialised, MasterNotPolled, TypeOK, Alert, Is286, NEW d \in Chips, Guest(d)
  PROVE  Alert'
<1>1. pic \in Controllers /\ Prepared(pic, ready) BY DEF TypeOK, Controllers, Alert
<1>2. d \in {"m", "s"} /\ ready \in SUBSET {"m", "s"} BY Configured DEF TypeOK
<1>3. UNCHANGED machine
  BY DEF Guest, WriteIcw1, WriteIcw, WriteOcw1, WriteOcw2, WriteOcw3, ReadPoll
<1>4. d = "s" => AT BY DEF Chips
<1>5. ASSUME NEW word \in Config[machine].icw1s, WriteIcw1(d, word)
      PROVE  Alert'
  <2>1. PICK q \in Controllers : Begun(q, d, word) /\ Updated(pic', q)
    BY <1>5, WriteIcw1Does
  <2>2. word.single <=> ~ AT BY DEF Initialised, TypeOK, AT
  <2>3. ready' = ready \ {d} BY <1>5 DEF WriteIcw1
  <2>4. /\ q[d].single = word.single /\ q[d].state = "ICW2" /\ q[d].poll = FALSE
        /\ q[d].interrupt.frozen = FALSE /\ Replaced(q, pic, d)
    BY <2>1, RequestFields DEF Begun, Begins
  <2>5. d = "s" => ToldItsLine(q.s) BY <1>4, <2>2, <2>4 DEF ToldItsLine
  <2>6. Prepared(q, ready \ {d}) BY <1>1, <1>2, <2>4, <2>5, ReplacedPrepared
  <2> QED BY <1>2, <1>3, <2>1, <2>3, <2>6, AlertUpdate
<1>6. CASE WriteIcw(d)
  <2>1. Continued(d) BY <1>6, WriteIcwDoes
  <2>2. /\ Replaced(pic', pic, d) /\ SameRequest(pic'[d], pic[d]) /\ SameRegisters(pic'[d], pic[d])
        /\ pic'[d].single = pic[d].single /\ pic'[d].poll = pic[d].poll
    BY <2>1 DEF Continued
  <2>3. \/ /\ pic[d].state = "ICW2" /\ pic'[d].icw3 = pic[d].icw3
           /\ pic'[d].state = (IF pic[d].single THEN AfterIcw3(pic[d]) ELSE "ICW3")
        \/ /\ pic[d].state = "ICW3" /\ pic'[d].icw3 = Icw3(d)
           /\ pic'[d].state = AfterIcw3(pic[d])
        \/ pic[d].state = "ICW4" /\ pic'[d].state = "NONE" /\ pic'[d].icw3 = pic[d].icw3
    BY <2>1 DEF Continued
  <2>4. d \notin ready BY <1>1, <2>3 DEF Prepared
  <2>5. pic' \in Controllers BY <2>2 DEF Replaced
  <2>6. d = "m" => ~ pic'.m.interrupt.frozen /\ ~ pic'.m.poll
    BY <1>1, <2>2 DEF Prepared, SameRequest
  <2>7. d = "s" => ToldItsLine(pic'.s)
    <3>1. SUFFICES ASSUME d = "s" PROVE ToldItsLine(pic'.s) OBVIOUS
    <3>2. ToldItsLine(pic.s) BY <1>1, <1>4, <3>1 DEF Prepared
    <3>3. CASE pic.s.state = "ICW2"
      <4>1. pic'.s.state = "ICW3" BY <2>3, <3>1, <3>2, <3>3 DEF ToldItsLine
      <4> QED BY <4>1 DEF ToldItsLine
    <3>4. CASE pic.s.state # "ICW2"
      <4>1. pic'.s.state # "ICW2" BY <2>3, <3>1, <3>4 DEF AfterIcw3
      <4>2. pic'.s.icw3 = Cascade BY <2>3, <3>1, <3>2, <3>4 DEF ToldItsLine, Icw3
      <4> QED BY <4>1, <4>2 DEF ToldItsLine
    <3> QED BY <3>3, <3>4
  <2>8. Prepared(pic', ready) BY <1>1, <1>2, <2>2, <2>4, <2>5, <2>6, <2>7, ReplacedPrepared
  <2>9. ready' = ready BY <1>6 DEF WriteIcw, history
  <2>10. /\ SameRegisters(pic'.m, pic.m) /\ SameRegisters(pic'.s, pic.s)
         /\ pic'.m.int_pending = pic.m.int_pending
    BY <1>2, <2>2 DEF Replaced, SameRegisters, SameRequest
  <2> QED BY <1>3, <2>8, <2>9, <2>10, AlertSame
<1>7. ASSUME NEW mask \in Config[machine].masks, WriteOcw1(d, mask)
      PROVE  Alert'
  <2>1. PICK q \in Controllers : MaskIs(q, d, mask) /\ Updated(pic', q)
    BY <1>7, WriteOcw1Does
  <2>2. /\ pic[d].state = "NONE"
        /\ ready' = IF pic[d].icw4.upm THEN ready \cup {d} ELSE ready
    BY <1>7 DEF WriteOcw1
  <2> DEFINE r == IF pic[d].icw4.upm THEN ready \cup {d} ELSE ready
  <2>3. /\ Replaced(q, pic, d) /\ Programmed(q[d], pic[d]) /\ SameRequest(q[d], pic[d])
        /\ q[d].poll = pic[d].poll
    BY <2>1 DEF MaskIs, Rest
  <2>4. Alike(q, pic) BY <1>1, <1>2, <2>3, ReplacedAlike DEF SameRequest
  <2>5. Prepared(q, ready) BY <1>1, <1>2, <2>4, AlikePrepared
  <2>6. q[d].state = "NONE" BY <2>2, <2>3 DEF Programmed
  <2>7. d = "s" /\ pic[d].icw4.upm => q.s.icw3 = Cascade
    BY <1>1, <1>4, <2>2, <2>3 DEF Prepared, ToldItsLine, Programmed
  <2>8. r \in SUBSET {"m", "s"} BY <1>2
  <2>9. Prepared(q, r) BY <2>5, <2>6, <2>7 DEF Prepared
  <2>10. ready' = r BY <2>2
  <2> HIDE DEF r
  <2> QED BY <1>3, <2>1, <2>8, <2>9, <2>10, AlertUpdate
<1>8. ASSUME NEW word \in Config[machine].commands, WriteOcw2(d, word)
      PROVE  Alert'
  <2> DEFINE i == CommandLine(d, word)
  <2>1. IF word.sl \/ word.eoi
        THEN IF i = NoLine THEN pic' = pic
             ELSE \E q \in Controllers : /\ EndedAt(q, pic, d, i, word.eoi, word.rotate)
                                         /\ Updated(pic', q)
        ELSE RotationIs(d, word.rotate)
    BY <1>8, WriteOcw2Does
  <2>2. ready' = ready BY <1>8 DEF WriteOcw2
  <2> HIDE DEF i
  <2>3. CASE pic' = pic BY <1>1, <1>3, <2>2, <2>3, AlertSame DEF SameRegisters
  <2>4. ASSUME NEW q \in Controllers, EndedAt(q, pic, d, i, word.eoi, word.rotate),
               Updated(pic', q)
        PROVE  Alert'
    <3>1. /\ Replaced(q, pic, d) /\ Programmed(q[d], pic[d]) /\ SameRequest(q[d], pic[d])
          /\ q[d].poll = pic[d].poll
      BY <2>4 DEF EndedAt, EndedTo, Rest
    <3>2. Prepared(q, ready)
      BY <1>1, <1>2, <3>1, ReplacedAlike, AlikePrepared DEF SameRequest
    <3> QED BY <1>2, <1>3, <2>2, <2>4, <3>2, AlertUpdate
  <2>5. CASE RotationIs(d, word.rotate)
    <3>1. /\ Replaced(pic', pic, d) /\ Programmed(pic'[d], pic[d])
          /\ SameRequest(pic'[d], pic[d]) /\ SameRegisters(pic'[d], pic[d])
          /\ pic'[d].poll = pic[d].poll
      BY <2>5 DEF RotationIs
    <3>2. pic' \in Controllers BY <3>1 DEF Replaced
    <3>3. Prepared(pic', ready)
      BY <1>1, <1>2, <3>1, <3>2, ReplacedAlike, AlikePrepared DEF SameRequest
    <3>4. /\ SameRegisters(pic'.m, pic.m) /\ SameRegisters(pic'.s, pic.s)
          /\ pic'.m.int_pending = pic.m.int_pending
      BY <1>2, <3>1 DEF Replaced, SameRegisters, SameRequest
    <3> QED BY <1>3, <2>2, <3>3, <3>4, AlertSame
  <2> QED BY <2>1, <2>3, <2>4, <2>5
<1>9. ASSUME NEW o \in Config[machine].ocw3s, o[1] = d, WriteOcw3(d, o[2])
      PROVE  Alert'
  <2>1. Commanded(d, o[2]) BY <1>9, WriteOcw3Does
  <2>2. /\ Replaced(pic', pic, d) /\ Programmed(pic'[d], pic[d])
        /\ SameRegisters(pic'[d], pic[d]) /\ pic'[d].poll = o[2].poll
        /\ pic'[d].int_pending = pic[d].int_pending
        /\ pic'[d].interrupt.frozen = (pic[d].interrupt.frozen \/ o[2].poll)
    BY <2>1 DEF Commanded
  <2>3. pic' \in Controllers BY <2>2 DEF Replaced
  <2>4. d = "m" => ~ o[2].poll BY <1>9 DEF MasterNotPolled, TypeOK, Is286
  <2>5. d = "m" => ~ pic'.m.interrupt.frozen /\ ~ pic'.m.poll
    BY <1>1, <2>2, <2>4 DEF Prepared
  <2>6. d \in ready => pic'[d].state = "NONE" BY <1>1, <2>2 DEF Prepared, Programmed
  <2>7. d = "s" => ToldItsLine(pic'.s) /\ ("s" \in ready => pic'.s.icw3 = Cascade)
    BY <1>1, <1>4, <2>2 DEF Prepared, ToldItsLine, Programmed
  <2>8. Prepared(pic', ready)
    BY <1>1, <1>2, <2>2, <2>3, <2>5, <2>6, <2>7, ReplacedPrepared
  <2>9. ready' = ready BY <1>9 DEF WriteOcw3, history
  <2>10. /\ SameRegisters(pic'.m, pic.m) /\ SameRegisters(pic'.s, pic.s)
         /\ pic'.m.int_pending = pic.m.int_pending
    BY <1>2, <2>2 DEF Replaced, SameRegisters
  <2> QED BY <1>3, <2>8, <2>9, <2>10, AlertSame
<1>10. CASE ReadPoll(d)
  <2>1. PICK q \in Controllers : /\ Polled(q, d)
                                 /\ IF pic[d].int_pending THEN Updated(pic', q) ELSE pic' = q
    BY <1>10, ReadPollDoes
  <2>2. ready' = ready /\ pic[d].poll BY <1>10 DEF ReadPoll
  <2>3. d = "s" BY <1>1, <1>2, <2>2 DEF Prepared
  <2>4. Replaced(q, pic, d) /\ Programmed(q[d], pic[d]) BY <2>1 DEF Polled
  <2>5. Prepared(q, ready) BY <1>1, <1>2, <2>3, <2>4, ReplacedAlike, AlikePrepared
  <2>6. CASE pic[d].int_pending BY <1>2, <1>3, <2>1, <2>2, <2>5, <2>6, AlertUpdate
  <2>7. CASE ~ pic[d].int_pending
    <3>1. pic' = q /\ SameRegisters(q[d], pic[d]) BY <2>1, <2>7 DEF Polled
    <3>2. q.m = pic.m BY <2>3, <2>4 DEF Replaced
    <3> QED BY <1>3, <2>2, <2>3, <2>5, <3>1, <3>2, AlertSame DEF SameRegisters
  <2> QED BY <2>6, <2>7
<1> QED BY <1>5, <1>6, <1>7, <1>8, <1>9, <1>10 DEF Guest

LEMMA AlertInit == Init => Alert
<1> SUFFICES ASSUME Init PROVE Alert OBVIOUS
<1>1. /\ pic.m.poll = FALSE /\ pic.m.interrupt = NoRequest
      /\ pic.s.state = "NONE" /\ pic.s.icw4.upm = FALSE /\ ready = {}
  BY DEF Init, Cleared
<1>2. pic.m.interrupt.frozen = FALSE BY <1>1, RequestFields
<1> QED BY <1>1, <1>2 DEF Alert, Prepared, ToldItsLine

LEMMA AlertStep ==
  ASSUME Initialised, MasterNotPolled
  PROVE  TypeOK /\ Acking /\ Alert /\ [Next]_vars => Alert'
<1> SUFFICES ASSUME TypeOK, Acking, Alert, [Next]_vars PROVE Alert' OBVIOUS
<1>1. CASE UNCHANGED vars
  <2>1. pic' = pic /\ UNCHANGED <<machine, ready>> BY <1>1 DEF vars
  <2> QED BY <2>1, AlertSame DEF Alert, SameRegisters
<1>2. CASE Next
  <2>1. CASE ~ Is286
    <3>1. UNCHANGED machine
      BY <1>2 DEF Next, Device, Guest, picint, picintlevel, pic_latch_read, WriteIcw1, WriteIcw,
                  WriteOcw1, WriteOcw2, WriteOcw3, ReadPoll, picinterrupt, check_interrupts,
                  pic_irq_ack, IrqAckSecond
    <3> QED BY <2>1, <3>1, NotAlert
  <2>2. CASE Is286 BY <1>2, <2>2, DeviceAlert, GuestAlert, CpuAlert DEF Next
  <2> QED BY <2>1, <2>2
<1> QED BY <1>1, <1>2

(* No interrupt waits unseen, for every machine on which ICW1 tells        *)
(* whether there is a slave and no guest polls the master.                 *)
THEOREM PicPendingNoticed ==
  ASSUME Initialised, MasterNotPolled
  PROVE  Spec => []PendingNoticed
<1>1. Alert => PendingNoticed BY DEF Alert, PendingNoticed, Chips
<1>2. TypeOK /\ Acking /\ Alert /\ [Next]_vars => Alert' BY AlertStep
<1> QED BY <1>1, <1>2, AckingInit, AckingStep, AlertInit, PTL DEF Spec

-----------------------------------------------------------------------------
(* Lines that devices share. *)

(* Machines with shared lines have both controllers; their firmware leaves *)
(* the line of the slave, and line 0, edge triggered, and what raises      *)
(* edges is on lines that are not level triggered.                         *)
Routed(irq) == IF irq = <<"m", Cascade>> THEN <<"s", 1>> ELSE irq

EdgesApart ==
    \A k \in Machines :
        /\ Config[k].level # {} => Config[k].at
        /\ Config[k].elcr_enabled =>
              /\ 0 \notin Config[k].elcr.m /\ Cascade \notin Config[k].elcr.m
              /\ \A d \in Config[k].edge : /\ Irq[d][2] \notin Config[k].elcr[Irq[d][1]]
                                           /\ Routed(Irq[d])[2] \notin Config[k].elcr[Routed(Irq[d])[1]]
              /\ \A t \in Config[k].latches : t[2] \notin Config[k].elcr[t[1]]

(* Devices of S whose interrupt is t. *)
On(S, t) == {e \in S : t = Routed(Irq[e])}

(* The devices of a line can be counted. *)
Fits(S, t) == Cardinality(On(S, t)) < Wrap

Strapped(q) ==
    /\ q.m.elcr = Config[machine].elcr.m /\ q.s.elcr = Config[machine].elcr.s
    /\ q.s.icw3 \in {0, Cascade}

(* Devices S assert their interrupts: that is what controllers q see, but  *)
(* for the lines of A.                                                     *)
Shows(q, S, A) ==
    /\ Strapped(q)
    /\ \A d \in {"m", "s"}, i \in Line :
          <<d, i>> \notin A => q[d].lines[i] = Cardinality(On(S, <<d, i>>))
    /\ elcr_enabled => \A d \in {"m", "s"} : \A i \in q[d].elcr :
                          <<d, i>> \notin A => (i \in q[d].irr <=> On(S, <<d, i>>) # {})

Wired == IsFiniteSet(irq_state) /\ Shows(pic, irq_state, strayed)

LEMMA OnFinite ==
  ASSUME NEW S, IsFiniteSet(S), NEW t
  PROVE  IsFiniteSet(On(S, t)) /\ Cardinality(On(S, t)) \in Nat
         /\ (Cardinality(On(S, t)) = 0 <=> On(S, t) = {})
<1>1. On(S, t) \in SUBSET S BY DEF On
<1>2. IsFiniteSet(On(S, t)) BY <1>1, FS_Subset
<1> QED BY <1>2, FS_CardinalityType, FS_EmptySet

LEMMA OnMore ==
  ASSUME NEW S, IsFiniteSet(S), NEW e, e \notin S
  PROVE  /\ On(S \cup {e}, Routed(Irq[e])) # {}
         /\ Cardinality(On(S \cup {e}, Routed(Irq[e])))
                = Cardinality(On(S, Routed(Irq[e]))) + 1
<1>1. IsFiniteSet(On(S, Routed(Irq[e]))) BY OnFinite
<1>2. /\ On(S \cup {e}, Routed(Irq[e])) = On(S, Routed(Irq[e])) \cup {e}
      /\ e \notin On(S, Routed(Irq[e]))
  BY DEF On
<1> QED BY <1>1, <1>2, FS_AddElement

LEMMA OnLess ==
  ASSUME NEW S, IsFiniteSet(S), NEW e \in S
  PROVE  /\ On(S, Routed(Irq[e])) # {}
         /\ Cardinality(On(S \ {e}, Routed(Irq[e])))
                = Cardinality(On(S, Routed(Irq[e]))) - 1
<1>1. IsFiniteSet(On(S, Routed(Irq[e]))) BY OnFinite
<1>2. /\ On(S \ {e}, Routed(Irq[e])) = On(S, Routed(Irq[e])) \ {e}
      /\ e \in On(S, Routed(Irq[e]))
  BY DEF On
<1> QED BY <1>1, <1>2, FS_RemoveElement

(* What devices see of controllers q and b is the same, but for lines of A. *)
SameLevels(q, b, A) ==
    /\ q.s.icw3 \in {0, Cascade}
    /\ \A d \in {"m", "s"} : /\ q[d].lines = b[d].lines /\ q[d].elcr = b[d].elcr
                             /\ elcr_enabled => \A i \in b[d].elcr : <<d, i>> \notin A =>
                                                   (i \in q[d].irr <=> i \in b[d].irr)

LEMMA StillShows ==
  ASSUME NEW q, NEW b, NEW S, NEW A, SameLevels(q, b, A), Shows(b, S, A)
  PROVE  Shows(q, S, A)
<1>1. Strapped(q) BY DEF Shows, Strapped, SameLevels
<1>2. ASSUME NEW d \in {"m", "s"}, NEW i \in Line, <<d, i>> \notin A
      PROVE  q[d].lines[i] = Cardinality(On(S, <<d, i>>))
  BY <1>2 DEF Shows, SameLevels
<1>3. ASSUME elcr_enabled, NEW d \in {"m", "s"}, NEW i \in q[d].elcr, <<d, i>> \notin A
      PROVE  i \in q[d].irr <=> On(S, <<d, i>>) # {}
  <2>1. i \in b[d].elcr /\ (i \in q[d].irr <=> i \in b[d].irr) BY <1>3 DEF SameLevels
  <2> QED BY <1>3, <2>1 DEF Shows
<1> QED BY <1>1, <1>2, <1>3 DEF Shows

LEMMA ReplacedLevels ==
  ASSUME NEW q \in Controllers, NEW b \in Controllers, NEW d \in {"m", "s"},
         Replaced(q, b, d), b.s.icw3 \in {0, Cascade},
         d = "s" => q.s.icw3 \in {0, Cascade},
         q[d].lines = b[d].lines, q[d].elcr = b[d].elcr,
         NEW A,
         elcr_enabled => \A i \in b[d].elcr :
                            <<d, i>> \notin A => (i \in q[d].irr <=> i \in b[d].irr)
  PROVE  SameLevels(q, b, A)
<1>1. \A e \in {"m", "s"} : e # d => q[e] = b[e] BY DEF Replaced
<1>2. q.s.icw3 \in {0, Cascade} BY <1>1
<1> QED BY <1>1, <1>2 DEF SameLevels

LEMMA UpdateWired ==
  ASSUME EdgesApart, TypeOK, NEW q \in Controllers, Updated(pic', q),
         UNCHANGED machine, IsFiniteSet(irq_state'), Shows(q, irq_state', strayed')
  PROVE  Wired'
<1>1. /\ \A d \in {"m", "s"} : pic'[d].lines = q[d].lines /\ pic'[d].elcr = q[d].elcr
      /\ pic'.s.icw3 = q.s.icw3 /\ pic'.s.irr = q.s.irr
  BY DEF Updated, Kept, Rest, Programmed
<1>2. q.s.icw3 \in {0, Cascade} /\ q.m.elcr = Config[machine].elcr.m BY DEF Shows, Strapped
<1>3. elcr_enabled => q.s.icw3 \notin q.m.elcr
  BY <1>2 DEF EdgesApart, TypeOK, elcr_enabled
<1>4. elcr_enabled => \A i \in q.m.elcr : i \in pic'.m.irr <=> i \in q.m.irr
  BY <1>3 DEF Updated
<1>5. SameLevels(pic', q, strayed') BY <1>1, <1>2, <1>4 DEF SameLevels
<1>6. Shows(pic', irq_state', strayed') BY <1>5, StillShows
<1> QED BY <1>6 DEF Wired, Shows, Strapped, elcr_enabled, On, Routed

LEMMA SameWired ==
  ASSUME UNCHANGED <<machine, irq_state, strayed>>, Wired, SameLevels(pic', pic, strayed)
  PROVE  Wired'
<1>1. Shows(pic', irq_state, strayed) BY StillShows DEF Wired
<1> QED BY <1>1 DEF Wired, Shows, Strapped, elcr_enabled, On, Routed

LEMMA TargetRouted ==
  ASSUME Acking, NEW irq \in Inputs, Target(irq) # <<>>
  PROVE  /\ Target(irq) = irq \/ Target(irq) = Routed(irq)
         /\ AT /\ pic.m.icw3 = {Cascade} => Target(irq) = Routed(irq)
<1>1. irq = <<irq[1], irq[2]>> BY DEF Inputs
<1>2. pic.m.icw3 = {} \/ pic.m.icw3 = {Cascade} BY DEF Acking
<1>3. CASE irq[1] = "m" /\ irq[2] \in pic.m.icw3
  <2>1. irq = <<"m", Cascade>> BY <1>1, <1>2, <1>3
  <2> QED BY <1>3, <2>1 DEF Target, Routed
<1>4. CASE ~ (irq[1] = "m" /\ irq[2] \in pic.m.icw3)
  <2>1. Target(irq) = irq BY <1>4 DEF Target
  <2>2. pic.m.icw3 = {Cascade} => irq # <<"m", Cascade>> BY <1>4
  <2> QED BY <2>1, <2>2 DEF Routed
<1> QED BY <1>3, <1>4

LEMMA MovedShows ==
  ASSUME NEW S, NEW q \in Controllers, NEW t \in Inputs, NEW set \in BOOLEAN,
         NEW A, pic \in Controllers, Shows(pic, S, A), Moved(q, pic, t, set),
         elcr_enabled => t[2] \notin pic[t[1]].elcr
  PROVE  Shows(q, S, A)
<1>1. t[1] \in {"m", "s"} BY DEF Inputs
<1>2. /\ Replaced(q, pic, t[1])
      /\ q[t[1]].lines = pic[t[1]].lines /\ q[t[1]].elcr = pic[t[1]].elcr
      /\ q[t[1]].icw3 = pic[t[1]].icw3
  BY DEF Moved, Rest, Programmed
<1>3. elcr_enabled => \A i \in pic[t[1]].elcr : i \in q[t[1]].irr <=> i \in pic[t[1]].irr
  BY DEF Moved
<1>4. pic.s.icw3 \in {0, Cascade} BY DEF Shows, Strapped
<1>5. SameLevels(q, pic, A) BY <1>1, <1>2, <1>3, <1>4, ReplacedLevels
<1> QED BY <1>5, StillShows

(* The count of a shared line follows its devices, and its request the     *)
(* count: only the first device to assert it and the last to release it    *)
(* move it.                                                                *)
LEMMA LevelShows ==
  ASSUME pic \in Controllers, NEW S, IsFiniteSet(S), NEW A, Shows(pic, S, A),
         NEW e, NEW set \in BOOLEAN, NEW t \in Inputs, t = Routed(Irq[e]),
         NEW b \in Controllers, NEW q \in Controllers,
         Fits(IF set THEN S \cup {e} ELSE S \ {e}, t),
         IF (e \in S) # set THEN Counted(b, pic, t, IF set THEN 1 ELSE -1) ELSE b = pic,
         IF PassedOn(b[t[1]], t[2], (e \in S) # set, set) THEN Moved(q, b, t, set) ELSE q = b
  PROVE  Shows(q, IF set THEN S \cup {e} ELSE S \ {e}, A)
<1> DEFINE R == IF set THEN S \cup {e} ELSE S \ {e}
           d == t[1]
           i == t[2]
<1>1. t = <<d, i>> /\ d \in {"m", "s"} /\ i \in Line BY DEF Inputs
<1>2. /\ Replaced(b, pic, d) /\ b[d].elcr = pic[d].elcr /\ b[d].irr = pic[d].irr
      /\ b[d].icw3 = pic[d].icw3
  BY DEF Counted, Programmed, SameRegisters, Replaced
<1>3. /\ Replaced(q, b, d) /\ q[d].elcr = b[d].elcr /\ q[d].icw3 = b[d].icw3
      /\ q[d].lines = b[d].lines
  BY DEF Moved, Rest, Programmed, Replaced
<1>4. Strapped(q)
  <2>1. \A x \in {"m", "s"} : q[x].elcr = pic[x].elcr /\ q[x].icw3 = pic[x].icw3
    BY <1>1, <1>2, <1>3 DEF Replaced
  <2> QED BY <2>1 DEF Shows, Strapped
<1>5. ASSUME NEW x \in {"m", "s"}, NEW j, <<x, j>> # t
      PROVE  On(R, <<x, j>>) = On(S, <<x, j>>)
  <2>1. R = S \cup {e} \/ R = S \ {e} OBVIOUS
  <2> HIDE DEF R
  <2> QED BY <1>5, <2>1 DEF On
<1>6. \A x \in {"m", "s"} : x # d => q[x] = pic[x] BY <1>2, <1>3 DEF Replaced
<1>7. /\ pic[d].lines \in [Line -> 0 .. Wrap - 1]
      /\ t \notin A => pic[d].lines[i] = Cardinality(On(S, t))
  <2>1. pic[d] \in Kind(d) BY <1>1, ChipKind
  <2> QED BY <1>1, <2>1 DEF Shows, Kind, Chip
<1>8. /\ t \notin A => b[d].lines[i] = Cardinality(On(R, t))
      /\ \A j \in Line \ {i} : b[d].lines[j] = pic[d].lines[j]
  <2>4. IsFiniteSet(R) BY FS_AddElement, FS_RemoveElement
  <2>5. Cardinality(On(R, t)) \in Nat BY <2>4, OnFinite
  <2>6. Cardinality(On(R, t)) % Wrap = Cardinality(On(R, t)) BY <2>5, WrapAssumption DEF Fits
  <2>1. CASE set /\ e \notin S
    <3>1. b[d].lines = [pic[d].lines EXCEPT ![i] = (@ + 1) % Wrap] BY <2>1 DEF Counted
    <3>2. /\ On(S \cup {e}, t) # {}
          /\ Cardinality(On(S \cup {e}, t)) = Cardinality(On(S, t)) + 1
      BY <2>1, OnMore
    <3>3. R = S \cup {e} BY <2>1
    <3> HIDE DEF R
    <3>4. b[d].lines[i] = (pic[d].lines[i] + 1) % Wrap
      BY ONLY <1>1, <1>7, <3>1
    <3>5. \A j \in Line \ {i} : b[d].lines[j] = pic[d].lines[j]
      BY ONLY <1>1, <1>7, <3>1
    <3> QED BY ONLY <1>7, <2>6, <3>2, <3>3, <3>4, <3>5
  <2>2. CASE ~ set /\ e \in S
    <3>1. b[d].lines = [pic[d].lines EXCEPT ![i] = (@ + (-1)) % Wrap] BY <2>2 DEF Counted
    <3>2. Cardinality(On(S \ {e}, t)) = Cardinality(On(S, t)) - 1
      BY <2>2, OnLess
    <3>3. Cardinality(On(S, t)) \in Int BY OnFinite
    <3>4. R = S \ {e} BY <2>2
    <3> HIDE DEF R
    <3>5. b[d].lines[i] = (pic[d].lines[i] + (-1)) % Wrap
      BY ONLY <1>1, <1>7, <3>1
    <3>6. \A j \in Line \ {i} : b[d].lines[j] = pic[d].lines[j]
      BY ONLY <1>1, <1>7, <3>1
    <3>7. t \notin A => pic[d].lines[i] + (-1) = Cardinality(On(R, t))
      BY ONLY <1>7, <3>2, <3>3, <3>4
    <3> QED BY ONLY <2>6, <3>5, <3>6, <3>7
  <2>3. CASE (e \in S) = set
    <3>1. R = S /\ b = pic BY <2>3
    <3> QED BY <1>7, <3>1
  <2> QED BY <2>1, <2>2, <2>3
<1>9. ASSUME NEW x \in {"m", "s"}, NEW j \in Line, <<x, j>> \notin A
      PROVE  q[x].lines[j] = Cardinality(On(R, <<x, j>>))
  <2>4. <<x, j>> # t => pic[x].lines[j] = Cardinality(On(R, <<x, j>>))
    BY <1>5, <1>9 DEF Shows
  <2> HIDE DEF R, d, i
  <2>1. CASE <<x, j>> = t BY <1>1, <1>3, <1>8, <1>9, <2>1
  <2>2. CASE x = d /\ j # i
    <3>1. q[x].lines[j] = pic[x].lines[j] BY <1>3, <1>8, <1>9, <2>2
    <3>2. <<x, j>> # t BY <1>1, <2>2
    <3> QED BY <1>9, <2>4, <3>1, <3>2
  <2>3. CASE x # d
    <3>1. <<x, j>> # t BY <1>1, <2>3
    <3>2. q[x].lines[j] = pic[x].lines[j] BY <1>6, <2>3
    <3> QED BY <1>9, <2>4, <3>1, <3>2
  <2> QED BY <1>1, <2>1, <2>2, <2>3
<1>10. ASSUME elcr_enabled, i \in q[d].elcr, t \notin A
       PROVE  i \in q[d].irr <=> On(R, t) # {}
  <2>1. pic[d].irr = b[d].irr /\ (i \in pic[d].irr <=> On(S, t) # {})
    BY <1>1, <1>2, <1>3, <1>10 DEF Shows
  <2>2. pic_level_triggered(b[d], i, elcr_enabled) BY <1>3, <1>10 DEF pic_level_triggered
  <2>3. CASE (e \in S) = set
    <3>1. R = S BY <2>3
    <3>2. q = b BY <2>2, <2>3 DEF PassedOn
    <3> QED BY <2>1, <3>1, <3>2
  <2>4. CASE set /\ e \notin S
    <3>1. On(R, t) # {} /\ Cardinality(On(R, t)) = Cardinality(On(S, t)) + 1
      <4>1. R = S \cup {e} BY <2>4
      <4> HIDE DEF R
      <4> QED BY <4>1, <2>4, OnMore
    <3>2. CASE b[d].lines[i] = 1
      <4>1. PassedOn(b[d], i, (e \in S) # set, set) BY <2>4, <3>2 DEF PassedOn
      <4>2. i \in q[d].irr BY <2>4, <4>1 DEF Moved
      <4> QED BY <3>1, <4>2
    <3>3. CASE b[d].lines[i] # 1
      <4>1. q = b BY <2>2, <2>4, <3>3 DEF PassedOn
      <4>2. Cardinality(On(S, t)) # 0 BY <1>8, <1>10, <3>1, <3>3
      <4>3. On(S, t) # {} BY <4>2, OnFinite
      <4> QED BY <2>1, <3>1, <4>1, <4>3
    <3> QED BY <3>2, <3>3
  <2>5. CASE ~ set /\ e \in S
    <3>1. IsFiniteSet(R) BY <2>5, FS_RemoveElement
    <3>2. On(S, t) # {} BY <2>5, OnLess
    <3>3. CASE b[d].lines[i] = 0
      <4>1. PassedOn(b[d], i, (e \in S) # set, set) BY <2>5, <3>3 DEF PassedOn
      <4>2. i \notin q[d].irr BY <2>5, <4>1 DEF Moved
      <4>3. On(R, t) = {} BY <1>8, <1>10, <3>1, <3>3, OnFinite
      <4> QED BY <4>2, <4>3
    <3>4. CASE b[d].lines[i] # 0
      <4>1. q = b BY <2>2, <2>5, <3>4 DEF PassedOn
      <4>2. Cardinality(On(R, t)) # 0 BY <1>8, <1>10, <3>4
      <4>3. On(R, t) # {} BY <3>1, <4>2, OnFinite
      <4> QED BY <2>1, <3>2, <4>1, <4>3
    <3> QED BY <3>3, <3>4
  <2> QED BY <2>3, <2>4, <2>5
<1>11. ASSUME elcr_enabled, NEW x \in {"m", "s"}, NEW j \in q[x].elcr, <<x, j>> \notin A
       PROVE  j \in q[x].irr <=> On(R, <<x, j>>) # {}
  <2>4. <<x, j>> # t /\ j \in pic[x].elcr => (j \in pic[x].irr <=> On(R, <<x, j>>) # {})
    BY <1>5, <1>11 DEF Shows
  <2> HIDE DEF R, d, i
  <2>1. CASE x = d /\ j = i BY <1>1, <1>10, <1>11, <2>1
  <2>2. CASE x = d /\ j # i
    <3>1. j \in q[x].irr <=> j \in pic[x].irr BY <1>2, <2>2 DEF Moved, d, i
    <3>2. j \in pic[x].elcr BY <1>2, <1>3, <1>11, <2>2
    <3>3. <<x, j>> # t BY <1>1, <2>2
    <3> QED BY <2>4, <3>1, <3>2, <3>3
  <2>3. CASE x # d
    <3>1. <<x, j>> # t BY <1>1, <2>3
    <3> QED BY <1>6, <1>11, <2>3, <2>4, <3>1
  <2> QED BY <2>1, <2>2, <2>3
<1> QED BY <1>4, <1>9, <1>11 DEF Shows

(* A change that goes astray touches no line but the one it belongs to and *)
(* the one it reaches.                                                     *)
LEMMA LevelStrays ==
  ASSUME pic \in Controllers, NEW S, NEW A, Shows(pic, S, A), NEW e, NEW set \in BOOLEAN,
         NEW t \in Inputs, NEW b \in Controllers, NEW q \in Controllers,
         Counted(b, pic, t, IF set THEN 1 ELSE -1) \/ b = pic,
         Moved(q, b, t, set) \/ q = b
  PROVE  Shows(q, IF set THEN S \cup {e} ELSE S \ {e}, A \cup {Routed(Irq[e]), t})
<1> DEFINE R == IF set THEN S \cup {e} ELSE S \ {e}
           B == A \cup {Routed(Irq[e]), t}
           d == t[1]
           i == t[2]
           n == IF set THEN 1 ELSE -1
<1>1. t = <<d, i>> /\ d \in {"m", "s"} /\ i \in Line BY DEF Inputs
<1>2. /\ Replaced(b, pic, d) /\ b[d].elcr = pic[d].elcr /\ b[d].irr = pic[d].irr
      /\ b[d].icw3 = pic[d].icw3
      /\ b[d].lines = pic[d].lines \/ b[d].lines = [pic[d].lines EXCEPT ![i] = (@ + n) % Wrap]
  BY DEF Counted, Programmed, SameRegisters, Replaced
<1>3. /\ Replaced(q, b, d) /\ q[d].elcr = b[d].elcr /\ q[d].icw3 = b[d].icw3
      /\ q[d].lines = b[d].lines
      /\ \A j \in Line \ {i} : j \in q[d].irr <=> j \in b[d].irr
  BY DEF Moved, Rest, Programmed, Replaced
<1>4. \A x \in {"m", "s"} : x # d => q[x] = pic[x] BY <1>2, <1>3 DEF Replaced
<1>5. \A x \in {"m", "s"} : q[x].elcr = pic[x].elcr /\ q[x].icw3 = pic[x].icw3
  BY <1>1, <1>2, <1>3, <1>4
<1>6. Strapped(q) BY <1>5 DEF Shows, Strapped
<1>7. \A x \in {"m", "s"} : pic[x].elcr \subseteq Line /\ pic[x].lines \in [Line -> 0 .. Wrap - 1]
  BY ChipKind DEF Kind, Chip
<1>8. ASSUME NEW x \in {"m", "s"}, NEW j \in Line, <<x, j>> \notin B
      PROVE  /\ On(R, <<x, j>>) = On(S, <<x, j>>) /\ <<x, j>> \notin A
             /\ q[x].lines[j] = pic[x].lines[j]
             /\ j \in q[x].irr <=> j \in pic[x].irr
  <2>1. <<x, j>> # Routed(Irq[e]) /\ <<x, j>> # t /\ <<x, j>> \notin A BY <1>8
  <2>2. R = S \cup {e} \/ R = S \ {e} OBVIOUS
  <2> HIDE DEF R, B, n, d, i
  <2>3. On(R, <<x, j>>) = On(S, <<x, j>>) BY <2>1, <2>2 DEF On
  <2>4. CASE x = d
    <3>1. j # i BY <1>1, <2>1, <2>4
    <3>2. b[d].lines[j] = pic[d].lines[j] BY <1>1, <1>2, <1>7, <3>1
    <3> QED BY <1>2, <1>3, <2>1, <2>3, <2>4, <3>1, <3>2
  <2>5. CASE x # d BY <1>4, <2>1, <2>3, <2>5
  <2> QED BY <2>4, <2>5
<1> HIDE DEF R, B
<1>9. \A x \in {"m", "s"}, j \in Line :
         <<x, j>> \notin B => q[x].lines[j] = Cardinality(On(R, <<x, j>>))
  BY <1>8 DEF Shows
<1>10. elcr_enabled => \A x \in {"m", "s"} : \A j \in q[x].elcr :
          <<x, j>> \notin B => (j \in q[x].irr <=> On(R, <<x, j>>) # {})
  <2> SUFFICES ASSUME elcr_enabled, NEW x \in {"m", "s"}, NEW j \in q[x].elcr, <<x, j>> \notin B
               PROVE  j \in q[x].irr <=> On(R, <<x, j>>) # {}
    OBVIOUS
  <2>1. j \in Line /\ j \in pic[x].elcr BY <1>5, <1>7
  <2>2. /\ On(R, <<x, j>>) = On(S, <<x, j>>) /\ <<x, j>> \notin A
        /\ j \in q[x].irr <=> j \in pic[x].irr
    BY <1>8, <2>1
  <2> QED BY <2>1, <2>2 DEF Shows
<1> QED BY <1>6, <1>9, <1>10 DEF Shows, R, B

LEMMA DeviceWired ==
  ASSUME EdgesApart, TypeOK, Acking, Wired, Device \/ \E t \in Latches : pic_latch_read(t)
  PROVE  Wired'
<1>1. pic \in Controllers BY DEF TypeOK, Controllers
<1>2. IsFiniteSet(irq_state) /\ Shows(pic, irq_state, strayed) BY DEF Wired
<1>3. /\ pic.m.elcr = Config[machine].elcr.m /\ pic.s.elcr = Config[machine].elcr.s
  BY <1>2 DEF Shows, Strapped
<1>4. ASSUME NEW e \in Edge, NEW set \in BOOLEAN, picint(e, set)
      PROVE  Wired'
  <2> DEFINE t == Target(Irq[e])
  <2>1. PICK q \in Controllers : t \in Inputs /\ Moved(q, pic, t, set) /\ Updated(pic', q)
    BY <1>4, PicintDoes
  <2>2. UNCHANGED <<machine, irq_state, strayed>> BY <1>4 DEF picint, history
  <2>3. Irq[e] \in Inputs BY Configured, PicAssumption DEF TypeOK, Inputs
  <2>4. t # <<>> BY <1>4 DEF picint
  <2>5. t = Irq[e] \/ t = Routed(Irq[e]) BY <2>3, <2>4, TargetRouted
  <2>6. elcr_enabled => t[2] \notin pic[t[1]].elcr
    <3>1. SUFFICES ASSUME elcr_enabled PROVE t[2] \notin pic[t[1]].elcr OBVIOUS
    <3>2. t[2] \notin Config[machine].elcr[t[1]]
      BY <2>5, <3>1 DEF EdgesApart, TypeOK, elcr_enabled, Edge
    <3>3. t[1] \in {"m", "s"} BY <2>1 DEF Inputs
    <3> HIDE DEF t
    <3> QED BY <1>3, <3>2, <3>3
  <2> HIDE DEF t
  <2>7. Shows(q, irq_state, strayed) BY <1>1, <1>2, <2>1, <2>6, MovedShows
  <2> QED BY <1>2, <2>1, <2>2, <2>7, UpdateWired
<1>5. ASSUME NEW t \in Latches, pic_latch_read(t)
      PROVE  Wired'
  <2>1. PICK q \in Controllers : t \in Inputs /\ Moved(q, pic, t, FALSE) /\ Updated(pic', q)
    BY <1>5, LatchReadDoes
  <2>2. UNCHANGED <<machine, irq_state, strayed>> BY <1>5 DEF pic_latch_read, history
  <2>3. elcr_enabled => t[2] \notin pic[t[1]].elcr
    <3>1. elcr_enabled => t[2] \notin Config[machine].elcr[t[1]]
      BY DEF EdgesApart, TypeOK, elcr_enabled, Latches
    <3>2. t[1] \in {"m", "s"} BY <2>1 DEF Inputs
    <3> QED BY <1>3, <3>1, <3>2
  <2>4. Shows(q, irq_state, strayed) BY <1>1, <1>2, <2>1, <2>3, MovedShows
  <2> QED BY <1>2, <2>1, <2>2, <2>4, UpdateWired
<1>6. ASSUME NEW e \in Level, NEW set \in BOOLEAN, picintlevel(e, set)
      PROVE  Wired'
  <2> DEFINE t == Target(Irq[e])
             changed == (e \in irq_state) # set
  <2>1. PICK b \in Controllers :
          /\ t \in Inputs
          /\ IF changed /\ Reached(t) THEN Counted(b, pic, t, IF set THEN 1 ELSE -1)
                                      ELSE b = pic
          /\ IF Reached(t) /\ PassedOn(b[t[1]], t[2], changed, set)
             THEN \E q \in Controllers : Moved(q, b, t, set) /\ Updated(pic', q)
             ELSE pic' = b
    BY <1>6, PicintlevelDoes
  <2>2. /\ UNCHANGED machine /\ t # <<>>
        /\ irq_state' = IF set THEN irq_state \cup {e} ELSE irq_state \ {e}
        /\ strayed' = Stray(Irq[e], t, changed)
    BY <1>6 DEF picintlevel
  <2>3. AT BY DEF EdgesApart, TypeOK, AT, Level
  <2>4. Irq[e] \in Inputs BY Configured, PicAssumption DEF TypeOK, Inputs
  <2>5. t = Irq[e] \/ t = Routed(Irq[e]) BY <2>2, <2>4, TargetRouted
  <2>6. Home(Irq[e]) = Routed(Irq[e]) BY <2>3 DEF Home, Routed
  <2>7. IsFiniteSet(irq_state') BY <1>2, <2>2, FS_AddElement, FS_RemoveElement
  <2>8. Fits(irq_state', t)
    <3>1. irq_state \subseteq Level BY DEF TypeOK
    <3>2. On(irq_state', t) \subseteq Level BY <2>2, <3>1 DEF On
    <3>3. IsFiniteSet(Level) /\ Cardinality(Level) < Wrap
      BY PicAssumption DEF TypeOK, Level
    <3>4. /\ Cardinality(On(irq_state', t)) <= Cardinality(Level)
          /\ IsFiniteSet(On(irq_state', t))
      BY <3>2, <3>3, FS_Subset
    <3>5. Cardinality(On(irq_state', t)) \in Nat /\ Cardinality(Level) \in Nat
      BY <3>3, <3>4, FS_CardinalityType
    <3> QED BY <3>3, <3>4, <3>5, WrapAssumption DEF Fits
  <2>9. Shows(pic', irq_state', strayed') \/
        \E q \in Controllers : Updated(pic', q) /\ Shows(q, irq_state', strayed')
    <3> HIDE DEF t, changed
    <3>1. CASE t = Home(Irq[e]) /\ Reached(t)
      <4>1. strayed' = strayed BY <2>2, <3>1 DEF Stray
      <4>2. CASE PassedOn(b[t[1]], t[2], changed, set)
        <5>1. PICK q \in Controllers : Moved(q, b, t, set) /\ Updated(pic', q)
          BY <2>1, <3>1, <4>2
        <5>2. Shows(q, irq_state', strayed')
          BY <1>1, <1>2, <2>1, <2>2, <2>6, <2>8, <3>1, <4>1, <4>2, <5>1, LevelShows DEF changed
        <5> QED BY <5>1, <5>2
      <4>3. CASE ~ PassedOn(b[t[1]], t[2], changed, set)
        <5>1. pic' = b BY <2>1, <3>1, <4>3
        <5>2. Shows(b, irq_state', strayed')
          BY <1>1, <1>2, <2>1, <2>2, <2>6, <2>8, <3>1, <4>1, <4>3, LevelShows DEF changed
        <5> QED BY <5>1, <5>2
      <4> QED BY <4>2, <4>3
    <3>2. CASE ~ (t = Home(Irq[e]) /\ Reached(t)) /\ changed
      <4>1. strayed' = strayed \cup {Routed(Irq[e]), t} BY <2>2, <2>6, <3>2 DEF Stray
      <4>2. Counted(b, pic, t, IF set THEN 1 ELSE -1) \/ b = pic BY <2>1
      <4>3. CASE Reached(t) /\ PassedOn(b[t[1]], t[2], changed, set)
        <5>1. PICK q \in Controllers : Moved(q, b, t, set) /\ Updated(pic', q)
          BY <2>1, <4>3
        <5>2. Shows(q, irq_state', strayed')
          <6>1. Shows(q, IF set THEN irq_state \cup {e} ELSE irq_state \ {e},
                      strayed \cup {Routed(Irq[e]), t})
            BY <1>1, <1>2, <2>1, <4>2, <5>1, LevelStrays
          <6> QED BY <2>2, <4>1, <6>1
        <5> QED BY <5>1, <5>2
      <4>4. CASE ~ (Reached(t) /\ PassedOn(b[t[1]], t[2], changed, set))
        <5>1. pic' = b BY <2>1, <4>4
        <5>2. Shows(b, irq_state', strayed')
          <6>1. Shows(b, IF set THEN irq_state \cup {e} ELSE irq_state \ {e},
                      strayed \cup {Routed(Irq[e]), t})
            BY <1>1, <1>2, <2>1, <4>2, LevelStrays
          <6> QED BY <2>2, <4>1, <6>1
        <5> QED BY <5>1, <5>2
      <4> QED BY <4>3, <4>4
    <3>3. CASE ~ (t = Home(Irq[e]) /\ Reached(t)) /\ ~ changed
      <4>1. strayed' = strayed BY <2>2, <3>3 DEF Stray
      <4>2. irq_state' = irq_state BY <2>2, <3>3 DEF changed
      <4>3. b = pic BY <2>1, <3>3
      <4>4. CASE Reached(t) /\ PassedOn(b[t[1]], t[2], changed, set)
        <5>1. PICK q \in Controllers : Moved(q, pic, t, set) /\ Updated(pic', q)
          BY <2>1, <4>3, <4>4
        <5>2. elcr_enabled => t[2] \notin pic[t[1]].elcr
          BY <3>3, <4>3, <4>4 DEF PassedOn, pic_level_triggered
        <5>3. Shows(q, irq_state, strayed) BY <1>1, <1>2, <2>1, <5>1, <5>2, MovedShows
        <5> QED BY <4>1, <4>2, <5>1, <5>3
      <4>5. CASE ~ (Reached(t) /\ PassedOn(b[t[1]], t[2], changed, set))
        <5>1. pic' = pic BY <2>1, <4>3, <4>5
        <5> QED BY <1>2, <4>1, <4>2, <5>1
      <4> QED BY <4>4, <4>5
    <3> QED BY <3>1, <3>2, <3>3
  <2>10. CASE Shows(pic', irq_state', strayed')
    BY <2>2, <2>7, <2>10 DEF Wired, Shows, Strapped, elcr_enabled, On, Routed
  <2>11. ASSUME NEW q \in Controllers, Updated(pic', q), Shows(q, irq_state', strayed')
         PROVE  Wired'
    BY <2>2, <2>7, <2>11, UpdateWired
  <2> QED BY <2>9, <2>10, <2>11
<1> QED BY <1>4, <1>5, <1>6 DEF Device

(* An acknowledge drops the request of a level-triggered line only when no *)
(* device asserts it, and then there was none.                             *)
LEMMA ServicedLevels ==
  ASSUME NEW x, NEW c, NEW d \in {"m", "s"}, IsFiniteSet(irq_state), Shows(pic, irq_state, strayed),
         Serviced(x, c), c.irr = pic[d].irr, c.elcr = pic[d].elcr, c.lines = pic[d].lines,
         c.interrupt.line \in Line
  PROVE  elcr_enabled => \A i \in c.elcr :
                            <<d, i>> \notin strayed => (i \in x.irr <=> i \in pic[d].irr)
<1> SUFFICES ASSUME elcr_enabled, NEW i \in c.elcr, <<d, i>> \notin strayed
             PROVE  i \in x.irr <=> i \in pic[d].irr
  OBVIOUS
<1>1. CASE i # c.interrupt.line BY <1>1 DEF Serviced
<1>2. CASE i = c.interrupt.line
  <2>1. pic_level_triggered(c, i, elcr_enabled) BY DEF pic_level_triggered
  <2>2. CASE c.lines[i] # 0 BY <1>2, <2>1, <2>2 DEF Serviced
  <2>3. CASE c.lines[i] = 0
    <3>1. pic[d].lines[i] = Cardinality(On(irq_state, <<d, i>>)) BY <1>2 DEF Shows
    <3>2. On(irq_state, <<d, i>>) = {} BY <2>3, <3>1, OnFinite
    <3>3. i \notin pic[d].irr BY <3>2 DEF Shows
    <3> QED BY <1>2, <2>3, <3>3 DEF Serviced
  <2> QED BY <2>2, <2>3
<1> QED BY <1>1, <1>2

LEMMA GuestWired ==
  ASSUME EdgesApart, TypeOK, Wired, NEW d \in Chips, Guest(d)
  PROVE  Wired'
<1>1. pic \in Controllers BY DEF TypeOK, Controllers
<1>2. d \in {"m", "s"} BY Configured DEF TypeOK
<1>3. UNCHANGED <<machine, irq_state, strayed>>
  BY DEF Guest, WriteIcw1, WriteIcw, WriteOcw1, WriteOcw2, WriteOcw3, ReadPoll, history
<1>4. IsFiniteSet(irq_state) /\ Shows(pic, irq_state, strayed) /\ pic.s.icw3 \in {0, Cascade}
  BY DEF Wired, Shows, Strapped
<1>5. ASSUME NEW q \in Controllers, Replaced(q, pic, d), Updated(pic', q) \/ pic' = q,
             q[d].lines = pic[d].lines, q[d].elcr = pic[d].elcr,
             q[d].icw3 = pic[d].icw3 \/ q[d].icw3 = NoIcw3(d) \/ q[d].icw3 = Icw3(d),
             elcr_enabled => \A i \in pic[d].elcr :
                <<d, i>> \notin strayed => (i \in q[d].irr <=> i \in pic[d].irr)
      PROVE  Wired'
  <2>1. d = "s" => q.s.icw3 \in {0, Cascade} BY <1>4, <1>5 DEF NoIcw3, Icw3
  <2>2. SameLevels(q, pic, strayed) BY <1>1, <1>2, <1>4, <1>5, <2>1, ReplacedLevels
  <2>3. Shows(q, irq_state, strayed) BY <1>4, <2>2, StillShows
  <2>4. CASE Updated(pic', q) BY <1>3, <1>4, <2>3, <2>4, UpdateWired
  <2>5. CASE pic' = q BY <1>3, <2>2, <2>5, SameWired
  <2> QED BY <1>5, <2>4, <2>5
<1>6. ASSUME NEW word \in Config[machine].icw1s, WriteIcw1(d, word)
      PROVE  Wired'
  <2>1. PICK q \in Controllers : Begun(q, d, word) /\ Updated(pic', q)
    BY <1>6, WriteIcw1Does
  <2>2. /\ Replaced(q, pic, d) /\ q[d].lines = pic[d].lines /\ q[d].elcr = pic[d].elcr
        /\ q[d].icw3 = NoIcw3(d) /\ q[d].irr = {i \in Line : pic[d].lines[i] # 0}
    BY <2>1 DEF Begun, Begins
  <2>3. pic[d].elcr \in SUBSET Line
    <3>1. pic[d] \in Kind(d) BY <1>1, <1>2, ChipKind
    <3> QED BY <3>1 DEF Kind, Chip
  <2>4. ASSUME elcr_enabled, NEW i \in pic[d].elcr, <<d, i>> \notin strayed
        PROVE  i \in q[d].irr <=> i \in pic[d].irr
    <3>1. i \in q[d].irr <=> pic[d].lines[i] # 0 BY <2>2, <2>3
    <3>2. pic[d].lines[i] = Cardinality(On(irq_state, <<d, i>>)) BY <1>2, <1>4, <2>3, <2>4 DEF Shows
    <3>3. i \in pic[d].irr <=> On(irq_state, <<d, i>>) # {} BY <1>2, <1>4, <2>4 DEF Shows
    <3> QED BY <1>4, <3>1, <3>2, <3>3, OnFinite
  <2> QED BY <1>5, <2>1, <2>2, <2>4
<1>7. CASE WriteIcw(d)
  <2>1. Continued(d) BY <1>7, WriteIcwDoes
  <2>2. /\ Replaced(pic', pic, d) /\ pic'[d].irr = pic[d].irr
        /\ pic'[d].lines = pic[d].lines /\ pic'[d].elcr = pic[d].elcr
        /\ pic'[d].icw3 = pic[d].icw3 \/ pic'[d].icw3 = Icw3(d)
    BY <2>1 DEF Continued, SameRegisters
  <2>3. pic' \in Controllers BY <2>2 DEF Replaced
  <2> QED BY <1>5, <2>2, <2>3
<1>8. ASSUME NEW mask \in Config[machine].masks, WriteOcw1(d, mask)
      PROVE  Wired'
  <2>1. PICK q \in Controllers : /\ MaskIs(q, d, mask)
                                 /\ IF Is286 THEN Updated(pic', q) ELSE pic' = q
    BY <1>8, WriteOcw1Does
  <2>2. /\ Replaced(q, pic, d) /\ q[d].irr = pic[d].irr
        /\ q[d].lines = pic[d].lines /\ q[d].elcr = pic[d].elcr /\ q[d].icw3 = pic[d].icw3
    BY <2>1 DEF MaskIs, Rest, Programmed
  <2> QED BY <1>5, <2>1, <2>2
<1>9. ASSUME NEW word \in Config[machine].commands, WriteOcw2(d, word)
      PROVE  Wired'
  <2> DEFINE i == CommandLine(d, word)
  <2>1. IF word.sl \/ word.eoi
        THEN IF i = NoLine THEN pic' = pic
             ELSE \E q \in Controllers : /\ EndedAt(q, pic, d, i, word.eoi, word.rotate)
                                         /\ Updated(pic', q)
        ELSE RotationIs(d, word.rotate)
    BY <1>9, WriteOcw2Does
  <2> HIDE DEF i
  <2>2. CASE pic' = pic
    <3>1. Replaced(pic, pic, d) BY <1>1 DEF Replaced
    <3> QED BY <1>1, <1>5, <2>2, <3>1
  <2>3. ASSUME NEW q \in Controllers, EndedAt(q, pic, d, i, word.eoi, word.rotate),
               Updated(pic', q)
        PROVE  Wired'
    <3>1. /\ Replaced(q, pic, d) /\ q[d].irr = pic[d].irr
          /\ q[d].lines = pic[d].lines /\ q[d].elcr = pic[d].elcr /\ q[d].icw3 = pic[d].icw3
      BY <2>3 DEF EndedAt, EndedTo, Rest, Programmed
    <3> QED BY <1>5, <2>3, <3>1
  <2>4. CASE RotationIs(d, word.rotate)
    <3>1. /\ Replaced(pic', pic, d) /\ pic'[d].irr = pic[d].irr
          /\ pic'[d].lines = pic[d].lines /\ pic'[d].elcr = pic[d].elcr
          /\ pic'[d].icw3 = pic[d].icw3
      BY <2>4 DEF RotationIs, Programmed, SameRegisters
    <3>2. pic' \in Controllers BY <3>1 DEF Replaced
    <3> QED BY <1>5, <3>1, <3>2
  <2> QED BY <2>1, <2>2, <2>3, <2>4
<1>10. ASSUME NEW o \in Config[machine].ocw3s, WriteOcw3(d, o[2])
       PROVE  Wired'
  <2>1. Commanded(d, o[2]) BY <1>10, WriteOcw3Does
  <2>2. /\ Replaced(pic', pic, d) /\ pic'[d].irr = pic[d].irr
        /\ pic'[d].lines = pic[d].lines /\ pic'[d].elcr = pic[d].elcr
        /\ pic'[d].icw3 = pic[d].icw3
    BY <2>1 DEF Commanded, Programmed, SameRegisters
  <2>3. pic' \in Controllers BY <2>2 DEF Replaced
  <2> QED BY <1>5, <2>2, <2>3
<1>11. CASE ReadPoll(d)
  <2>1. PICK q \in Controllers : /\ Polled(q, d)
                                 /\ IF pic[d].int_pending THEN Updated(pic', q) ELSE pic' = q
    BY <1>11, ReadPollDoes
  <2>2. /\ Replaced(q, pic, d)
        /\ q[d].lines = pic[d].lines /\ q[d].elcr = pic[d].elcr /\ q[d].icw3 = pic[d].icw3
    BY <2>1 DEF Polled, Programmed
  <2>3. elcr_enabled => \A i \in pic[d].elcr :
           <<d, i>> \notin strayed => (i \in q[d].irr <=> i \in pic[d].irr)
    <3>1. CASE pic[d].int_pending
      <4>1. Serviced(q[d], pic[d]) BY <2>1, <3>1 DEF Polled
      <4>2. pic[d].interrupt.line \in Line
        <5>1. pic[d] \in Kind(d) BY <1>1, <1>2, ChipKind
        <5> QED BY <5>1 DEF Kind, Chip
      <4> QED BY <1>2, <1>4, <4>1, <4>2, ServicedLevels
    <3>2. CASE ~ pic[d].int_pending BY <2>1, <3>2 DEF Polled, SameRegisters
    <3> QED BY <3>1, <3>2
  <2> QED BY <1>5, <2>1, <2>2, <2>3
<1> QED BY <1>6, <1>7, <1>8, <1>9, <1>10, <1>11 DEF Guest

LEMMA FirstAckLevels ==
  ASSUME Wired, NEW p \in Controllers, NEW u \in Controllers, NEW slave, NEW spurious,
         Asked(p, slave, spurious), FirstAcked(u, p)
  PROVE  SameLevels(u, pic, strayed)
<1>1. IsFiniteSet(irq_state) /\ Shows(pic, irq_state, strayed) /\ pic.s.icw3 \in {0, Cascade}
  BY DEF Wired, Shows, Strapped
<1>2. \A d \in {"m", "s"} : /\ p[d].irr = pic[d].irr /\ p[d].lines = pic[d].lines
                            /\ p[d].elcr = pic[d].elcr /\ p[d].icw3 = pic[d].icw3
  BY DEF Asked, Rest, Programmed, SameRegisters
<1>3. \A d \in {"m", "s"} : /\ u[d].lines = p[d].lines /\ u[d].elcr = p[d].elcr
                            /\ u[d].icw3 = p[d].icw3
  BY DEF FirstAcked, Rest, Programmed
<1>4. p.m.interrupt.line \in Line /\ p.s.interrupt.line \in Line BY DEF Controllers, Chip
<1>5. elcr_enabled => \A i \in p.m.elcr :
         <<"m", i>> \notin strayed => (i \in u.m.irr <=> i \in pic.m.irr)
  <2>1. Serviced(u.m, p.m) BY DEF FirstAcked
  <2>2. /\ p["m"].irr = pic["m"].irr /\ p["m"].elcr = pic["m"].elcr
        /\ p["m"].lines = pic["m"].lines
    BY <1>2
  <2> QED BY <1>1, <1>4, <2>1, <2>2, ServicedLevels
<1>6. elcr_enabled => \A i \in p.s.elcr :
         <<"s", i>> \notin strayed => (i \in u.s.irr <=> i \in pic.s.irr)
  <2>1. /\ p["s"].irr = pic["s"].irr /\ p["s"].elcr = pic["s"].elcr
        /\ p["s"].lines = pic["s"].lines
    BY <1>2
  <2>2. CASE u.s = p.s BY <2>1, <2>2
  <2>3. CASE Serviced(u.s, p.s) BY <1>1, <1>4, <2>1, <2>3, ServicedLevels
  <2> QED BY <2>2, <2>3 DEF FirstAcked
<1> QED BY <1>1, <1>2, <1>3, <1>5, <1>6 DEF SameLevels

LEMMA ThawLevels ==
  ASSUME NEW u \in Controllers, NEW q \in Controllers, NEW A, Thawed(q, u),
         u.s.icw3 \in {0, Cascade}
  PROVE  SameLevels(q, u, A)
<1>1. \A d \in {"m", "s"} : q[d].irr = u[d].irr BY ThawKeeps
<1>2. \A d \in {"m", "s"} : /\ q[d].lines = u[d].lines /\ q[d].elcr = u[d].elcr
                            /\ q[d].icw3 = u[d].icw3
  BY DEF Thawed, Rest, Programmed
<1> QED BY <1>1, <1>2 DEF SameLevels

LEMMA CpuWired ==
  ASSUME EdgesApart, TypeOK, Acking, Wired,
         picinterrupt \/ check_interrupts \/ pic_irq_ack \/ IrqAckSecond
  PROVE  Wired'
<1>1. pic \in Controllers BY DEF TypeOK, Controllers
<1>2. UNCHANGED <<machine, irq_state, strayed>>
  BY DEF picinterrupt, check_interrupts, pic_irq_ack, IrqAckSecond, history
<1>3. IsFiniteSet(irq_state) /\ Shows(pic, irq_state, strayed) /\ pic.s.icw3 \in {0, Cascade}
  BY DEF Wired, Shows, Strapped
<1>4. CASE picinterrupt
  <2>1. PICK p \in Controllers, u \in Controllers, q \in Controllers :
            /\ Asked(p, pic_slave_on(pic.m) /\ pic.s.int_pending,
                        pic_slave_on(pic.m) /\ ~ pic.s.int_pending)
            /\ FirstAcked(u, p) /\ Thawed(q, u) /\ Updated(pic', q)
    BY <1>4, PicinterruptDoes
  <2>2. SameLevels(u, pic, strayed) BY <2>1, FirstAckLevels
  <2>3. Shows(u, irq_state, strayed) /\ u.s.icw3 \in {0, Cascade}
    BY <1>3, <2>2, StillShows DEF SameLevels
  <2>4. Shows(q, irq_state, strayed) BY <2>1, <2>3, ThawLevels, StillShows
  <2> QED BY <1>2, <1>3, <2>1, <2>4, UpdateWired
<1>5. CASE check_interrupts
  <2>1. pic' = pic BY <1>5 DEF check_interrupts
  <2>2. SameLevels(pic', pic, strayed) BY <1>3, <2>1 DEF SameLevels
  <2> QED BY <1>2, <2>2, SameWired
<1>6. CASE pic_irq_ack
  <2>1. PICK p \in Controllers :
            /\ Asked(p, pic.m.int_pending /\ pic_slave_on(pic.m), FALSE)
            /\ FirstAcked(pic', p)
    BY <1>6, PicIrqAckDoes
  <2>2. pic' \in Controllers BY <2>1 DEF FirstAcked
  <2>3. SameLevels(pic', pic, strayed) BY <2>1, <2>2, FirstAckLevels
  <2> QED BY <1>2, <2>3, SameWired
<1>7. CASE IrqAckSecond
  <2>1. pic.m.interrupt.frozen BY <1>7 DEF Acking, IrqAckSecond
  <2>2. PICK q \in Controllers : Thawed(q, pic) /\ Updated(pic', q)
    BY <1>7, <2>1, IrqAckSecondDoes
  <2>3. Shows(q, irq_state, strayed) BY <1>1, <1>3, <2>2, ThawLevels, StillShows
  <2> QED BY <1>2, <1>3, <2>2, <2>3, UpdateWired
<1> QED BY <1>4, <1>5, <1>6, <1>7

LEMMA WiredInit == Init => Wired
<1> SUFFICES ASSUME Init PROVE Wired OBVIOUS
<1> DEFINE em == Config[machine].elcr.m
           es == Config[machine].elcr.s
<1>1. pic = [m |-> [Cleared({}) EXCEPT !.elcr = em], s |-> [Cleared(0) EXCEPT !.elcr = es]]
  BY DEF Init
<1> HIDE DEF em, es
<1>2. /\ pic.m.elcr = em /\ pic.s.elcr = es /\ pic.s.icw3 = 0
      /\ pic.m.lines = [i \in Line |-> 0] /\ pic.s.lines = [i \in Line |-> 0]
      /\ pic.m.irr = {} /\ pic.s.irr = {}
  BY <1>1 DEF Cleared
<1>3. irq_state = {} /\ IsFiniteSet({}) /\ Cardinality({}) = 0 BY FS_EmptySet DEF Init
<1>4. \A t : On({}, t) = {} BY DEF On
<1> QED BY <1>2, <1>3, <1>4 DEF Wired, Shows, Strapped, em, es

LEMMA WiredStep ==
  ASSUME EdgesApart
  PROVE  TypeOK /\ Acking /\ Wired /\ [Next]_vars => Wired'
<1> SUFFICES ASSUME TypeOK, Acking, Wired, [Next]_vars PROVE Wired' OBVIOUS
<1>1. CASE UNCHANGED vars
  <2>1. pic' = pic /\ UNCHANGED <<machine, irq_state, strayed>> BY <1>1 DEF vars
  <2>2. SameLevels(pic', pic, strayed) BY <2>1 DEF SameLevels, Wired, Shows, Strapped
  <2> QED BY <2>1, <2>2, SameWired
<1>2. CASE Next BY <1>2, DeviceWired, GuestWired, CpuWired DEF Next
<1> QED BY <1>1, <1>2

(* A shared level-triggered line is requested exactly while a device       *)
(* asserts it, unless a device on it changed its line while the master did *)
(* not know of its slave, for every machine whose firmware keeps           *)
(* level-triggered lines apart from the slave's and from those of edge     *)
(* devices.                                                                *)
THEOREM PicLevelSound ==
  ASSUME EdgesApart
  PROVE  Spec => []LevelSound
<1>1. TypeOK /\ Wired => LevelSound
  <2> SUFFICES ASSUME TypeOK, Wired, NEW d \in Chips, NEW i \in Line, <<d, i>> \notin strayed
               PROVE  /\ pic[d].lines[i] = Cardinality(Asserting(<<d, i>>))
                      /\ elcr_enabled /\ i \in pic[d].elcr =>
                            (i \in pic[d].irr <=> Asserting(<<d, i>>) # {})
    BY DEF LevelSound
  <2>1. d \in {"m", "s"} BY Configured DEF TypeOK
  <2>2. Asserting(<<d, i>>) = On(irq_state, <<d, i>>)
    <3>1. irq_state # {} => AT BY DEF EdgesApart, TypeOK, AT, Level
    <3>2. \A e \in irq_state : Home(Irq[e]) = Routed(Irq[e]) BY <3>1 DEF Home, Routed
    <3> QED BY <3>2 DEF Asserting, On
  <2> QED BY <2>1, <2>2 DEF Wired, Shows
<1>2. TypeOK /\ Acking /\ Wired /\ [Next]_vars => Wired' BY WiredStep
<1> QED BY <1>1, <1>2, AckingInit, AckingStep, WiredInit, PTL DEF Spec

-----------------------------------------------------------------------------
(* Handlers end in the order they were entered. *)

(* Guests that rotate priorities end the first line in service, and use no *)
(* special mask mode, which makes that another one: without this, a masked *)
(* line that is before the one ended stays in service and falls behind     *)
(* lines that it interrupted.                                              *)
SetsMask(k) == \E o \in Config[k].ocw3s : o[2].esmm /\ o[2].smm

FullyNested ==
    \A k \in Machines : Config[k].is286 =>
        \A word \in Config[k].commands :
            word.rotate /\ (word.sl \/ word.eoi) => ~ word.sl /\ ~ SetsMask(k)

(* The order of ranks among lines in service. *)
Before(c) == {x \in c.isr \X c.isr : Rank(c, x[2]) < Rank(c, x[1])}

(* The order of entry, when lines in service a become b. *)
NestedIn(n, a, b) == (n \cup (a \X (b \ a))) \cap (b \X b)

(* A request is sound, the order of entry is that of ranks, and only a     *)
(* guest that sets it has the special mask mode.                           *)
Stacked ==
    Is286 =>
        /\ Sound(pic.m) /\ (AT => Sound(pic.s))
        /\ \A d \in Chips : /\ nest[d] = Before(pic[d])
                            /\ pic[d].smm => SetsMask(machine)

(* Lines leave, or one enters that is before all others; the order of      *)
(* those that stay is kept.                                                *)
Orderly(x, c) ==
    \/ /\ x.isr \subseteq c.isr
       /\ \A i, j \in x.isr : Rank(x, i) < Rank(x, j) <=> Rank(c, i) < Rank(c, j)
    \/ /\ x.priority = c.priority
       /\ \E i \in Line : /\ x.isr = c.isr \cup {i}
                          /\ \A j \in c.isr : Rank(c, i) < Rank(c, j)

LEMMA RankIs ==
  ASSUME NEW c, c.priority \in Line, NEW i \in Line
  PROVE  Rank(c, i) = IF i >= c.priority THEN i - c.priority ELSE i - c.priority + L
BY LinesAssumption DEF Rank, Line

(* A line that becomes the last leaves the order of those behind it alone. *)
LEMMA RotateKeeps ==
  ASSUME NEW c, c.priority \in Line, NEW x, NEW i \in Line, x.priority = (i + 1) % L,
         NEW j \in Line, NEW k \in Line, Rank(c, i) < Rank(c, j), Rank(c, i) < Rank(c, k)
  PROVE  Rank(x, j) < Rank(x, k) <=> Rank(c, j) < Rank(c, k)
<1>1. x.priority = (IF i + 1 = L THEN 0 ELSE i + 1) BY LinesAssumption DEF Line
<1>2. x.priority \in Line BY <1>1, LinesAssumption DEF Line
<1>3. /\ Rank(x, j) = IF j >= x.priority THEN j - x.priority ELSE j - x.priority + L
      /\ Rank(x, k) = IF k >= x.priority THEN k - x.priority ELSE k - x.priority + L
  BY <1>2, RankIs
<1>4. /\ Rank(c, j) = IF j >= c.priority THEN j - c.priority ELSE j - c.priority + L
      /\ Rank(c, k) = IF k >= c.priority THEN k - c.priority ELSE k - c.priority + L
      /\ Rank(c, i) = IF i >= c.priority THEN i - c.priority ELSE i - c.priority + L
  BY RankIs
<1> QED BY <1>1, <1>3, <1>4, LinesAssumption DEF Line

LEMMA OrderlyNests ==
  ASSUME NEW S, NEW c \in Chip(S), NEW x, Orderly(x, c)
  PROVE  NestedIn(Before(c), c.isr, x.isr) = Before(x)
<1>1. c.priority \in Line /\ c.isr \in SUBSET Line BY DEF Chip
<1>2. CASE /\ x.isr \subseteq c.isr
           /\ \A i, j \in x.isr : Rank(x, i) < Rank(x, j) <=> Rank(c, i) < Rank(c, j)
  BY <1>2 DEF NestedIn, Before
<1>3. ASSUME x.priority = c.priority, NEW i \in Line, x.isr = c.isr \cup {i},
             \A j \in c.isr : Rank(c, i) < Rank(c, j)
      PROVE  NestedIn(Before(c), c.isr, x.isr) = Before(x)
  <2>1. \A j : Rank(x, j) = Rank(c, j) BY <1>3 DEF Rank
  <2>2. \A j \in x.isr : Rank(c, j) \in Int BY <1>1, <1>3, RankType
  <2>3. i \notin c.isr BY <1>3, <2>2
  <2>4. \A j \in c.isr : ~ (Rank(c, j) < Rank(c, i)) BY <1>3, <2>2
  <2>5. ~ (Rank(c, i) < Rank(c, i)) BY <1>3, <2>2
  <2>6. x.isr \ c.isr = {i} BY <1>3, <2>3
  <2>7. ASSUME NEW a \in x.isr, NEW b \in x.isr
        PROVE  <<a, b>> \in NestedIn(Before(c), c.isr, x.isr) <=> <<a, b>> \in Before(x)
    <3>1. <<a, b>> \in Before(x) <=> Rank(c, b) < Rank(c, a) BY <2>1, <2>7 DEF Before
    <3>2. <<a, b>> \in NestedIn(Before(c), c.isr, x.isr) <=>
              <<a, b>> \in Before(c) \/ (a \in c.isr /\ b = i)
      BY <2>6, <2>7 DEF NestedIn
    <3>3. CASE a \in c.isr /\ b \in c.isr
      <4>1. <<a, b>> \in Before(c) <=> Rank(c, b) < Rank(c, a) BY <3>3 DEF Before
      <4> QED BY <2>3, <3>1, <3>2, <3>3, <4>1
    <3>4. CASE a \in c.isr /\ b = i BY <1>3, <3>1, <3>2, <3>4
    <3>5. CASE a = i
      <4>1. ~ (Rank(c, b) < Rank(c, a)) BY <1>3, <2>4, <2>5, <2>7, <3>5
      <4>2. <<a, b>> \notin Before(c) BY <2>3, <3>5 DEF Before
      <4> QED BY <2>3, <3>1, <3>2, <3>5, <4>1, <4>2
    <3> QED BY <1>3, <2>7, <3>3, <3>4, <3>5
  <2>8. NestedIn(Before(c), c.isr, x.isr) \subseteq x.isr \X x.isr BY DEF NestedIn
  <2>9. Before(x) \subseteq x.isr \X x.isr BY DEF Before
  <2> QED BY <2>7, <2>8, <2>9
<1> QED BY <1>2, <1>3 DEF Orderly

LEMMA SameOrderly ==
  ASSUME NEW x, NEW c, x.isr = c.isr, x.priority = c.priority
  PROVE  Orderly(x, c)
BY DEF Orderly, Rank

(* An acknowledge, with an automatic end of interrupt or without. *)
LEMMA AckOrderly ==
  ASSUME NEW S, NEW c \in Chip(S), NEW T, NEW u \in Chip(T), NEW q,
         Due(c, c.interrupt.line), Serviced(u, c), RegistersEnded(q, u)
  PROVE  Orderly(q, c)
<1> DEFINE i == c.interrupt.line
<1>1. c.priority \in Line /\ c.isr \in SUBSET Line /\ i \in Line BY DEF Chip
<1>2. u.isr = c.isr \cup {i} /\ u.priority = c.priority /\ u.imr = c.imr
  BY DEF Serviced
<1>3. i \notin c.imr /\ \A j \in c.isr : Rank(c, i) < Rank(c, j) BY DEF Due
<1>4. \A j : Rank(u, j) = Rank(c, j) BY <1>2 DEF Rank
<1>5. \A j \in Line : Rank(c, j) \in Int BY <1>1, RankType
<1>6. i \notin c.isr BY <1>1, <1>3, <1>5
<1> HIDE DEF i
<1>7. CASE ~ (u.icw4.aeoi /\ Served(u) # {})
  <2>1. q.isr = u.isr /\ q.priority = u.priority BY <1>7 DEF RegistersEnded
  <2> QED BY <1>1, <1>2, <1>3, <2>1 DEF Orderly
<1>8. CASE u.icw4.aeoi /\ Served(u) # {}
  <2>1. PICK k \in Line : /\ IsFirst(u, Served(u), k) /\ q.isr = u.isr \ {k}
                          /\ q.priority = IF u.auto_eoi_rotate THEN (k + 1) % L ELSE u.priority
    BY <1>8 DEF RegistersEnded
  <2>2. i \in Served(u) BY <1>2, <1>3 DEF Served
  <2>3. Rank(c, k) <= Rank(c, i) BY <1>4, <2>1, <2>2 DEF IsFirst
  <2>4. k \in u.isr BY <2>1 DEF IsFirst, Served
  <2>5. k = i BY <1>1, <1>2, <1>3, <1>5, <2>3, <2>4
  <2>6. q.isr = c.isr BY <1>2, <1>6, <2>1, <2>5
  <2>7. CASE u.auto_eoi_rotate
    <3>1. q.priority = (i + 1) % L BY <2>1, <2>5, <2>7
    <3>2. ASSUME NEW a \in c.isr, NEW b \in c.isr
          PROVE  Rank(q, a) < Rank(q, b) <=> Rank(c, a) < Rank(c, b)
      BY <1>1, <1>3, <3>1, <3>2, RotateKeeps
    <3> QED BY <2>6, <3>2 DEF Orderly
  <2>8. CASE ~ u.auto_eoi_rotate
    <3>1. q.priority = c.priority BY <1>2, <2>1, <2>8
    <3> QED BY <2>6, <3>1, SameOrderly
  <2> QED BY <2>7, <2>8
<1> QED BY <1>7, <1>8

(* A command ends a line, and may rotate by it if it is the first. *)
LEMMA EndOrderly ==
  ASSUME NEW S, NEW c \in Chip(S), NEW q, NEW i \in Line, NEW eoi, NEW rotate,
         EndedTo(q, c, i, eoi, rotate),
         rotate => eoi /\ IsFirst(c, c.isr, i)
  PROVE  Orderly(q, c)
<1>1. c.priority \in Line /\ c.isr \in SUBSET Line BY DEF Chip
<1>2. /\ q.isr = (IF eoi THEN c.isr \ {i} ELSE c.isr)
      /\ q.priority = (IF rotate THEN (i + 1) % L ELSE c.priority)
  BY DEF EndedTo
<1>3. CASE rotate
  <2>1. q.isr = c.isr \ {i} /\ q.priority = (i + 1) % L BY <1>2, <1>3
  <2>2. ASSUME NEW a \in q.isr PROVE a \in Line /\ Rank(c, i) < Rank(c, a)
    <3>1. a \in c.isr /\ a # i /\ a \in Line BY <1>1, <2>1, <2>2
    <3>2. Rank(c, i) <= Rank(c, a) BY <1>3, <3>1 DEF IsFirst
    <3>3. Rank(c, i) # Rank(c, a) BY <1>1, <3>1, RankInjective
    <3>4. Rank(c, i) \in Int /\ Rank(c, a) \in Int BY <1>1, <3>1, RankType
    <3> QED BY <3>1, <3>2, <3>3, <3>4
  <2>3. ASSUME NEW a \in q.isr, NEW b \in q.isr
        PROVE  Rank(q, a) < Rank(q, b) <=> Rank(c, a) < Rank(c, b)
    BY <1>1, <2>1, <2>2, <2>3, RotateKeeps
  <2> QED BY <2>1, <2>3 DEF Orderly
<1>4. CASE ~ rotate
  <2>1. q.isr \subseteq c.isr /\ q.priority = c.priority BY <1>2, <1>4
  <2> QED BY <2>1 DEF Orderly, Rank
<1> QED BY <1>3, <1>4

Sober(q) == Sound(q.m) /\ (AT => Sound(q.s))

(* The step to controllers q keeps the order of the lines in service. *)
InOrder(q) ==
    \A d \in Chips : Orderly(q[d], pic[d]) /\ (q[d].smm => SetsMask(machine))

NestsFollow ==
    \A d \in Chips : nest'[d] = NestedIn(nest[d], pic[d].isr, pic'[d].isr)

LEMMA StackedKept ==
  ASSUME TypeOK, Is286, Stacked, UNCHANGED machine, Sober(pic'), InOrder(pic'), NestsFollow
  PROVE  Stacked'
<1>1. AT' = AT /\ Is286' = Is286 /\ Chips' = Chips BY DEF AT, Is286, Chips
<1>2. pic \in Controllers /\ Chips \in SUBSET {"m", "s"} BY Configured DEF TypeOK, Controllers
<1>3. ASSUME NEW d \in Chips
      PROVE  nest'[d] = Before(pic'[d]) /\ (pic'[d].smm => SetsMask(machine))
  <2> DEFINE c == pic[d]
             x == pic'[d]
  <2>1. c \in Kind(d) BY <1>2, ChipKind
  <2>2. Orderly(x, c) BY DEF InOrder
  <2>3. nest'[d] = NestedIn(nest[d], c.isr, x.isr) /\ nest[d] = Before(c)
    BY DEF NestsFollow, Stacked
  <2>4. x.smm => SetsMask(machine) BY DEF InOrder
  <2> HIDE DEF c, x
  <2>5. NestedIn(Before(c), c.isr, x.isr) = Before(x) BY <2>1, <2>2, OrderlyNests DEF Kind
  <2> QED BY <2>3, <2>4, <2>5 DEF x
<1> QED BY <1>1, <1>3 DEF Stacked, Sober, Sound, Due, Rank, Before, SetsMask

LEMMA SoberUpdate ==
  ASSUME Is286, Alert', UNCHANGED machine, NEW q, Updated(pic', q)
  PROVE  Sober(pic')
<1>1. Is286' BY DEF Is286
<1>2. ~ pic'.m.interrupt.frozen BY <1>1 DEF Alert, Prepared
<1>3. ~ q.m.interrupt.frozen BY <1>2 DEF Updated
<1> QED BY <1>3 DEF Updated, Fresh, Sober

LEMMA StillSober ==
  ASSUME NEW q, Still(q), Sober(pic)
  PROVE  Sober(q)
BY SoundSame DEF Still, Sober

LEMMA InOrderUpdate ==
  ASSUME NEW q, InOrder(q), Updated(pic', q), machine \in Machines
  PROVE  InOrder(pic')
<1>1. Chips \in SUBSET {"m", "s"} BY Configured
<1>2. \A d \in {"m", "s"} : /\ pic'[d].isr = q[d].isr /\ pic'[d].priority = q[d].priority
                            /\ pic'[d].smm = q[d].smm
  BY DEF Updated, Kept, Rest
<1> QED BY <1>1, <1>2 DEF InOrder, Orderly, Rank

(* Nothing about the lines in service differs. *)
SameService(q) ==
    \A d \in {"m", "s"} : /\ q[d].isr = pic[d].isr /\ q[d].priority = pic[d].priority
                          /\ q[d].smm = pic[d].smm

LEMMA SameInOrder ==
  ASSUME Is286, Stacked, machine \in Machines, NEW q, SameService(q)
  PROVE  InOrder(q)
<1>1. Chips \in SUBSET {"m", "s"} BY Configured
<1> QED BY <1>1, SameOrderly DEF SameService, InOrder, Stacked

LEMMA NestsStay ==
  ASSUME TypeOK, Is286, Stacked, UNCHANGED nest, \A d \in Chips : pic'[d].isr = pic[d].isr
  PROVE  NestsFollow
<1>1. ASSUME NEW d \in Chips PROVE nest'[d] = NestedIn(nest[d], pic[d].isr, pic'[d].isr)
  <2>1. nest[d] = Before(pic[d]) BY DEF Stacked
  <2>2. nest[d] \subseteq pic[d].isr \X pic[d].isr BY <2>1 DEF Before
  <2> QED BY <2>2 DEF NestedIn
<1> QED BY <1>1 DEF NestsFollow

LEMMA NestsGrow ==
  ASSUME TypeOK, nest' = Nested(pic')
  PROVE  NestsFollow
<1>1. Chips \in SUBSET {"m", "s"} BY Configured DEF TypeOK
<1> QED BY <1>1 DEF NestsFollow, Nested, NestedIn

LEMMA DeviceStacked ==
  ASSUME TypeOK, Alert', Is286, Stacked, Device \/ \E t \in Latches : pic_latch_read(t)
  PROVE  Stacked'
<1>1. pic \in Controllers /\ machine \in Machines /\ Sober(pic)
  BY DEF TypeOK, Controllers, Stacked, Sober
<1>2. Chips \in SUBSET {"m", "s"} BY <1>1, Configured
<1>3. UNCHANGED <<machine, nest>> BY DEF Device, picint, picintlevel, pic_latch_read, history
<1>4. ASSUME SameService(pic'), Sober(pic') PROVE Stacked'
  <2>1. \A d \in Chips : pic'[d].isr = pic[d].isr BY <1>2, <1>4 DEF SameService
  <2>2. NestsFollow BY <1>3, <2>1, NestsStay
  <2>3. InOrder(pic') BY <1>1, <1>4, SameInOrder
  <2> QED BY <1>3, <1>4, <2>2, <2>3, StackedKept
<1>5. ASSUME NEW b \in Controllers, SameService(b), NEW t \in Inputs, NEW set \in BOOLEAN,
             NEW q \in Controllers, Moved(q, b, t, set), Updated(pic', q)
      PROVE  Stacked'
  <2>1. t[1] \in {"m", "s"} BY DEF Inputs
  <2>2. \A d \in {"m", "s"} : /\ q[d].isr = b[d].isr /\ q[d].priority = b[d].priority
                              /\ q[d].smm = b[d].smm
    BY <1>5, <2>1 DEF Moved, Replaced, Rest
  <2>3. \A d \in {"m", "s"} : /\ pic'[d].isr = q[d].isr /\ pic'[d].priority = q[d].priority
                              /\ pic'[d].smm = q[d].smm
    BY <1>5 DEF Updated, Kept, Rest
  <2>4. SameService(pic') BY <1>5, <2>2, <2>3 DEF SameService
  <2>5. Sober(pic') BY <1>3, <1>5, SoberUpdate
  <2> QED BY <1>4, <2>4, <2>5
<1>6. SameService(pic) BY DEF SameService
<1>7. ASSUME NEW e \in Edge, NEW set \in BOOLEAN, picint(e, set)
      PROVE  Stacked'
  <2>1. PICK q \in Controllers : /\ Target(Irq[e]) \in Inputs
                                 /\ Moved(q, pic, Target(Irq[e]), set) /\ Updated(pic', q)
    BY <1>7, PicintDoes
  <2> QED BY <1>1, <1>5, <1>6, <2>1
<1>8. ASSUME NEW e \in Level, NEW set \in BOOLEAN, picintlevel(e, set)
      PROVE  Stacked'
  <2> DEFINE t == Target(Irq[e])
             changed == (e \in irq_state) # set
  <2>1. PICK b \in Controllers :
          /\ t \in Inputs
          /\ IF changed /\ Reached(t) THEN Counted(b, pic, t, IF set THEN 1 ELSE -1)
                                      ELSE b = pic
          /\ IF Reached(t) /\ PassedOn(b[t[1]], t[2], changed, set)
             THEN \E q \in Controllers : Moved(q, b, t, set) /\ Updated(pic', q)
             ELSE pic' = b
    BY <1>8, PicintlevelDoes
  <2> HIDE DEF t, changed
  <2>2. SameService(b) /\ Still(b)
    <3>1. CASE b = pic BY <1>6, <3>1 DEF Still, SameRegisters
    <3>2. CASE Counted(b, pic, t, IF set THEN 1 ELSE -1)
      <4>1. t[1] \in {"m", "s"} BY <2>1 DEF Inputs
      <4>2. SameService(b) BY <3>2, <4>1 DEF SameService, Counted, Replaced, SameRegisters
      <4>3. Still(b) BY <2>1, <3>2, CountedStill
      <4> QED BY <4>2, <4>3
    <3> QED BY <2>1, <3>1, <3>2
  <2>3. CASE pic' = b BY <1>1, <1>4, <2>2, <2>3, StillSober
  <2>4. ASSUME NEW q \in Controllers, Moved(q, b, t, set), Updated(pic', q)
        PROVE  Stacked'
    BY <1>5, <2>1, <2>2, <2>4
  <2> QED BY <2>1, <2>3, <2>4
<1>9. ASSUME NEW t \in Latches, pic_latch_read(t)
      PROVE  Stacked'
  <2>1. PICK q \in Controllers : t \in Inputs /\ Moved(q, pic, t, FALSE) /\ Updated(pic', q)
    BY <1>9, LatchReadDoes
  <2> QED BY <1>1, <1>5, <1>6, <2>1
<1> QED BY <1>7, <1>8, <1>9 DEF Device

LEMMA ReplacedInOrder ==
  ASSUME Is286, Stacked, machine \in Machines, NEW d \in {"m", "s"}, NEW q,
         Replaced(q, pic, d), Orderly(q[d], pic[d]),
         q[d].smm => pic[d].smm \/ SetsMask(machine), d \in Chips
  PROVE  InOrder(q)
<1>1. Chips \in SUBSET {"m", "s"} BY Configured
<1>2. \A e \in Chips : pic[e].smm => SetsMask(machine) BY DEF Stacked
<1>3. \A e \in Chips \ {d} : q[e] = pic[e] BY <1>1 DEF Replaced
<1> QED BY <1>2, <1>3, SameOrderly DEF InOrder

LEMMA ReplacedSober ==
  ASSUME Sober(pic), NEW d \in {"m", "s"}, NEW q, Replaced(q, pic, d),
         SameRegisters(q[d], pic[d]), q[d].int_pending = pic[d].int_pending,
         q[d].interrupt.line = pic[d].interrupt.line,
         q[d].state = pic[d].state \/ pic[d].state # "NONE"
  PROVE  Sober(q)
<1>1. Sound(pic[d]) => Sound(q[d]) BY SoundSame
<1>2. CASE d = "m"
  <2>1. q.s = pic.s BY <1>2 DEF Replaced
  <2> QED BY <1>1, <1>2, <2>1 DEF Sober
<1>3. CASE d = "s"
  <2>1. q.m = pic.m BY <1>3 DEF Replaced
  <2> QED BY <1>1, <1>3, <2>1 DEF Sober
<1> QED BY <1>2, <1>3

LEMMA GuestStacked ==
  ASSUME FullyNested, TypeOK, Alert, Alert', Is286, Stacked, NEW d \in Chips, Guest(d)
  PROVE  Stacked'
<1>1. pic \in Controllers /\ machine \in Machines /\ Sober(pic)
  BY DEF TypeOK, Controllers, Stacked, Sober
<1>2. Chips \in SUBSET {"m", "s"} /\ d \in {"m", "s"} BY <1>1, Configured
<1>3. pic[d] \in Kind(d) BY <1>1, <1>2, ChipKind
<1>4. UNCHANGED machine
  BY DEF Guest, WriteIcw1, WriteIcw, WriteOcw1, WriteOcw2, WriteOcw3, ReadPoll
<1>5. ASSUME NEW q, Updated(pic', q), Replaced(q, pic, d), Orderly(q[d], pic[d]),
             q[d].smm => pic[d].smm \/ SetsMask(machine), NestsFollow
      PROVE  Stacked'
  <2>1. Sober(pic') BY <1>4, <1>5, SoberUpdate
  <2>2. InOrder(pic') BY <1>1, <1>2, <1>5, ReplacedInOrder, InOrderUpdate
  <2> QED BY <1>4, <1>5, <2>1, <2>2, StackedKept
<1>6. ASSUME Replaced(pic', pic, d), SameRegisters(pic'[d], pic[d]),
             pic'[d].int_pending = pic[d].int_pending,
             pic'[d].interrupt.line = pic[d].interrupt.line,
             pic'[d].state = pic[d].state \/ pic[d].state # "NONE",
             pic'[d].smm => pic[d].smm \/ SetsMask(machine), NestsFollow
      PROVE  Stacked'
  <2>1. Sober(pic') BY <1>1, <1>2, <1>6, ReplacedSober
  <2>2. Orderly(pic'[d], pic[d]) BY <1>6, SameOrderly DEF SameRegisters
  <2>3. InOrder(pic') BY <1>1, <1>2, <1>6, <2>2, ReplacedInOrder
  <2> QED BY <1>4, <1>6, <2>1, <2>3, StackedKept
<1>7. ASSUME NEW q, Replaced(q, pic, d), pic' = q \/ Updated(pic', q),
             q[d].isr = pic[d].isr, UNCHANGED nest
      PROVE  NestsFollow
  <2>1. \A e \in {"m", "s"} : q[e].isr = pic[e].isr BY <1>7 DEF Replaced
  <2>2. \A e \in {"m", "s"} : pic'[e].isr = q[e].isr BY <1>7 DEF Updated, Kept
  <2> QED BY <1>2, <1>7, <2>1, <2>2, NestsStay
<1>8. ASSUME NEW word \in Config[machine].icw1s, WriteIcw1(d, word)
      PROVE  Stacked'
  <2>1. PICK q \in Controllers : Begun(q, d, word) /\ Updated(pic', q)
    BY <1>8, WriteIcw1Does
  <2>2. Replaced(q, pic, d) /\ q[d].isr = {} /\ q[d].smm = FALSE BY <2>1 DEF Begun, Begins
  <2>3. Orderly(q[d], pic[d]) BY <2>2 DEF Orderly
  <2>4. NestsFollow BY <1>8, NestsGrow DEF WriteIcw1
  <2> QED BY <1>5, <2>1, <2>2, <2>3, <2>4
<1>9. CASE WriteIcw(d)
  <2>1. Continued(d) BY <1>9, WriteIcwDoes
  <2>2. /\ Replaced(pic', pic, d) /\ SameRequest(pic'[d], pic[d])
        /\ SameRegisters(pic'[d], pic[d]) /\ pic'[d].smm = pic[d].smm
        /\ pic[d].state # "NONE"
    BY <2>1 DEF Continued
  <2>3. UNCHANGED nest BY <1>9 DEF WriteIcw, history
  <2>4. NestsFollow BY <1>7, <2>2, <2>3 DEF SameRegisters
  <2> QED BY <1>6, <2>2, <2>4 DEF SameRequest
<1>10. ASSUME NEW mask \in Config[machine].masks, WriteOcw1(d, mask)
       PROVE  Stacked'
  <2>1. PICK q \in Controllers : MaskIs(q, d, mask) /\ Updated(pic', q)
    BY <1>10, WriteOcw1Does
  <2>2. /\ Replaced(q, pic, d) /\ q[d].isr = pic[d].isr /\ q[d].priority = pic[d].priority
        /\ q[d].smm = pic[d].smm
    BY <2>1 DEF MaskIs, Rest
  <2>3. UNCHANGED nest BY <1>10 DEF WriteOcw1
  <2>4. NestsFollow BY <1>7, <2>1, <2>2, <2>3
  <2>5. Orderly(q[d], pic[d]) BY <2>2, SameOrderly
  <2> QED BY <1>5, <2>1, <2>2, <2>4, <2>5
<1>11. ASSUME NEW word \in Config[machine].commands, WriteOcw2(d, word)
       PROVE  Stacked'
  <2> DEFINE i == CommandLine(d, word)
  <2>1. NestsFollow BY <1>11, NestsGrow DEF WriteOcw2
  <2>2. IF word.sl \/ word.eoi
        THEN IF i = NoLine THEN pic' = pic
             ELSE /\ i \in Line
                  /\ word.sl \/ (Served(pic[d]) # {} /\ IsFirst(pic[d], Served(pic[d]), i))
                  /\ \E q \in Controllers : /\ EndedAt(q, pic, d, i, word.eoi, word.rotate)
                                            /\ Updated(pic', q)
        ELSE RotationIs(d, word.rotate)
    BY <1>11, WriteOcw2Does
  <2> HIDE DEF i
  <2>3. CASE pic' = pic
    <3>1. Replaced(pic', pic, d) BY <1>1, <2>3 DEF Replaced
    <3> QED BY <1>6, <2>1, <2>3, <3>1 DEF SameRegisters
  <2>4. ASSUME NEW q \in Controllers, word.sl \/ word.eoi, i \in Line,
               word.sl \/ (Served(pic[d]) # {} /\ IsFirst(pic[d], Served(pic[d]), i)),
               EndedAt(q, pic, d, i, word.eoi, word.rotate), Updated(pic', q)
        PROVE  Stacked'
    <3>1. /\ Replaced(q, pic, d) /\ EndedTo(q[d], pic[d], i, word.eoi, word.rotate)
          /\ q[d].smm = pic[d].smm
      BY <2>4 DEF EndedAt, EndedTo, Rest
    <3>2. word.rotate => word.eoi /\ IsFirst(pic[d], pic[d].isr, i)
      <4>1. SUFFICES ASSUME word.rotate PROVE word.eoi /\ IsFirst(pic[d], pic[d].isr, i)
        OBVIOUS
      <4>2. ~ word.sl /\ ~ SetsMask(machine) BY <1>1, <2>4, <4>1 DEF FullyNested, Is286
      <4>3. ~ pic[d].smm BY <4>2 DEF Stacked
      <4> QED BY <2>4, <4>2, <4>3 DEF Served
    <3>3. Orderly(q[d], pic[d])
      <4> DEFINE c == pic[d]
                 x == q[d]
                 eoi == word.eoi
                 rotate == word.rotate
      <4>1. /\ c \in Kind(d) /\ EndedTo(x, c, i, eoi, rotate)
            /\ rotate => eoi /\ IsFirst(c, c.isr, i)
        BY <1>3, <3>1, <3>2
      <4> HIDE DEF c, x, eoi, rotate
      <4>2. Orderly(x, c) BY <2>4, <4>1, EndOrderly DEF Kind
      <4> QED BY <4>2 DEF c, x
    <3> QED BY <1>5, <2>1, <2>4, <3>1, <3>3
  <2>5. CASE RotationIs(d, word.rotate)
    <3>1. /\ Replaced(pic', pic, d) /\ Programmed(pic'[d], pic[d])
          /\ SameRequest(pic'[d], pic[d]) /\ SameRegisters(pic'[d], pic[d])
          /\ pic'[d].smm = pic[d].smm
      BY <2>5 DEF RotationIs
    <3> QED BY <1>6, <2>1, <3>1 DEF SameRequest, Programmed
  <2> QED BY <2>2, <2>3, <2>4, <2>5
<1>12. ASSUME NEW o \in Config[machine].ocw3s, WriteOcw3(d, o[2])
       PROVE  Stacked'
  <2>1. Commanded(d, o[2]) BY <1>12, WriteOcw3Does
  <2>2. /\ Replaced(pic', pic, d) /\ Programmed(pic'[d], pic[d])
        /\ SameRegisters(pic'[d], pic[d])
        /\ pic'[d].int_pending = pic[d].int_pending
        /\ pic'[d].interrupt.line = pic[d].interrupt.line
        /\ pic'[d].smm = (IF o[2].esmm THEN o[2].smm ELSE pic[d].smm)
    BY <2>1 DEF Commanded
  <2>3. pic'[d].smm => pic[d].smm \/ SetsMask(machine) BY <2>2 DEF SetsMask
  <2>4. UNCHANGED nest BY <1>12 DEF WriteOcw3, history
  <2>5. NestsFollow BY <1>7, <2>2, <2>4 DEF SameRegisters
  <2> QED BY <1>6, <2>2, <2>3, <2>5 DEF Programmed
<1>13. CASE ReadPoll(d)
  <2>1. PICK q \in Controllers : /\ Polled(q, d)
                                 /\ IF pic[d].int_pending THEN Updated(pic', q) ELSE pic' = q
    BY <1>13, ReadPollDoes
  <2>2. NestsFollow BY <1>13, NestsGrow DEF ReadPoll
  <2>3. /\ Replaced(q, pic, d) /\ Programmed(q[d], pic[d]) /\ q[d].smm = pic[d].smm
        /\ q[d].int_pending = FALSE /\ q[d].interrupt.line = pic[d].interrupt.line
        /\ IF pic[d].int_pending THEN Serviced(q[d], pic[d])
                                 ELSE SameRegisters(q[d], pic[d])
    BY <2>1 DEF Polled
  <2>4. pic[d].int_pending \in BOOLEAN /\ pic[d].interrupt.line \in Line
    BY <1>3 DEF Kind, Chip
  <2>5. CASE pic[d].int_pending
    <3>1. Sound(pic[d]) BY <1>1, <1>2 DEF Sober, Chips
    <3>2. Due(pic[d], pic[d].interrupt.line) BY <2>5, <3>1 DEF Sound
    <3>3. Orderly(q[d], pic[d]) BY <2>3, <2>4, <2>5, <3>2 DEF Orderly, Serviced, Due
    <3> QED BY <1>5, <2>1, <2>2, <2>3, <2>5, <3>3
  <2>6. CASE ~ pic[d].int_pending
    <3>1. pic' = q /\ q[d].int_pending = pic[d].int_pending BY <2>1, <2>3, <2>4, <2>6
    <3> QED BY <1>6, <2>2, <2>3, <2>6, <3>1 DEF Programmed
  <2> QED BY <2>5, <2>6
<1> QED BY <1>8, <1>9, <1>10, <1>11, <1>12, <1>13 DEF Guest

LEMMA CpuStacked ==
  ASSUME TypeOK, Acking, Alert', Is286, Stacked,
         picinterrupt \/ check_interrupts \/ pic_irq_ack \/ IrqAckSecond
  PROVE  Stacked'
<1>1. picinterrupt BY DEF Acking, check_interrupts, pic_irq_ack, IrqAckSecond
<1>2. pic \in Controllers /\ machine \in Machines /\ Sober(pic)
  BY DEF TypeOK, Controllers, Stacked, Sober
<1>3. UNCHANGED machine /\ nest' = Nested(pic') /\ pic.m.int_pending BY <1>1 DEF picinterrupt
<1>4. PICK p \in Controllers, u \in Controllers, q \in Controllers :
          /\ Asked(p, pic_slave_on(pic.m) /\ pic.s.int_pending,
                      pic_slave_on(pic.m) /\ ~ pic.s.int_pending)
          /\ FirstAcked(u, p) /\ Thawed(q, u) /\ Updated(pic', q)
  BY <1>1, PicinterruptDoes
<1>5. ~ pic.m.interrupt.slave BY DEF Acking, TypeOK, Chip
<1>6. p.m \in Chip(SUBSET Line) /\ u.m \in Chip(SUBSET Line)
  BY DEF Controllers
<1>7. p.s \in Chip(Line) /\ u.s \in Chip(Line) BY DEF Controllers
<1>8. Orderly(q.m, pic.m) /\ q.m.smm = pic.m.smm
  <2>1. /\ SameRegisters(p.m, pic.m) /\ p.m.interrupt.line = pic.m.interrupt.line
        /\ p.m.smm = pic.m.smm
    BY <1>4 DEF Asked, Rest
  <2>2. Due(pic.m, pic.m.interrupt.line) BY <1>2, <1>3 DEF Sober, Sound
  <2>3. Due(p.m, p.m.interrupt.line) BY <2>1, <2>2, DueSame
  <2>4. Serviced(u.m, p.m) /\ u.m.smm = p.m.smm BY <1>4 DEF FirstAcked
  <2>5. RegistersEnded(q.m, u.m) /\ q.m.smm = u.m.smm BY <1>4 DEF Thawed
  <2>6. Orderly(q.m, p.m) BY <1>6, <2>3, <2>4, <2>5, AckOrderly
  <2>7. Orderly(q.m, pic.m) BY <2>1, <2>6 DEF Orderly, SameRegisters, Rank
  <2> QED BY <2>1, <2>4, <2>5, <2>7
<1>9. AT => Orderly(q.s, pic.s) /\ q.s.smm = pic.s.smm
  <2>1. SUFFICES ASSUME AT PROVE Orderly(q.s, pic.s) /\ q.s.smm = pic.s.smm OBVIOUS
  <2>2. u.m.interrupt.slave = p.m.interrupt.slave BY <1>4 DEF FirstAcked
  <2>3. SameRegisters(p.s, pic.s) /\ p.s.smm = pic.s.smm
    BY <1>4 DEF Asked, Rest, SameRegisters
  <2>4. CASE p.m.interrupt.slave
    <3>1. pic.s.int_pending BY <1>4, <1>5, <2>4 DEF Asked
    <3>2. p.s = pic.s BY <1>4, <3>1 DEF Asked
    <3>3. Due(p.s, p.s.interrupt.line) BY <1>2, <2>1, <3>1, <3>2 DEF Sober, Sound
    <3>4. Serviced(u.s, p.s) /\ u.s.smm = p.s.smm BY <1>4, <2>4 DEF FirstAcked, Rest
    <3>5. RegistersEnded(q.s, u.s) /\ q.s.smm = u.s.smm
      BY <1>4, <2>2, <2>4 DEF Thawed, Rest
    <3>6. Orderly(q.s, p.s) BY <1>7, <3>3, <3>4, <3>5, AckOrderly
    <3> QED BY <3>2, <3>4, <3>5, <3>6
  <2>5. CASE ~ p.m.interrupt.slave
    <3>1. u.s = p.s BY <1>4, <2>5 DEF FirstAcked
    <3>2. q.s = u.s BY <1>4, <2>2, <2>5 DEF Thawed
    <3> QED BY <2>3, <3>1, <3>2, SameOrderly DEF SameRegisters
  <2> QED BY <2>4, <2>5
<1>10. InOrder(q) BY <1>8, <1>9 DEF InOrder, Chips, Stacked
<1>11. InOrder(pic') BY <1>2, <1>4, <1>10, InOrderUpdate
<1>12. Sober(pic') BY <1>3, <1>4, SoberUpdate
<1>13. NestsFollow BY <1>3, NestsGrow
<1> QED BY <1>3, <1>11, <1>12, <1>13, StackedKept

LEMMA StackedInit == Init => Stacked
<1> SUFFICES ASSUME Init PROVE Stacked OBVIOUS
<1>1. \A d \in {"m", "s"} : /\ pic[d].isr = {} /\ pic[d].smm = FALSE /\ nest[d] = {}
                            /\ pic[d].int_pending = FALSE /\ pic[d].interrupt = NoRequest
  BY DEF Init, Cleared
<1>2. NoRequest.line = L - 1 BY RequestFields
<1>3. Sound(pic.m) /\ Sound(pic.s) BY <1>1, <1>2 DEF Sound
<1>4. \A d \in {"m", "s"} : nest[d] = Before(pic[d]) BY <1>1 DEF Before
<1> QED BY <1>1, <1>3, <1>4 DEF Stacked, Chips

LEMMA StackedStep ==
  ASSUME FullyNested
  PROVE  TypeOK /\ Acking /\ Alert /\ Stacked /\ [Next]_vars /\ Alert' => Stacked'
<1> SUFFICES ASSUME TypeOK, Acking, Alert, Stacked, [Next]_vars, Alert' PROVE Stacked' OBVIOUS
<1>1. CASE UNCHANGED vars
  BY <1>1 DEF vars, Stacked, Sound, Due, Rank, Before, SetsMask, AT, Is286, Chips
<1>2. CASE Next
  <2>1. CASE ~ Is286
    <3>1. UNCHANGED machine
      BY <1>2 DEF Next, Device, Guest, picint, picintlevel, pic_latch_read, WriteIcw1, WriteIcw,
                  WriteOcw1, WriteOcw2, WriteOcw3, ReadPoll, picinterrupt, check_interrupts,
                  pic_irq_ack, IrqAckSecond
    <3> QED BY <2>1, <3>1 DEF Stacked, Is286
  <2>2. CASE Is286 BY <1>2, <2>2, DeviceStacked, GuestStacked, CpuStacked DEF Next
  <2> QED BY <2>1, <2>2
<1> QED BY <1>1, <1>2

(* Handlers end in the order they were entered, on every machine that      *)
(* fits a fully nested structure: the order of entry is that of ranks, as  *)
(* a line enters only before all that are in service, and only the first   *)
(* of them is ever made the last.                                          *)
THEOREM PicInnermostFirst ==
  ASSUME Initialised, MasterNotPolled, FullyNested
  PROVE  Spec => []InnermostFirst
<1>1. TypeOK /\ Stacked => InnermostFirst
  <2> SUFFICES ASSUME TypeOK, Stacked, NEW d \in Chips, Is286, ~ pic[d].smm,
                      NEW j \in pic[d].isr \ {pic_non_specific_find(pic[d])}
               PROVE  <<j, pic_non_specific_find(pic[d])>> \in nest[d]
    BY DEF InnermostFirst
  <2> DEFINE c == pic[d]
             i == pic_non_specific_find(c)
  <2>1. d \in {"m", "s"} /\ pic \in Controllers BY Configured DEF TypeOK, Controllers
  <2>2. c \in Kind(d) BY <2>1, ChipKind
  <2>3. nest[d] = Before(c) /\ ~ c.smm /\ j \in c.isr /\ j # i BY DEF Stacked
  <2> HIDE DEF c
  <2>4. Served(c) = c.isr BY <2>3 DEF Served
  <2>5. i \in Line /\ IsFirst(c, c.isr, i) BY <2>2, <2>3, <2>4, FindsFirst DEF Kind
  <2>6. c.priority \in Line /\ j \in Line BY <2>2, <2>3 DEF Kind, Chip
  <2> HIDE DEF i
  <2>7. i \in c.isr /\ Rank(c, i) <= Rank(c, j) BY <2>3, <2>5 DEF IsFirst
  <2>8. Rank(c, i) # Rank(c, j) BY <2>3, <2>5, <2>6, RankInjective
  <2>9. Rank(c, i) \in Int /\ Rank(c, j) \in Int BY <2>5, <2>6, RankType
  <2>10. <<j, i>> \in Before(c) BY <2>3, <2>7, <2>8, <2>9 DEF Before
  <2> QED BY <2>3, <2>10 DEF i, c
<1>2. TypeOK /\ Acking /\ Alert /\ [Next]_vars => Alert' BY AlertStep
<1>3. TypeOK /\ Acking /\ Alert /\ Stacked /\ [Next]_vars /\ Alert' => Stacked'
  BY StackedStep
<1> QED BY <1>1, <1>2, <1>3, AckingInit, AckingStep, AlertInit, StackedInit, PTL DEF Spec

=============================================================================
