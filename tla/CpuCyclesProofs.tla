--------------------------- MODULE CpuCyclesProofs ---------------------------
(***************************************************************************)
(* The cycle accounting of CpuCycles, proved for every width of the        *)
(* counters, every block length and every value a guest may write into its *)
(* time stamp counter.                                                     *)
(***************************************************************************)
EXTENDS CpuCycles, TLAPS

(* The counter stands between the start of the block and the cycles spent, *)
(* unless the guest wrote it in this block.                                *)
Exact == SubWide(tsc, base) <= spent /\ ideal = AddWide(base, spent)

Inv ==
    /\ TypeOK
    /\ ~ written => Exact
    /\ written => spent > 0

(* The assumptions, without the factor. *)
LEMMA Widths ==
  /\ Half \in Nat \ {0} /\ MaxBlock \in 1 .. Half - 1
  /\ Wide \in Nat /\ 2 * Half <= Wide
<1>1. PICK words \in 1 .. Wide : Wide = words * (2 * Half) BY CyclesAssumption
<1>2. words \in Nat /\ words >= 1 /\ Half \in Nat /\ Wide \in Nat BY CyclesAssumption
<1>3. 1 * (2 * Half) <= words * (2 * Half) BY <1>2, SMT
<1> QED BY <1>1, <1>2, <1>3, CyclesAssumption

(* Nothing spent, nothing to add. *)
LEMMA NothingWide ==
  ASSUME NEW x \in 0 .. Wide - 1
  PROVE  SubWide(x, x) = 0 /\ AddWide(x, 0) = x
BY Widths DEF SubWide, AddWide

(* Converting a small difference to int32_t changes nothing. *)
LEMMA SmallInt32 ==
  ASSUME NEW x \in 0 .. MaxBlock
  PROVE  Int32(x) = x
<1>1. x \in Int /\ 0 <= x /\ x < Half /\ x < 2 * Half /\ 2 * Half \in Int /\ 2 * Half > 0
  BY Widths
<1>2. (x % (2 * Half)) = x BY ONLY <1>1, SMT
<1>3. Int32(x) = IF x >= Half THEN x - 2 * Half ELSE x BY ONLY <1>2, Zenon DEF Int32
<1>4. ~ (x >= Half) BY <1>1, Widths
<1> QED BY <1>3, <1>4, Zenon

(* An update brings the counter level with the cycles spent.               *)
LEMMA UpdateExact ==
  ASSUME TypeOK, Exact, NEW total \in spent .. MaxBlock
  PROVE  /\ Updated(total) = AddWide(base, total)
         /\ Cycdiff(total) = total - SubWide(tsc, base)
<1> DEFINE delta == SubWide(tsc, base)
<1>1. delta \in 0 .. spent /\ total \in Int /\ spent \in 0 .. MaxBlock
  BY Widths DEF Exact, TypeOK, SubWide
<1>2. total - delta \in 0 .. MaxBlock BY <1>1, Widths
<1>3. Int32(total - delta) = total - delta BY <1>2, SmallInt32
<1>4. Cycdiff(total) = total - delta BY <1>1, <1>3 DEF Cycdiff
<1>5. CASE total - delta > 0
  BY <1>1, <1>2, <1>4, <1>5, Widths DEF Updated, AddWide, SubWide, Exact, TypeOK
<1>6. CASE total - delta = 0
  BY <1>1, <1>2, <1>4, <1>6, Widths DEF Updated, AddWide, SubWide, Exact, TypeOK
<1> QED BY <1>2, <1>4, <1>5, <1>6

(* Whatever the guest wrote, an update leaves a counter.                   *)
LEMMA UpdateType ==
  ASSUME TypeOK, NEW total \in 0 .. MaxBlock
  PROVE  Updated(total) \in 0 .. Wide - 1
<1>1. tsc \in 0 .. Wide - 1 /\ base \in 0 .. Wide - 1 /\ total \in 0 .. Half - 1
  BY Widths DEF TypeOK
<1>2. SubWide(tsc, base) \in Int BY <1>1, Widths DEF SubWide
<1>3. \A x \in Int : x % (2 * Half) \in 0 .. 2 * Half - 1 BY Widths
<1>4. \A x \in Int : Int32(x) \in - Half .. Half - 1
  <2> TAKE x \in Int
  <2> DEFINE low == x % (2 * Half)
  <2>1. low \in 0 .. 2 * Half - 1 BY <1>3
  <2>2. Int32(x) = IF low >= Half THEN low - 2 * Half ELSE low BY Zenon DEF Int32
  <2> HIDE DEF low
  <2> QED BY <2>1, <2>2, Widths
<1>5. total - SubWide(tsc, base) \in Int BY <1>1, <1>2, Widths
<1>6. Cycdiff(total) \in - Half .. Half - 1 BY <1>1, <1>2, <1>4, <1>5, Widths DEF Cycdiff
<1> QED BY <1>1, <1>6, Widths DEF Updated, AddWide

(* The invariant holds in every reachable state. *)
THEOREM CyclesInvariant == Spec => []Inv
<1>1. Init => Inv
  <2> SUFFICES ASSUME Init PROVE Inv OBVIOUS
  <2>1. /\ tsc \in 0 .. Wide - 1 /\ base \in 0 .. Wide - 1 /\ ideal \in 0 .. Wide - 1
        /\ spent \in 0 .. MaxBlock /\ Exact
    BY Widths DEF Init, Exact, SubWide, AddWide
  <2>2. written = FALSE BY DEF Init
  <2> QED BY <2>1, <2>2, Zenon DEF Inv, TypeOK
<1>2. Inv /\ [Next]_vars => Inv'
  <2> SUFFICES ASSUME Inv, [Next]_vars PROVE Inv' OBVIOUS
  <2>1. CASE UNCHANGED vars BY <2>1 DEF vars, Inv, Exact, TypeOK, SubWide, AddWide
  <2>2. ASSUME NEW c \in 1 .. MaxBlock, Ins(c) PROVE Inv'
    <3>1. TypeOK' BY <2>2, Widths DEF Ins, Inv, TypeOK, AddWide
    <3>2. ~ written => Exact'
      BY <2>2, Widths DEF Ins, Inv, Exact, TypeOK, SubWide, AddWide
    <3>3. spent' > 0 /\ written' = written BY <2>2, Widths DEF Ins, Inv, TypeOK
    <3> QED BY <3>1, <3>2, <3>3 DEF Inv
  <2>3. CASE update_tsc
    <3>1. tsc' \in 0 .. Wide - 1
      BY <2>3, UpdateType, Widths DEF update_tsc, Inv, TypeOK
    <3>2. TypeOK' BY <2>3, <3>1 DEF update_tsc, Inv, TypeOK
    <3>3. ~ written => tsc' = AddWide(base, spent)
      BY <2>3, UpdateExact, Widths DEF update_tsc, Inv, TypeOK
    <3>4. ~ written => Exact'
      BY <2>3, <3>3, Widths DEF update_tsc, Inv, Exact, TypeOK, AddWide, SubWide
    <3>5. UNCHANGED <<spent, written>> BY <2>3 DEF update_tsc
    <3> QED BY <3>2, <3>4, <3>5 DEF Inv
  <2>4. CASE opRDTSC
    <3>1. spent + 1 \in spent .. MaxBlock /\ spent + 1 \in 0 .. MaxBlock
      BY <2>4, Widths DEF opRDTSC, Inv, TypeOK
    <3>2. tsc' \in 0 .. Wide - 1
      BY <2>4, <3>1, UpdateType DEF opRDTSC, RdtscTotal, Inv
    <3>3. TypeOK' BY <2>4, <3>1, <3>2, Widths DEF opRDTSC, Inv, TypeOK, AddWide
    <3>4. ~ written => tsc' = AddWide(base, spent + 1)
      BY <2>4, <3>1, UpdateExact DEF opRDTSC, RdtscTotal, Inv
    <3>5. ~ written => Exact'
      BY <2>4, <3>4, Widths DEF opRDTSC, Inv, Exact, TypeOK, AddWide, SubWide
    <3>6. spent' > 0 /\ written' = written BY <2>4, Widths DEF opRDTSC, Inv, TypeOK
    <3> QED BY <3>3, <3>5, <3>6 DEF Inv
  <2>5. ASSUME NEW k \in Writes, opWRMSR(k) PROVE Inv'
    <3>1. Updated(spent) \in 0 .. Wide - 1 /\ k \in 0 .. Wide - 1
      BY UpdateType, CyclesAssumption DEF Inv, TypeOK
    <3>2. tsc' \in 0 .. Wide - 1 BY <2>5, <3>1, Widths DEF opWRMSR, AddWide
    <3> QED BY <2>5, <3>2, Widths DEF opWRMSR, Inv, TypeOK
  <2>6. CASE BlockEnd
    <3>1. tsc' \in 0 .. Wide - 1
      BY <2>6, UpdateType, Widths DEF BlockEnd, Inv, TypeOK
    <3>2. base' = tsc' /\ spent' = 0 BY <2>6 DEF BlockEnd
    <3>3. ideal' = tsc'
      <4>1. CASE written BY <2>6, <4>1, Zenon DEF BlockEnd
      <4>2. CASE ~ written
        <5>1. tsc' = AddWide(base, spent)
          BY <2>6, <4>2, UpdateExact, Widths DEF BlockEnd, Inv, TypeOK
        <5>2. ideal' = ideal BY <2>6, <4>2, Zenon DEF BlockEnd
        <5> QED BY <4>2, <5>1, <5>2 DEF Inv, Exact
      <4> QED BY <4>1, <4>2, Zenon
    <3>4. Exact'
      <4>1. SubWide(tsc', tsc') = 0 BY <3>1, NothingWide
      <4>2. AddWide(tsc', 0) = tsc' BY <3>1, NothingWide
      <4>3. 0 <= 0 OBVIOUS
      <4>4. SubWide(tsc', base') <= spent' BY ONLY <3>2, <4>1, <4>3, Zenon
      <4>5. ideal' = AddWide(base', spent') BY ONLY <3>2, <3>3, <4>2, Zenon
      <4> QED BY <4>4, <4>5 DEF Exact
    <3>5. 0 \in 0 .. MaxBlock BY Widths
    <3>6. written' = FALSE BY <2>6 DEF BlockEnd
    <3> QED BY <3>1, <3>2, <3>3, <3>4, <3>5, <3>6, Zenon DEF Inv, TypeOK
  <2> QED BY ONLY <2>1, <2>2, <2>3, <2>4, <2>5, <2>6, [Next]_vars, Zenon DEF Next
<1> QED BY <1>1, <1>2, PTL DEF Spec

(* Types are kept. *)
THEOREM CyclesTypeCorrect == Spec => []TypeOK
<1>1. Inv => TypeOK BY DEF Inv
<1> QED BY <1>1, CyclesInvariant, PTL

(* When a block is over, every cycle it spent has been added once.         *)
THEOREM CyclesCountedOnce == Spec => []CountedOnce
<1>1. Inv => CountedOnce BY Widths DEF Inv, Exact, TypeOK, CountedOnce, SubWide, AddWide
<1> QED BY <1>1, CyclesInvariant, PTL

(* Within a block the counter never runs ahead of the CPU.                 *)
THEOREM CyclesNeverAhead == Spec => []NeverAhead
<1>1. Inv => NeverAhead BY Widths DEF Inv, Exact, TypeOK, NeverAhead, SubWide, AddWide
<1> QED BY <1>1, CyclesInvariant, PTL

(* A guest that polls RDTSC sees time pass.                                *)
THEOREM CyclesRdtscAdvances == Spec => RdtscAdvances
<1>1. Inv /\ [Next]_vars =>
         [opRDTSC /\ ~ written => SubWide(tsc', tsc) \in 1 .. MaxBlock]_vars
  <2> SUFFICES ASSUME Inv, opRDTSC, ~ written PROVE SubWide(tsc', tsc) \in 1 .. MaxBlock
    OBVIOUS
  <2>1. spent + 1 \in spent .. MaxBlock
    BY Widths DEF opRDTSC, Inv, TypeOK
  <2>2. tsc' = AddWide(base, spent + 1)
    BY <2>1, UpdateExact DEF opRDTSC, RdtscTotal, Inv
  <2> QED BY <2>1, <2>2, Widths DEF Inv, Exact, TypeOK, AddWide, SubWide
<1> QED BY <1>1, CyclesInvariant, PTL DEF Spec, RdtscAdvances
==============================================================================
