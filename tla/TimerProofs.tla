---------------------------- MODULE TimerProofs ----------------------------
(***************************************************************************)
(* Proofs about Timer, for any number of timers, any width of the time     *)
(* stamp counter and any delays inside the window that timer.h names.      *)
(***************************************************************************)
EXTENDS Timer, SequenceTheorems, TLAPS

-----------------------------------------------------------------------------
(* What taking one element out of a sequence, and putting one in, does to  *)
(* its positions.  The timer list is such a sequence.                      *)

(* No element occurs twice. *)
NoRepeats(q) == \A i, j \in DOMAIN q : i # j => q[i] # q[j]

(* RemoveAt(q, k) is q with the elements behind position k moved up, as a  *)
(* timer is unlinked from the list (timer.c, timer_disable).               *)
LEMMA RemoveAtProperties ==
  ASSUME NEW S, NEW q \in Seq(S), NEW k \in 1 .. Len(q)
  PROVE  /\ RemoveAt(q, k) \in Seq(S)
         /\ Len(RemoveAt(q, k)) = Len(q) - 1
         /\ \A j \in 1 .. Len(q) - 1 :
               RemoveAt(q, k)[j] = IF j < k THEN q[j] ELSE q[j + 1]
<1> DEFINE a == SubSeq(q, 1, k - 1)
           b == SubSeq(q, k + 1, Len(q))
<1>1. a \in Seq(S) /\ Len(a) = k - 1 /\ \A j \in 1 .. k - 1 : a[j] = q[j]
  OBVIOUS
<1>2. /\ b \in Seq(S) /\ Len(b) = Len(q) - k
      /\ \A j \in 1 .. Len(q) - k : b[j] = q[k + j]
  OBVIOUS
<1> HIDE DEF a, b
<1>3. /\ a \o b \in Seq(S) /\ Len(a \o b) = Len(q) - 1
      /\ \A j \in 1 .. Len(q) - 1 :
            (a \o b)[j] = IF j <= k - 1 THEN a[j] ELSE b[j - (k - 1)]
  BY <1>1, <1>2, ConcatProperties
<1>4. \A j \in 1 .. Len(q) - 1 : (a \o b)[j] = IF j < k THEN q[j] ELSE q[j + 1]
  <2> TAKE j \in 1 .. Len(q) - 1
  <2>1. CASE j < k BY <2>1, <1>1, <1>3
  <2>2. CASE ~ (j < k)
    <3>1. j - (k - 1) \in 1 .. Len(q) - k /\ k + (j - (k - 1)) = j + 1
      BY <2>2
    <3>2. (a \o b)[j] = b[j - (k - 1)] BY <1>3, <2>2
    <3> QED BY <3>1, <3>2, <2>2, <1>2
  <2> QED BY <2>1, <2>2
<1>5. RemoveAt(q, k) = a \o b BY DEF RemoveAt, a, b
<1> QED BY <1>3, <1>4, <1>5

(* InsertAt(q, k, e) is q with the elements from position k on moved down, *)
(* as a timer is linked into the list (timer.c, timer_enable).             *)
LEMMA InsertAtProperties ==
  ASSUME NEW S, NEW q \in Seq(S), NEW k \in 1 .. Len(q) + 1, NEW e \in S
  PROVE  /\ InsertAt(q, k, e) \in Seq(S)
         /\ Len(InsertAt(q, k, e)) = Len(q) + 1
         /\ \A j \in 1 .. Len(q) + 1 :
               InsertAt(q, k, e)[j] = IF j < k THEN q[j]
                                      ELSE IF j = k THEN e ELSE q[j - 1]
<1> DEFINE a == SubSeq(q, 1, k - 1)
           b == SubSeq(q, k, Len(q))
           c == a \o <<e>>
<1>1. a \in Seq(S) /\ Len(a) = k - 1 /\ \A j \in 1 .. k - 1 : a[j] = q[j]
  OBVIOUS
<1>2. /\ b \in Seq(S) /\ Len(b) = Len(q) - k + 1
      /\ \A j \in 1 .. Len(q) - k + 1 : b[j] = q[k + j - 1]
  OBVIOUS
<1>3. InsertAt(q, k, e) = c \o b BY DEF InsertAt
<1> HIDE DEF a, b
<1>4. /\ c \in Seq(S) /\ Len(c) = k
      /\ \A j \in 1 .. k : c[j] = IF j <= k - 1 THEN a[j] ELSE e
  BY <1>1, ConcatProperties, <<e>> \in Seq(S), Len(<<e>>) = 1, <<e>>[1] = e
<1> HIDE DEF c
<1>5. /\ c \o b \in Seq(S) /\ Len(c \o b) = Len(q) + 1
      /\ \A j \in 1 .. Len(q) + 1 :
            (c \o b)[j] = IF j <= k THEN c[j] ELSE b[j - k]
  BY <1>2, <1>4, ConcatProperties
<1>6. ASSUME NEW j \in 1 .. Len(q) + 1
      PROVE  (c \o b)[j] = IF j < k THEN q[j] ELSE IF j = k THEN e ELSE q[j - 1]
  <2>1. CASE j < k BY <2>1, <1>1, <1>4, <1>5
  <2>2. CASE j = k BY <2>2, <1>4, <1>5
  <2>3. CASE j > k
    <3>1. j - k \in 1 .. Len(q) - k + 1 /\ k + (j - k) - 1 = j - 1 BY <2>3
    <3>2. (c \o b)[j] = b[j - k] BY <1>5, <2>3
    <3>3. b[j - k] = q[j - 1] BY <3>1, <1>2
    <3>4. ~ (j < k) /\ ~ (j = k) BY <2>3
    <3>5. (c \o b)[j] = q[j - 1] BY <3>2, <3>3
    <3> QED BY <3>4, <3>5, Zenon
  <2>4. j < k \/ j = k \/ j > k OBVIOUS
  <2> QED BY <2>1, <2>2, <2>3, <2>4, Zenon
<1> QED BY <1>3, <1>5, <1>6

(* The same, as two facts that name the sequence once. *)
LEMMA InsertAtIsSeq ==
  ASSUME NEW S, NEW q \in Seq(S), NEW k \in 1 .. Len(q) + 1, NEW e \in S
  PROVE  InsertAt(q, k, e) \in Seq(S) /\ Len(InsertAt(q, k, e)) = Len(q) + 1
BY InsertAtProperties

LEMMA InsertAtElement ==
  ASSUME NEW S, NEW q \in Seq(S), NEW k \in 1 .. Len(q) + 1, NEW e \in S,
         NEW j \in 1 .. Len(q) + 1
  PROVE  InsertAt(q, k, e)[j] = IF j < k THEN q[j]
                                ELSE IF j = k THEN e ELSE q[j - 1]
BY InsertAtProperties

-----------------------------------------------------------------------------
(* Cycles until a timestamp, and the furthest one ahead. *)
Off(s) == Signed(SubInt(s.integer, tsc))
Reach  == Half - MaxStep - 1

(* Stamp a is not later than stamp b. *)
Precedes(a, b) == Off(a) < Off(b) \/ (Off(a) = Off(b) /\ a.frac <= b.frac)

(* An enabled timer is overdue by no more than one CPU step, and only      *)
(* while timer_process() runs.                                             *)
Low == IF pc = "cpu" THEN 0 ELSE - MaxStep
InWindow == \A t \in Enabled : Offset(t) \in Low .. Reach

SortedList ==
    \A i, j \in DOMAIN list : i < j => Precedes(ts[list[i]], ts[list[j]])

(* The CPU never runs with an overdue target. *)
TargetAhead ==
    pc = "cpu" => /\ 0 <= Signed(SubInt(target, tsc))
                  /\ Signed(SubInt(target, tsc)) <= Offset(list[1])

(* in_callback belongs to the timer whose callback runs; until that timer  *)
(* is armed again its timestamp is the one it just reached.                *)
CallbackShape ==
    /\ pc = "callback" => cur \in Timers
    /\ inCallback \subseteq {cur}
    /\ pc # "callback" => inCallback = {}
    /\ \A t \in inCallback \ Enabled : Offset(t) \in - MaxStep .. 0

(* The RTC timer is enabled, or its callback is about to enable it. *)
OnesecResident ==
    IF pc = "callback" /\ cur = Onesec THEN Onesec \in inCallback \ Enabled
                                       ELSE Onesec \in Enabled

(* A timer has a period left exactly while it is split and enabled. *)
SplitShape ==
    /\ split \subseteq OnAuto \cap Enabled
    /\ \A t \in Timers : t \in split <=> period[t] > 0

(* Timestamps stand for the delays added up. *)
ExactStamps ==
    \A t \in Enabled \cup inCallback : left[t] = Offset(t) * Frac + ts[t].frac

(* What was asked for is what is armed and what is still to be armed, up   *)
(* to the rounding of the last piece.                                      *)
Error(t) == asked[t] - period[t] * TIMER_USEC - Grain * left[t]
Slack(more) == IF more THEN {0} ELSE - Rounding .. Grain - 1 + Rounding
Rounded == \A t \in Enabled : Error(t) \in Slack(t \in split)

Inv == /\ TypeOK /\ InWindow /\ SortedList /\ TargetAhead
       /\ CallbackShape /\ OnesecResident /\ SplitShape
       /\ ExactStamps /\ Rounded

-----------------------------------------------------------------------------
(* The list without a timer is a list without it, in the old order.        *)
LEMMA WithoutProperties ==
  ASSUME NEW S, NEW q \in Seq(S), NoRepeats(q), NEW t
  PROVE  /\ Without(q, t) \in Seq(S)
         /\ NoRepeats(Without(q, t))
         /\ ToSet(Without(q, t)) = ToSet(q) \ {t}
         /\ \A i, j \in DOMAIN Without(q, t) : i < j =>
               \E k, l \in DOMAIN q : k < l /\ Without(q, t)[i] = q[k]
                                            /\ Without(q, t)[j] = q[l]
<1>1. CASE t \notin ToSet(q)
  BY <1>1 DEF Without
<1>2. CASE t \in ToSet(q)
  <2> DEFINE n == CHOOSE i \in DOMAIN q : q[i] = t
             w == RemoveAt(q, n)
  <2>1. n \in 1 .. Len(q) /\ q[n] = t BY <1>2 DEF ToSet
  <2>2. Without(q, t) = w BY <1>2 DEF Without
  <2> HIDE DEF n
  <2>3. /\ w \in Seq(S) /\ Len(w) = Len(q) - 1 /\ Len(q) \in Nat
        /\ \A j \in 1 .. Len(q) - 1 : w[j] = IF j < n THEN q[j] ELSE q[j + 1]
    BY <2>1, RemoveAtProperties
  <2> HIDE DEF w
  <2>4. DOMAIN w = 1 .. Len(q) - 1 /\ DOMAIN q = 1 .. Len(q) BY <2>3
  <2> DEFINE f(j) == IF j < n THEN j ELSE j + 1
  <2>5. \A j \in DOMAIN w : f(j) \in DOMAIN q /\ f(j) # n /\ w[j] = q[f(j)]
    BY <2>1, <2>3, <2>4
  <2>6. \A i, j \in DOMAIN w : i < j => f(i) < f(j) BY <2>1, <2>4
  <2>7. NoRepeats(w)
    <3> SUFFICES ASSUME NEW i \in DOMAIN w, NEW j \in DOMAIN w, i < j
                 PROVE  w[i] # w[j]
      BY <2>4 DEF NoRepeats
    <3> QED BY <2>4, <2>5, <2>6 DEF NoRepeats
  <2>8. ToSet(w) \subseteq ToSet(q) \ {t}
    BY <2>1, <2>4, <2>5 DEF ToSet, NoRepeats
  <2>9. ToSet(q) \ {t} \subseteq ToSet(w)
    <3> SUFFICES ASSUME NEW k \in 1 .. Len(q), q[k] # t PROVE q[k] \in ToSet(w)
      BY <2>4 DEF ToSet
    <3>1. k # n BY <2>1
    <3>2. CASE k < n
      <4>1. k \in 1 .. Len(q) - 1 /\ w[k] = q[k] BY <3>2, <2>1, <2>3
      <4> QED BY <4>1, <2>4 DEF ToSet
    <3>3. CASE k > n
      <4>1. k - 1 \in 1 .. Len(q) - 1 /\ ~ (k - 1 < n) /\ (k - 1) + 1 = k
        BY <3>3, <2>1
      <4>2. w[k - 1] = q[k] BY <4>1, <2>3
      <4> QED BY <4>1, <4>2, <2>4 DEF ToSet
    <3> QED BY <3>1, <3>2, <3>3, <2>1
  <2>10. \A i, j \in DOMAIN w : i < j =>
            \E k, l \in DOMAIN q : k < l /\ w[i] = q[k] /\ w[j] = q[l]
    BY <2>5, <2>6
  <2> QED BY <2>2, <2>3, <2>7, <2>8, <2>9, <2>10
<1> QED BY <1>1, <1>2

-----------------------------------------------------------------------------
(* Wrapped arithmetic.                                                     *)

(* Inside the window, the wrapped 64-bit comparison of two timestamps is   *)
(* the comparison of their distances from the counter.                     *)
LEMMA LessThanInWindow ==
  ASSUME NEW a \in Stamp, NEW b \in Stamp, tsc \in Integer,
         Off(a) - Off(b) < Half, Off(b) - Off(a) < Half
  PROVE  TIMER_LESS_THAN(a, b) <=> Precedes(a, b)
<1> USE StampAssumption DEF Modulus, Integer, Stamp
<1>1. /\ a.integer \in Integer /\ b.integer \in Integer
      /\ a.frac \in 0 .. Frac - 1 /\ b.frac \in 0 .. Frac - 1
  OBVIOUS
<1> DEFINE D == Off(a) - Off(b)
           n == SubInt(a.integer, b.integer)
           r == IF a.frac < b.frac THEN 1 ELSE 0
<1>2. Off(a) \in Int /\ Off(b) \in Int BY <1>1 DEF Off, Signed, SubInt
<1>3. n = IF D >= 0 THEN D ELSE D + Modulus
  BY <1>1 DEF Off, Signed, SubInt
<1> HIDE DEF D, n
<1>4. D \in Int /\ D > - Half /\ D < Half BY <1>2 DEF D
<1>5. TIMER_LESS_THAN(a, b) <=>
         \/ SubInt(n, r) = 0 /\ a.frac = b.frac
         \/ SubInt(n, r) >= Half
  BY DEF TIMER_LESS_THAN, n
<1>6. SubInt(n, r) = IF D - r >= 0 THEN D - r ELSE D - r + Modulus
  BY <1>3, <1>4 DEF SubInt
<1>7. Precedes(a, b) <=> D < 0 \/ (D = 0 /\ a.frac <= b.frac)
  BY <1>2 DEF Precedes, D
<1> QED
  BY <1>1, <1>4, <1>5, <1>6, <1>7

(* timer_set_delay_u64(): the new timestamp is the delay ahead. *)
LEMMA SetDelayStamp ==
  ASSUME NEW d \in Delay, tsc \in Integer
  PROVE  LET s == AddStamp(AtTsc(tsc), d)
         IN  s \in Stamp /\ Off(s) = d.integer /\ s.frac = d.frac
<1> USE StampAssumption, DelayAssumption DEF Modulus, Integer, Stamp, Delay, Window
<1>1. d.integer \in 0 .. Window /\ d.frac \in 0 .. Frac - 1
  OBVIOUS
<1> QED
  BY <1>1 DEF AddStamp, AddInt, AtTsc, Off, Signed, SubInt

(* timer_advance_u64() on a timer that is due: the new timestamp is the    *)
(* delay after the old one and stays in reach.                             *)
LEMMA AdvanceStamp ==
  ASSUME NEW s \in Stamp, NEW d \in Delay, tsc \in Integer,
         Off(s) \in - MaxStep .. 0
  PROVE  LET a == AddStamp(s, d)
         IN  /\ a \in Stamp /\ Off(a) \in - MaxStep .. Reach
             /\ Off(a) * Frac + a.frac = (Off(s) * Frac + s.frac) + Units(d)
<1> USE StampAssumption, DelayAssumption DEF Modulus, Integer, Stamp, Delay, Window
<1> DEFINE c == IF s.frac + d.frac >= Frac THEN 1 ELSE 0
           a == AddStamp(s, d)
<1>1. /\ d.integer \in 0 .. Window /\ d.frac \in 0 .. Frac - 1
      /\ s.integer \in Integer /\ s.frac \in 0 .. Frac - 1
  OBVIOUS
<1>2. a \in Stamp /\ a.frac = s.frac + d.frac - c * Frac /\ c \in {0, 1}
  BY <1>1 DEF AddStamp, AddInt
<1>3. Off(a) = Off(s) + d.integer + c /\ Off(a) \in - MaxStep .. Reach
  BY <1>1 DEF AddStamp, AddInt, Off, Signed, SubInt, Reach
<1>4. Off(s) \in Int OBVIOUS
<1>5. Off(a) * Frac + a.frac = (Off(s) * Frac + s.frac) + Units(d)
  <2> HIDE DEF a, c
  <2>1. \A x, y \in Int : (x + y + c) * Frac = x * Frac + y * Frac + c * Frac
    BY <1>2
  <2> QED BY <1>1, <1>2, <1>3, <1>4, <2>1 DEF Units
<1> QED BY <1>2, <1>3, <1>5

-----------------------------------------------------------------------------
(* The list operations.                                                    *)

(* The wrapped distances are integers in range. *)
LEMMA OffType ==
  ASSUME TypeOK
  PROVE  /\ \A s \in Stamp : Off(s) \in - Half .. Half - 1
         /\ \A t \in Timers : ts[t] \in Stamp /\ Offset(t) = Off(ts[t])
         /\ Signed(SubInt(target, tsc)) \in Int
<1>1. \A m, n \in Integer : Signed(SubInt(m, n)) \in - Half .. Half - 1
  BY StampAssumption DEF Signed, SubInt, Integer, Modulus
<1>2. \A s \in Stamp : s.integer \in Integer BY DEF Stamp
<1>3. tsc \in Integer /\ target \in Integer BY DEF TypeOK
<1>4. \A s \in Stamp : Off(s) \in - Half .. Half - 1
  BY <1>1, <1>2, <1>3 DEF Off
<1>5. \A t \in Timers : ts[t] \in Stamp /\ Offset(t) = Off(ts[t])
  BY DEF TypeOK, Off, Offset
<1>6. Signed(SubInt(target, tsc)) \in Int
  BY <1>1, <1>3, StampAssumption
<1> QED BY <1>4, <1>5, <1>6

(* timer_enable() with a timestamp in the window: the timer is in the list *)
(* once, the list is sorted, and the target is not behind the head.        *)
LEMMA EnableStep ==
  ASSUME TypeOK, InWindow, SortedList, TargetAhead,
         NEW t \in Timers, NEW s \in Stamp, Off(s) \in Low .. Reach,
         timer_enable(t, s), tsc' = tsc, pc' = pc \/ pc' = "loop"
  PROVE  /\ list' \in Seq(Timers) /\ NoRepeats(list')
         /\ Enabled' = Enabled \cup {t}
         /\ ts' = [ts EXCEPT ![t] = s] /\ ts' \in [Timers -> Stamp]
         /\ target' \in Integer
         /\ InWindow' /\ SortedList' /\ TargetAhead'
<1> DEFINE rest == Without(list, t)
<1>1. PICK i \in 1 .. Len(rest) + 1 :
         /\ GoesAt(rest, ts, s, i)
         /\ list' = InsertAt(rest, i, t)
         /\ ts' = [ts EXCEPT ![t] = s]
         /\ target' = TargetFor(i, s)
  BY DEF timer_enable
<1>2. /\ rest \in Seq(Timers) /\ NoRepeats(rest) /\ ToSet(rest) = Enabled \ {t}
      /\ \A m, n \in DOMAIN rest : m < n =>
            \E k, l \in DOMAIN list : k < l /\ rest[m] = list[k] /\ rest[n] = list[l]
  <2>1. list \in Seq(Timers) /\ NoRepeats(list) BY DEF TypeOK, NoRepeats
  <2>2. /\ rest \in Seq(Timers) /\ NoRepeats(rest) /\ ToSet(rest) = ToSet(list) \ {t}
        /\ \A m, n \in DOMAIN rest : m < n =>
              \E k, l \in DOMAIN list : k < l /\ rest[m] = list[k] /\ rest[n] = list[l]
    BY <2>1, WithoutProperties
  <2> QED BY <2>2 DEF Enabled
<1> HIDE DEF rest
<1>3. /\ list' \in Seq(Timers) /\ Len(list') = Len(rest) + 1
      /\ \A j \in 1 .. Len(rest) + 1 :
            list'[j] = IF j < i THEN rest[j] ELSE IF j = i THEN t ELSE rest[j - 1]
  <2>1. /\ InsertAt(rest, i, t) \in Seq(Timers)
        /\ Len(InsertAt(rest, i, t)) = Len(rest) + 1
        /\ \A j \in 1 .. Len(rest) + 1 :
              InsertAt(rest, i, t)[j] =
                 IF j < i THEN rest[j] ELSE IF j = i THEN t ELSE rest[j - 1]
    <3>1. rest \in Seq(Timers) BY <1>2
    <3>2. i \in 1 .. Len(rest) + 1 /\ t \in Timers OBVIOUS
    <3>3. InsertAt(rest, i, t) \in Seq(Timers) /\ Len(InsertAt(rest, i, t)) = Len(rest) + 1
      BY ONLY <3>1, <3>2, InsertAtIsSeq, Zenon
    <3>4. ASSUME NEW j \in 1 .. Len(rest) + 1
          PROVE  InsertAt(rest, i, t)[j] =
                    IF j < i THEN rest[j] ELSE IF j = i THEN t ELSE rest[j - 1]
      BY ONLY <3>1, <3>2, j \in 1 .. Len(rest) + 1, InsertAtElement, SMT
    <3> QED BY ONLY <3>3, <3>4, Zenon
  <2> QED BY <2>1, <1>1, Zenon
<1>4. /\ DOMAIN list' = 1 .. Len(rest) + 1 /\ DOMAIN rest = 1 .. Len(rest)
      /\ Len(rest) \in Nat
  BY <1>2, <1>3
<1>5. \A m \in DOMAIN rest : rest[m] \in Timers /\ rest[m] # t /\ rest[m] \in Enabled
  BY <1>2 DEF ToSet
<1>6. NoRepeats(list')
  <2> SUFFICES ASSUME NEW m \in 1 .. Len(rest) + 1, NEW n \in 1 .. Len(rest) + 1, m < n
               PROVE  list'[m] # list'[n]
    BY <1>4 DEF NoRepeats
  <2>1. CASE n < i BY <2>1, <1>2, <1>3, <1>4 DEF NoRepeats
  <2>2. CASE n = i BY <2>2, <1>3, <1>4, <1>5
  <2>3. CASE m = i BY <2>3, <1>3, <1>4, <1>5
  <2>4. CASE m < i /\ n > i
    <3>1. /\ m \in DOMAIN rest /\ n - 1 \in DOMAIN rest /\ m # n - 1
          /\ list'[m] = rest[m] /\ list'[n] = rest[n - 1]
      BY <2>4, <1>3, <1>4
    <3> QED BY <3>1, <1>2 DEF NoRepeats
  <2>5. CASE m > i
    <3>1. m - 1 \in DOMAIN rest /\ n - 1 \in DOMAIN rest /\ m - 1 # n - 1
      BY <2>5, <1>4
    <3>2. list'[m] = rest[m - 1] BY <2>5, <1>3, <1>4
    <3>3. list'[n] = rest[n - 1] BY <2>5, <1>3, <1>4
    <3> QED BY <3>1, <3>2, <3>3, <1>2 DEF NoRepeats
  <2> QED BY <2>1, <2>2, <2>3, <2>4, <2>5
<1>7. Enabled' = Enabled \cup {t}
  <2>1. t \in Enabled'
    BY <1>3, <1>4 DEF Enabled, ToSet
  <2>2. ASSUME NEW x \in Enabled, x # t PROVE x \in Enabled'
    <3>1. PICK m \in 1 .. Len(rest) : rest[m] = x BY <2>2, <1>2, <1>4 DEF ToSet
    <3>2. CASE m < i BY <3>1, <3>2, <1>3, <1>4 DEF Enabled, ToSet
    <3>3. CASE m >= i
      <4>1. m + 1 \in 1 .. Len(rest) + 1 /\ list'[m + 1] = rest[m]
        BY <3>3, <1>3, <1>4
      <4> QED BY <3>1, <4>1, <1>4 DEF Enabled, ToSet
    <3> QED BY <3>2, <3>3, <1>4
  <2>3. ASSUME NEW j \in 1 .. Len(rest) + 1 PROVE list'[j] \in Enabled \cup {t}
    <3>1. CASE j < i BY <3>1, <1>3, <1>4, <1>5
    <3>2. CASE j = i BY <3>2, <1>3
    <3>3. CASE j > i
      <4>1. j - 1 \in DOMAIN rest /\ list'[j] = rest[j - 1] BY <3>3, <1>3, <1>4
      <4> QED BY <4>1, <1>5
    <3> QED BY <3>1, <3>2, <3>3
  <2> QED BY <2>1, <2>2, <2>3, <1>4 DEF Enabled, ToSet
<1>8. ts' \in [Timers -> Stamp] BY <1>1 DEF TypeOK
<1>9. target' \in Integer BY <1>1 DEF TypeOK, TargetFor, Stamp
<1>10. /\ \A x \in Timers : ts'[x] = IF x = t THEN s ELSE ts[x]
       /\ \A x \in Timers : Offset(x)' = IF x = t THEN Off(s) ELSE Offset(x)
       /\ \A a \in Stamp : Off(a)' = Off(a)
       /\ \A a, b \in Stamp : Precedes(a, b)' <=> Precedes(a, b)
  BY <1>1 DEF TypeOK, Offset, Off, Precedes
<1>11. InWindow'
  <2>1. Low' = Low \/ Low' = - MaxStep BY DEF Low
  <2>2. \A n \in Low .. Reach : n \in Low' .. Reach
    BY <2>1, DelayAssumption, StampAssumption DEF Low, Reach
  <2>3. Reach' = Reach BY DEF Reach
  <2> SUFFICES ASSUME NEW x \in Enabled' PROVE Offset(x)' \in Low' .. Reach
    BY <2>3 DEF InWindow
  <2>4. x \in Timers BY <1>3, <1>4 DEF Enabled, ToSet
  <2>5. x = t \/ x \in Enabled BY <1>7
  <2> QED BY <2>2, <2>4, <2>5, <1>10 DEF InWindow
<1>12. SortedList'
  <2>1. \A m \in DOMAIN rest :
           /\ ts[rest[m]] \in Stamp
           /\ TIMER_LESS_THAN(s, ts[rest[m]]) <=> Precedes(s, ts[rest[m]])
    <3> TAKE m \in DOMAIN rest
    <3>1. ts[rest[m]] \in Stamp /\ Off(ts[rest[m]]) \in Low .. Reach
      BY <1>5, OffType DEF InWindow
    <3>2. Off(s) \in Int /\ Off(ts[rest[m]]) \in Int BY <3>1, OffType
    <3>3. /\ Off(s) - Off(ts[rest[m]]) < Half
          /\ Off(ts[rest[m]]) - Off(s) < Half
      BY <3>1, <3>2, DelayAssumption, StampAssumption DEF Low, Reach
    <3> QED BY <3>1, <3>3, LessThanInWindow DEF TypeOK
  <2>2. \A m, n \in DOMAIN rest : m < n => Precedes(ts[rest[m]], ts[rest[n]])
    BY <1>2 DEF SortedList
  <2>3. \A a, b, c \in Stamp :
           /\ Precedes(a, b) /\ Precedes(b, c) => Precedes(a, c)
           /\ ~ Precedes(a, b) => Precedes(b, a)
    <3> SUFFICES ASSUME NEW a \in Stamp, NEW b \in Stamp, NEW c \in Stamp
                 PROVE  /\ Precedes(a, b) /\ Precedes(b, c) => Precedes(a, c)
                        /\ ~ Precedes(a, b) => Precedes(b, a)
      OBVIOUS
    <3>1. /\ Off(a) \in Int /\ Off(b) \in Int /\ Off(c) \in Int
          /\ a.frac \in Int /\ b.frac \in Int /\ c.frac \in Int
      BY OffType, StampAssumption DEF Stamp
    <3> QED BY <3>1 DEF Precedes
  <2>4. \A m \in 1 .. i - 1 : Precedes(ts[rest[m]], s)
    BY <1>1, <1>4, <2>1, <2>3 DEF GoesAt
  <2>5. \A m \in i .. Len(rest) : Precedes(s, ts[rest[m]])
    <3> TAKE m \in i .. Len(rest)
    <3>1. i \in DOMAIN rest /\ m \in DOMAIN rest BY <1>4
    <3>2. Precedes(s, ts[rest[i]]) BY <3>1, <1>1, <1>4, <2>1 DEF GoesAt
    <3> QED BY <3>1, <3>2, <2>1, <2>2, <2>3, <1>4
  <2> SUFFICES ASSUME NEW m \in 1 .. Len(rest) + 1, NEW n \in 1 .. Len(rest) + 1, m < n
               PROVE  Precedes(ts'[list'[m]], ts'[list'[n]])
    <3>1. \A k \in 1 .. Len(rest) + 1 : ts'[list'[k]] \in Stamp
      BY <1>3, <1>4, <1>8
    <3> QED BY <3>1, <1>4, <1>10 DEF SortedList
  <2>6. \A k \in DOMAIN rest : ts'[rest[k]] = ts[rest[k]] BY <1>5, <1>10
  <2>7. ts'[t] = s BY <1>10
  <2>8. CASE n < i BY <2>8, <2>2, <2>6, <1>3, <1>4
  <2>9. CASE n = i BY <2>9, <2>4, <2>6, <2>7, <1>3, <1>4
  <2>10. CASE m = i
    <3>1. n - 1 \in i .. Len(rest) /\ list'[m] = t /\ list'[n] = rest[n - 1]
      BY <2>10, <1>3, <1>4
    <3> QED BY <3>1, <2>5, <2>6, <2>7, <1>4
  <2>11. CASE m < i /\ n > i
    <3>1. /\ m \in DOMAIN rest /\ n - 1 \in DOMAIN rest /\ m < n - 1
          /\ list'[m] = rest[m] /\ list'[n] = rest[n - 1]
      BY <2>11, <1>3, <1>4
    <3> QED BY <3>1, <2>2, <2>6
  <2>12. CASE m > i
    <3>1. /\ m - 1 \in DOMAIN rest /\ n - 1 \in DOMAIN rest /\ m - 1 < n - 1
          /\ m > i /\ n > i
      BY <2>12, <1>4
    <3>2. list'[m] = rest[m - 1] /\ list'[n] = rest[n - 1]
      BY ONLY <3>1, <1>3, <1>4, m \in 1 .. Len(rest) + 1, n \in 1 .. Len(rest) + 1
    <3> QED BY <3>1, <3>2, <2>2, <2>6
  <2> QED BY <2>8, <2>9, <2>10, <2>11, <2>12
<1>13. TargetAhead'
  <2> SUFFICES ASSUME pc = "cpu", pc' = "cpu"
               PROVE  /\ 0 <= Signed(SubInt(target', tsc'))
                      /\ Signed(SubInt(target', tsc')) <= Offset(list[1])'
    BY DEF TargetAhead
  <2>1. CASE i = 1
    <3>1. list'[1] = t /\ target' = s.integer BY <2>1, <1>1, <1>3, <1>4 DEF TargetFor
    <3>2. Signed(SubInt(target', tsc')) = Off(s) BY <3>1 DEF Off
    <3>3. Offset(list[1])' = Off(s) BY <3>1, <1>10
    <3> QED BY <3>2, <3>3, OffType DEF Low
  <2>2. CASE i # 1
    <3>1. 1 \in DOMAIN rest /\ list'[1] = rest[1] /\ target' = target
      BY <2>2, <1>1, <1>3, <1>4 DEF TargetFor
    <3>2. PICK k \in DOMAIN list : rest[1] = list[k]
      BY <3>1, <1>5 DEF Enabled, ToSet
    <3>3. k \in Nat /\ k >= 1 /\ 1 \in DOMAIN list /\ list[1] \in Timers /\ list[k] \in Timers
      <4>1. list \in Seq(Timers) BY DEF TypeOK
      <4> QED BY ONLY <4>1, <3>2, k \in DOMAIN list
    <3>4. Offset(list[1]) <= Offset(list[k])
      <4>1. Offset(list[1]) \in Int /\ Offset(list[k]) \in Int BY <3>3, OffType
      <4>2. CASE k = 1 BY <4>1, <4>2
      <4>3. CASE k # 1
        <5>1. Precedes(ts[list[1]], ts[list[k]]) BY <4>3, <3>2, <3>3 DEF SortedList
        <5> QED BY <5>1, <4>1, <3>3, OffType DEF Precedes
      <4> QED BY <4>2, <4>3
    <3>5. Offset(list[1])' = Offset(list[k]) BY <3>1, <3>2, <1>5, <1>10
    <3>6. Offset(list[1]) \in Int /\ Offset(list[k]) \in Int BY <3>3, OffType
    <3> QED BY <3>1, <3>4, <3>5, <3>6, OffType DEF TargetAhead
  <2> QED BY <2>1, <2>2
<1> QED BY <1>1, <1>3, <1>6, <1>7, <1>8, <1>9, <1>11, <1>12, <1>13

(* The popped list is the list without its head. *)
LEMMA TailProperties ==
  ASSUME NEW S, NEW q \in Seq(S), NoRepeats(q), q # <<>>
  PROVE  /\ Tail(q) \in Seq(S) /\ NoRepeats(Tail(q))
         /\ ToSet(Tail(q)) = ToSet(q) \ {Head(q)}
         /\ \A i, j \in DOMAIN Tail(q) : i < j =>
               \E k, l \in DOMAIN q : k < l /\ Tail(q)[i] = q[k]
                                            /\ Tail(q)[j] = q[l]
<1> DEFINE w == Tail(q)
<1>1. /\ w \in Seq(S) /\ Len(w) = Len(q) - 1 /\ Len(q) \in Nat \ {0}
      /\ \A i \in 1 .. Len(w) : w[i] = q[i + 1]
      /\ Head(q) = q[1]
  BY HeadTailProperties
<1> HIDE DEF w
<1>2. DOMAIN w = 1 .. Len(q) - 1 /\ DOMAIN q = 1 .. Len(q) BY <1>1
<1>3. \A i \in DOMAIN w : i + 1 \in DOMAIN q /\ i + 1 # 1 /\ w[i] = q[i + 1]
  BY <1>1, <1>2
<1>4. NoRepeats(w)
  <2> SUFFICES ASSUME NEW i \in DOMAIN w, NEW j \in DOMAIN w, i # j
               PROVE  w[i] # w[j]
    BY DEF NoRepeats
  <2>1. i + 1 # j + 1 BY <1>2
  <2> QED BY <2>1, <1>3 DEF NoRepeats
<1>5. ToSet(w) \subseteq ToSet(q) \ {Head(q)}
  BY <1>1, <1>2, <1>3 DEF ToSet, NoRepeats
<1>6. ToSet(q) \ {Head(q)} \subseteq ToSet(w)
  <2> SUFFICES ASSUME NEW k \in 1 .. Len(q), q[k] # Head(q) PROVE q[k] \in ToSet(w)
    BY <1>2 DEF ToSet
  <2>1. k - 1 \in DOMAIN w /\ (k - 1) + 1 = k BY <1>1, <1>2
  <2>2. w[k - 1] = q[k] BY <2>1, <1>3
  <2> QED BY <2>1, <2>2 DEF ToSet
<1>7. \A i, j \in DOMAIN w : i < j =>
         \E k, l \in DOMAIN q : k < l /\ w[i] = q[k] /\ w[j] = q[l]
  <2> TAKE i, j \in DOMAIN w
  <2> HAVE i < j
  <2>1. i + 1 < j + 1 BY <1>2
  <2> QED BY <2>1, <1>3
<1> QED BY <1>1, <1>4, <1>5, <1>6, <1>7 DEF w

(* A timer leaves the list: the rest is sorted and in the window as before. *)
LEMMA DropStep ==
  ASSUME TypeOK, InWindow, SortedList, TargetAhead,
         list' \in Seq(Timers), NoRepeats(list'),
         ToSet(list') \subseteq ToSet(list), list' # <<>> \/ pc' # "cpu",
         \A i, j \in DOMAIN list' : i < j =>
            \E k, l \in DOMAIN list : k < l /\ list'[i] = list[k] /\ list'[j] = list[l],
         ts' = ts, tsc' = tsc, target' = target,
         pc' = pc \/ (pc # "cpu" /\ pc' # "cpu")
  PROVE  InWindow' /\ SortedList' /\ TargetAhead'
<1>1. /\ \A x : Offset(x)' = Offset(x)
      /\ \A a : Off(a)' = Off(a)
      /\ \A a, b : Precedes(a, b)' <=> Precedes(a, b)
  BY DEF Offset, Off, Precedes
<1>2. InWindow'
  <2>1. Low' = Low /\ Reach' = Reach BY DEF Low, Reach
  <2> QED BY <1>1, <2>1 DEF InWindow, Enabled
<1>3. SortedList'
  <2> SUFFICES ASSUME NEW i \in DOMAIN list', NEW j \in DOMAIN list', i < j
               PROVE  Precedes(ts[list'[i]], ts[list'[j]])
    BY <1>1 DEF SortedList
  <2>1. PICK k \in DOMAIN list, l \in DOMAIN list :
           k < l /\ list'[i] = list[k] /\ list'[j] = list[l]
    OBVIOUS
  <2> QED BY <2>1 DEF SortedList
<1>4. TargetAhead'
  <2> SUFFICES ASSUME pc = "cpu", pc' = "cpu"
               PROVE  /\ 0 <= Signed(SubInt(target, tsc))
                      /\ Signed(SubInt(target, tsc)) <= Offset(list'[1])
    BY <1>1 DEF TargetAhead
  <2>1. 1 \in DOMAIN list' /\ list'[1] \in ToSet(list) BY DEF ToSet
  <2>2. PICK k \in DOMAIN list : list'[1] = list[k] BY <2>1 DEF ToSet
  <2>3. k \in Nat /\ k >= 1 /\ 1 \in DOMAIN list /\ list[1] \in Timers /\ list[k] \in Timers
    <3>1. list \in Seq(Timers) BY DEF TypeOK
    <3> QED BY ONLY <3>1, <2>2, k \in DOMAIN list
  <2>4. Offset(list[1]) \in Int /\ Offset(list[k]) \in Int BY <2>3, OffType
  <2>5. Offset(list[1]) <= Offset(list[k])
    <3>1. CASE k = 1 BY <3>1, <2>4
    <3>2. CASE k # 1
      <4>1. Precedes(ts[list[1]], ts[list[k]]) BY <3>2, <2>2, <2>3 DEF SortedList
      <4> QED BY <4>1, <2>3, <2>4, OffType DEF Precedes
    <3> QED BY <3>1, <3>2
  <2> QED BY <2>2, <2>4, <2>5, OffType DEF TargetAhead
<1> QED BY <1>2, <1>3, <1>4

(* What is arithmetic only is stated for any integers: the solvers handle  *)
(* products better one at a time.                                          *)
LEMMA ErrorShift ==
  ASSUME NEW a \in Int, NEW b \in Int, NEW l \in Int, NEW k \in Int
  PROVE  /\ Grain * k \in Int
         /\ (a - Grain * k) - b - Grain * (l - k) = a - b - Grain * l
<1>1. Grain * (l - k) = Grain * l - Grain * k BY UnitAssumption
<1>2. Grain * l \in Int /\ Grain * k \in Int BY UnitAssumption
<1> QED BY <1>1, <1>2

(* A number of fraction units is kept by its stamp. *)
LEMMA UnitsOfStamp ==
  ASSUME NEW u \in Nat
  PROVE  Units(StampOf(u)) = u
<1>1. u = (u \div Frac) * Frac + (u % Frac) BY StampAssumption
<1> QED BY <1>1 DEF StampOf, Units

(* A delay in fraction units is an integer. *)
LEMMA DelayUnits ==
  ASSUME NEW d \in Delay
  PROVE  d.integer \in 0 .. Window /\ d.frac \in 0 .. Frac - 1 /\ Units(d) \in Int
<1>1. d.integer \in 0 .. Window /\ d.frac \in 0 .. Frac - 1 BY DEF Delay
<1> QED BY <1>1, StampAssumption, DelayAssumption DEF Units

(* The last piece of a period is off by no more than the rounding of the   *)
(* product and the part of a unit that the cast drops.                     *)
LEMMA UsecError ==
  ASSUME NEW p \in 0 .. MAX_USEC * Grain
  PROVE  /\ UsecStamp(p) \in Delay
         /\ p * TIMER_USEC - Grain * Units(UsecStamp(p))
               \in - Rounding .. Grain - 1 + Rounding
<1> DEFINE n == Nearest(p * TIMER_USEC)
           u == n \div Grain
<1>1. /\ UsecStamp(p) \in Delay /\ n \in Nat
      /\ n - p * TIMER_USEC \in - Rounding .. Rounding
  BY PeriodAssumption
<1>2. UsecStamp(p) = StampOf(u) BY DEF UsecStamp
<1>3. p * TIMER_USEC \in Int BY UnitAssumption
<1> HIDE DEF n
<1>4. /\ u \in Nat /\ Grain * u \in Int
      /\ 0 <= n - Grain * u /\ n - Grain * u <= Grain - 1
  BY <1>1, UnitAssumption
<1> HIDE DEF u
<1>5. Units(UsecStamp(p)) = u BY <1>2, <1>4, UnitsOfStamp
<1> QED BY <1>1, <1>3, <1>4, <1>5, UnitAssumption

(* A full piece is exact. *)
LEMMA MaxUsecError ==
  /\ MaxUsecStamp \in Delay
  /\ (MAX_USEC * Grain) * TIMER_USEC = Grain * Units(MaxUsecStamp)
<1>1. MAX_USEC * TIMER_USEC \in Nat BY UnitAssumption
<1>2. Units(MaxUsecStamp) = MAX_USEC * TIMER_USEC
  BY <1>1, UnitsOfStamp DEF MaxUsecStamp
<1>3. (MAX_USEC * Grain) * TIMER_USEC = Grain * (MAX_USEC * TIMER_USEC)
  BY UnitAssumption
<1> QED BY <1>2, <1>3, PeriodAssumption

(* timer_do_period(): from now, or from the timestamp a due timer reached. *)
LEMMA PeriodStamp ==
  ASSUME TypeOK, NEW t \in Timers, NEW d \in Delay, NEW start \in BOOLEAN,
         ~ start => /\ Off(ts[t]) \in - MaxStep .. 0 /\ pc # "cpu"
                    /\ left[t] = Off(ts[t]) * Frac + ts[t].frac,
         timer_do_period(t, d, start)
  PROVE  \E s \in Stamp, v \in Int :
            /\ timer_enable(t, s) /\ Off(s) \in Low .. Reach
            /\ left' = [left EXCEPT ![t] = v]
            /\ v = Off(s) * Frac + s.frac
            /\ v = (IF start THEN 0 ELSE left[t]) + Units(d)
<1>1. tsc \in Integer /\ ts[t] \in Stamp /\ left[t] \in Int BY DEF TypeOK
<1>2. d.integer \in 0 .. Window /\ d.frac \in 0 .. Frac - 1 /\ Units(d) \in Int
  BY DelayUnits
<1>3. CASE start
  <2> DEFINE s == AddStamp(AtTsc(tsc), d)
  <2>1. s \in Stamp /\ Off(s) = d.integer /\ s.frac = d.frac
    BY <1>1, SetDelayStamp
  <2>2. timer_enable(t, s) /\ left' = [left EXCEPT ![t] = Units(d)]
    BY <1>3 DEF timer_do_period, timer_set_delay_u64
  <2> HIDE DEF s
  <2>3. Off(s) \in Low .. Reach
    BY <2>1, <1>2, StampAssumption, DelayAssumption DEF Low, Reach, Window
  <2>4. Units(d) = Off(s) * Frac + s.frac BY <2>1 DEF Units
  <2>5. Units(d) = (IF start THEN 0 ELSE left[t]) + Units(d) BY <1>2, <1>3
  <2> QED BY <1>2, <2>1, <2>2, <2>3, <2>4, <2>5
<1>4. CASE ~ start
  <2> DEFINE s == AddStamp(ts[t], d)
             v == left[t] + Units(d)
  <2>1. /\ s \in Stamp /\ Off(s) \in - MaxStep .. Reach
        /\ Off(s) * Frac + s.frac = (Off(ts[t]) * Frac + ts[t].frac) + Units(d)
    BY <1>1, <1>4, AdvanceStamp
  <2>2. timer_enable(t, s) /\ left' = [left EXCEPT ![t] = v]
    BY <1>4 DEF timer_do_period, timer_advance_u64
  <2>3. v \in Int /\ v = Off(s) * Frac + s.frac BY <1>1, <1>2, <1>4, <2>1
  <2>4. v = (IF start THEN 0 ELSE left[t]) + Units(d) BY <1>4
  <2> HIDE DEF s, v
  <2>5. Off(s) \in Low .. Reach BY <2>1, <1>4 DEF Low
  <2> QED BY <2>1, <2>2, <2>3, <2>4, <2>5
<1> QED BY <1>3, <1>4

-----------------------------------------------------------------------------
(* Every step preserves the invariant.                                     *)

(* A timer is armed with a timestamp in the window that stands for the     *)
(* deadline v, where a was asked for and the period w is kept for later    *)
(* pieces.                                                                 *)
LEMMA ArmStep ==
  ASSUME Inv, NEW t \in Timers, NEW s \in Stamp, NEW v \in Int, NEW a \in Int,
         NEW w \in Nat,
         timer_enable(t, s), Off(s) \in Low .. Reach,
         v = Off(s) * Frac + s.frac,
         a - w * TIMER_USEC - Grain * v \in Slack(w > 0),
         w > 0 => t \in OnAuto,
         left' = [left EXCEPT ![t] = v], asked' = [asked EXCEPT ![t] = a],
         period' = [period EXCEPT ![t] = w],
         split' = IF w > 0 THEN split \cup {t} ELSE split \ {t},
         tsc' = tsc, devices' = devices,
         \/ /\ pc' = pc /\ cur' = cur /\ t # Onesec
            /\ inCallback' = inCallback \/ inCallback' = inCallback \ {t}
         \/ pc' = "loop" /\ cur' = NoTimer /\ inCallback' = {} /\ t = Onesec
  PROVE  Inv'
<1> USE DEF Inv
<1>1. /\ list' \in Seq(Timers) /\ NoRepeats(list')
      /\ Enabled' = Enabled \cup {t}
      /\ ts' = [ts EXCEPT ![t] = s] /\ ts' \in [Timers -> Stamp]
      /\ target' \in Integer
      /\ InWindow' /\ SortedList' /\ TargetAhead'
  BY EnableStep
<1>2. TypeOK'
  <2>1. /\ period' \in [Timers -> Nat] /\ left' \in [Timers -> Int]
        /\ asked' \in [Timers -> Int]
    BY DEF TypeOK
  <2>2. split' \subseteq Timers /\ inCallback' \subseteq Timers BY DEF TypeOK
  <2>3. pc' \in {"cpu", "loop", "callback"} /\ cur' \in Timers \cup {NoTimer}
    BY DEF TypeOK
  <2> QED BY <1>1, <2>1, <2>2, <2>3 DEF TypeOK, NoRepeats
<1>3. \A x \in Timers : Offset(x)' = IF x = t THEN Off(s) ELSE Offset(x)
  BY <1>1 DEF TypeOK, Offset, Off
<1>4. Enabled \subseteq Timers BY DEF TypeOK, Enabled, ToSet
<1>5. CallbackShape'
  BY <1>1, <1>3, <1>4 DEF CallbackShape, TypeOK
<1>6. OnesecResident'
  BY <1>1 DEF OnesecResident
<1>7. SplitShape'
  BY <1>1 DEF SplitShape, TypeOK
<1>8. ExactStamps'
  <2> SUFFICES ASSUME NEW x \in (Enabled \cup inCallback)'
               PROVE  left'[x] = Offset(x)' * Frac + ts'[x].frac
    BY DEF ExactStamps
  <2>1. x \in Timers BY <1>1, <1>4 DEF TypeOK
  <2>2. CASE x = t BY <2>1, <2>2, <1>1, <1>3 DEF TypeOK
  <2>3. CASE x # t
    <3>1. x \in Enabled \cup inCallback BY <2>3, <1>1
    <3> QED BY <2>1, <2>3, <3>1, <1>1, <1>3 DEF TypeOK, ExactStamps
  <2> QED BY <2>2, <2>3
<1>9. Rounded'
  <2> SUFFICES ASSUME NEW x \in Enabled'
               PROVE  asked'[x] - period'[x] * TIMER_USEC - Grain * left'[x]
                         \in Slack(x \in split')
    BY DEF Rounded, Error, Slack
  <2>1. x \in Timers BY <1>1, <1>4
  <2>2. CASE x = t
    <3>1. asked'[x] = a /\ period'[x] = w /\ left'[x] = v BY <2>1, <2>2 DEF TypeOK
    <3>2. x \in split' <=> w > 0 BY <2>2
    <3> QED BY <3>1, <3>2 DEF Slack
  <2>3. CASE x # t
    <3>1. asked'[x] = asked[x] /\ period'[x] = period[x] /\ left'[x] = left[x]
      BY <2>1, <2>3 DEF TypeOK
    <3>2. (x \in split' <=> x \in split) /\ x \in Enabled BY <2>3, <1>1
    <3> QED BY <3>1, <3>2 DEF Rounded, Error, Slack
  <2> QED BY <2>2, <2>3
<1> QED BY <1>1, <1>2, <1>5, <1>6, <1>7, <1>8, <1>9

(* timer_advance_ex() arms a piece of the period p, for a timer that is    *)
(* started now or is due, when a is asked for.                             *)
LEMMA AdvanceExStep ==
  ASSUME Inv, NEW t \in Timers, t # Onesec, NEW p \in Nat, p > 0,
         p > MAX_USEC * Grain => t \in OnAuto,
         NEW start \in BOOLEAN,
         ~ start => /\ Off(ts[t]) \in - MaxStep .. 0 /\ pc # "cpu"
                    /\ left[t] = Off(ts[t]) * Frac + ts[t].frac,
         NEW a \in Int, a = p * TIMER_USEC + Grain * (IF start THEN 0 ELSE left[t]),
         timer_advance_ex(t, p, start), asked' = [asked EXCEPT ![t] = a],
         tsc' = tsc, pc' = pc, cur' = cur, devices' = devices
  PROVE  Inv'
<1> USE DEF Inv
<1> DEFINE base == IF start THEN 0 ELSE left[t]
<1>1. base \in Int /\ a = p * TIMER_USEC + Grain * base BY DEF TypeOK
<1>2. inCallback' = inCallback \/ inCallback' = inCallback \ {t}
  BY DEF timer_advance_ex, ClearedByDisable
<1>3. Grain \in Int /\ TIMER_USEC \in Int /\ MAX_USEC \in Nat \ {0} /\ Grain \in Nat \ {0}
  BY UnitAssumption
<1>4. MAX_USEC * Grain \in Nat BY <1>3
<1>5. \A u \in Int : Grain * (base + u) = Grain * base + Grain * u
  BY <1>1, <1>3
<1>6. Grain * base \in Int /\ p * TIMER_USEC \in Int BY <1>1, <1>3
<1>7. CASE p > MAX_USEC * Grain
  <2>1. /\ timer_do_period(t, MaxUsecStamp, start)
        /\ period' = [period EXCEPT ![t] = p - MAX_USEC * Grain]
        /\ split' = split \cup {t}
    BY <1>7 DEF timer_advance_ex, IsLong
  <2> DEFINE w == p - MAX_USEC * Grain
             u == Units(MaxUsecStamp)
  <2>2. PICK s \in Stamp, v \in Int :
           /\ timer_enable(t, s) /\ Off(s) \in Low .. Reach
           /\ left' = [left EXCEPT ![t] = v]
           /\ v = Off(s) * Frac + s.frac /\ v = base + u
    BY <2>1, MaxUsecError, PeriodStamp
  <2>3. w \in Nat /\ w > 0 BY <1>4, <1>7
  <2>4. u \in Int BY MaxUsecError, DelayUnits
  <2>5. a - w * TIMER_USEC - Grain * v \in Slack(w > 0)
    <3>1. w * TIMER_USEC = p * TIMER_USEC - (MAX_USEC * Grain) * TIMER_USEC
      BY <1>3, <1>4
    <3>2. (MAX_USEC * Grain) * TIMER_USEC = Grain * u BY MaxUsecError
    <3>3. Grain * v = Grain * base + Grain * u BY <2>2, <2>4, <1>5
    <3>4. Grain * u \in Int BY <2>4, <1>3
    <3> DEFINE A == p * TIMER_USEC
               B == Grain * base
               C == Grain * u
    <3>5. /\ a = A + B /\ w * TIMER_USEC = A - C /\ Grain * v = B + C
          /\ A \in Int /\ B \in Int /\ C \in Int
      BY ONLY <1>1, <1>6, <3>1, <3>2, <3>3, <3>4, Zenon
    <3> HIDE DEF A, B, C, w
    <3>6. a - w * TIMER_USEC - Grain * v = 0 BY ONLY <3>5
    <3> QED BY <3>6, <2>3 DEF Slack
  <2>6. period' = [period EXCEPT ![t] = w] BY <2>1
  <2> HIDE DEF w, u
  <2>7. split' = IF w > 0 THEN split \cup {t} ELSE split \ {t} BY <2>1, <2>3
  <2> HIDE DEF base
  <2> QED BY <1>2, <1>7, <2>2, <2>3, <2>5, <2>6, <2>7, ArmStep
<1>8. CASE ~ (p > MAX_USEC * Grain)
  <2>1. /\ timer_do_period(t, UsecStamp(p), start)
        /\ period' = [period EXCEPT ![t] = 0]
        /\ split' = split \ {t}
    BY <1>8 DEF timer_advance_ex, IsLong
  <2> DEFINE u == Units(UsecStamp(p))
  <2>2. p \in 0 .. MAX_USEC * Grain BY <1>4, <1>8
  <2>3. /\ UsecStamp(p) \in Delay
        /\ p * TIMER_USEC - Grain * u \in - Rounding .. Grain - 1 + Rounding
    BY <2>2, UsecError
  <2>4. PICK s \in Stamp, v \in Int :
           /\ timer_enable(t, s) /\ Off(s) \in Low .. Reach
           /\ left' = [left EXCEPT ![t] = v]
           /\ v = Off(s) * Frac + s.frac /\ v = base + u
    BY <2>1, <2>3, PeriodStamp
  <2>5. u \in Int BY <2>3, DelayUnits
  <2>6. a - 0 * TIMER_USEC - Grain * v \in Slack(0 > 0)
    <3>1. Grain * v = Grain * base + Grain * u BY <2>4, <2>5, <1>5
    <3>2. Grain * u \in Int BY <2>5, <1>3
    <3> DEFINE A == p * TIMER_USEC
               B == Grain * base
               C == Grain * u
    <3>3. /\ a = A + B /\ Grain * v = B + C /\ A \in Int /\ B \in Int /\ C \in Int
          /\ A - C \in - Rounding .. Grain - 1 + Rounding
      BY ONLY <1>1, <1>6, <2>3, <3>1, <3>2, Zenon
    <3> HIDE DEF A, B, C
    <3>4. a - Grain * v = A - C BY ONLY <3>3
    <3>5. 0 * TIMER_USEC = 0 /\ a - 0 - Grain * v = a - Grain * v
      BY ONLY <1>3, <3>3
    <3>6. a - 0 * TIMER_USEC - Grain * v = A - C BY ONLY <3>4, <3>5, Zenon
    <3> QED BY <3>3, <3>6 DEF Slack
  <2> HIDE DEF u, base
  <2>7. split' = IF 0 > 0 THEN split \cup {t} ELSE split \ {t} BY <2>1
  <2>8. 0 \in Nat /\ (0 > 0 => t \in OnAuto) OBVIOUS
  <2> QED BY <1>2, <2>1, <2>4, <2>6, <2>7, <2>8, ArmStep
<1> QED BY <1>7, <1>8

(* A delay of the u64 interface is exact. *)
LEMMA RawSlack ==
  ASSUME NEW v \in Int, NEW a \in Int, a = Grain * v
  PROVE  a - 0 * TIMER_USEC - Grain * v \in Slack(0 > 0)
<1>1. a - 0 * TIMER_USEC - Grain * v = 0 BY UnitAssumption
<1>2. Grain - 1 + Rounding >= 0 /\ - Rounding <= 0 BY UnitAssumption
<1> QED BY <1>1, <1>2 DEF Slack

(* timer_on() for a timer with no period left that is not already armed    *)
(* again in its own callback.                                              *)
LEMMA OnStep ==
  ASSUME Inv, NEW t \in OnAuto \cup Fast, NEW p \in Nat, NEW callbacks,
         p > 0, period[t] = 0, p > MAX_USEC * Grain => t \in OnAuto,
         t \in callbacks => t \in inCallback \ Enabled,
         timer_on(t, p, callbacks)
  PROVE  Inv'
<1> USE DEF Inv
<1> DEFINE start == period[t] = 0 /\ t \notin callbacks
           a == p * TIMER_USEC + IF start THEN 0 ELSE Grain * left[t]
<1>1. t \in Timers /\ t # Onesec BY TimersAssumption
<1>2. start \in BOOLEAN OBVIOUS
<1>3. ~ start => /\ Off(ts[t]) \in - MaxStep .. 0 /\ pc # "cpu"
                 /\ left[t] = Off(ts[t]) * Frac + ts[t].frac
  BY <1>1, OffType DEF CallbackShape, ExactStamps
<1>4. a \in Int /\ a = p * TIMER_USEC + Grain * (IF start THEN 0 ELSE left[t])
  BY <1>1, UnitAssumption DEF TypeOK
<1>5. /\ timer_advance_ex(t, p, start) /\ asked' = [asked EXCEPT ![t] = a]
      /\ tsc' = tsc /\ pc' = pc /\ cur' = cur /\ devices' = devices
  BY DEF timer_on
<1> HIDE DEF start, a
<1> QED BY <1>1, <1>2, <1>3, <1>4, <1>5, AdvanceExStep

(* The fast-off period is armed in one piece.  (With a longer one          *)
(* cpu_fast_off_advance() breaks the window.)                              *)
ShortFastOff == FastPeriods \subseteq 1 .. MAX_USEC * Grain

(* timer_init() and nvr_init() establish the invariant. *)
LEMMA InvInit == Init => Inv
<1> SUFFICES ASSUME Init PROVE Inv OBVIOUS
<1> USE StampAssumption, TimersAssumption, DelayAssumption, UnitAssumption DEF Init
<1>1. AtTsc(0) \in Stamp /\ 0 \in Integer BY DEF AtTsc, Stamp, Integer, Modulus
<1>2. TypeOK BY <1>1 DEF TypeOK
<1>3. Enabled = {Onesec} BY DEF Enabled, ToSet
<1>4. \A t \in Timers : ts[t] = AtTsc(0) /\ Offset(t) = 0
  BY <1>1 DEF Offset, Signed, SubInt, AtTsc, Modulus
<1>5. InWindow BY <1>3, <1>4 DEF InWindow, Low, Reach, Window
<1>6. SortedList BY DEF SortedList
<1>7. TargetAhead
  <2>1. Signed(SubInt(target, tsc)) = 0 BY DEF Signed, SubInt, Modulus
  <2> QED BY <2>1, <1>4 DEF TargetAhead
<1>8. CallbackShape /\ OnesecResident /\ SplitShape
  BY <1>3 DEF CallbackShape, OnesecResident, SplitShape
<1>9. ExactStamps BY <1>3, <1>4 DEF ExactStamps, AtTsc
<1>10. Rounded
  <2>1. Error(Onesec) = 0 /\ Onesec \notin split BY DEF Error
  <2>2. Grain - 1 + Rounding >= 0 /\ - Rounding <= 0 OBVIOUS
  <2> QED BY <1>3, <2>1, <2>2 DEF Rounded, Slack
<1> QED BY <1>2, <1>5, <1>6, <1>7, <1>8, <1>9, <1>10 DEF Inv

(* The CPU runs: every distance shrinks by the cycles spent, and if an     *)
(* enabled timer is overdue then so is the target.                         *)
LEMMA InvCpuStep ==
  ASSUME Inv, NEW d \in 1 .. MaxStep, CpuStep(d)
  PROVE  Inv'
<1> USE StampAssumption, DelayAssumption, UnitAssumption DEF Inv, CpuStep
<1>1. /\ pc = "cpu" /\ d \in Int /\ d > 0 /\ d <= MaxStep /\ MaxStep \in Int
      /\ tsc \in Integer /\ inCallback = {} /\ list \in Seq(Timers)
      /\ Onesec \in Enabled
  BY DEF TypeOK, CallbackShape, OnesecResident
<1>2. tsc' \in Integer BY <1>1 DEF AddInt, Integer, Modulus, Window
<1>3. \A n \in Integer : Signed(SubInt(n, tsc)) \in 0 .. Reach =>
         Signed(SubInt(n, tsc')) = Signed(SubInt(n, tsc)) - d
  BY <1>1 DEF Signed, SubInt, AddInt, Integer, Modulus, Reach, Window
<1>4. Enabled' = Enabled /\ Enabled \subseteq Timers BY DEF Enabled, TypeOK, ToSet
<1>5. \A t \in Enabled : Offset(t) \in 0 .. Reach /\ Offset(t)' = Offset(t) - d
  <2> TAKE t \in Enabled
  <2>1. Offset(t) \in 0 .. Reach BY <1>1 DEF InWindow, Low
  <2>2. ts[t].integer \in Integer BY <1>4 DEF TypeOK, Stamp
  <2> QED BY <2>1, <2>2, <1>3 DEF Offset
<1>6. list # <<>> /\ 1 \in DOMAIN list /\ list[1] \in Enabled
  BY <1>1 DEF Enabled, ToSet
<1>7. /\ target \in Integer
      /\ Signed(SubInt(target, tsc)) \in 0 .. Reach
      /\ Signed(SubInt(target, tsc)) <= Offset(list[1])
  <2>1. target \in Integer BY DEF TypeOK
  <2>2. Offset(list[1]) \in 0 .. Reach BY <1>5, <1>6
  <2>3. Signed(SubInt(target, tsc)) \in Int BY OffType
  <2>4. /\ 0 <= Signed(SubInt(target, tsc))
        /\ Signed(SubInt(target, tsc)) <= Offset(list[1])
    BY <1>1 DEF TargetAhead
  <2>5. Reach \in Int BY DEF Reach, Window
  <2> QED BY ONLY <2>1, <2>2, <2>3, <2>4, <2>5
<1>8. pc' = IF TIMER_VAL_LESS_THAN_VAL(target, tsc') THEN "loop" ELSE "cpu"
  BY <1>6
<1>9. TIMER_VAL_LESS_THAN_VAL(target, tsc') <=> Signed(SubInt(target, tsc')) <= 0
  BY <1>2, <1>7 DEF TIMER_VAL_LESS_THAN_VAL, Signed, SubInt, Integer, Modulus
<1>10. pc' = "cpu" => /\ 0 < Signed(SubInt(target, tsc)) - d
                      /\ Signed(SubInt(target, tsc')) = Signed(SubInt(target, tsc)) - d
  BY <1>3, <1>7, <1>8, <1>9
<1>11. \A t \in Enabled : Offset(list[1]) <= Offset(t)
  <2> TAKE t \in Enabled
  <2>1. PICK k \in DOMAIN list : list[k] = t BY DEF Enabled, ToSet
  <2>2. CASE k = 1 BY <2>1, <2>2, <1>5
  <2>3. CASE k # 1
    <3>1. 1 < k BY <2>3, <1>1
    <3>2. Precedes(ts[list[1]], ts[list[k]]) BY <3>1, <2>1, <1>6 DEF SortedList
    <3>3. /\ Offset(list[1]) = Off(ts[list[1]]) /\ Offset(t) = Off(ts[t])
          /\ Offset(list[1]) \in Int /\ Offset(t) \in Int
      BY <1>4, <1>5, <1>6, OffType
    <3> QED BY <2>1, <3>2, <3>3 DEF Precedes
  <2> QED BY <2>2, <2>3
<1>12. InWindow'
  <2> SUFFICES ASSUME NEW t \in Enabled PROVE Offset(t)' \in Low' .. Reach'
    BY <1>4 DEF InWindow
  <2>1. Offset(t) - d \in - MaxStep .. Reach BY <1>1, <1>5 DEF Reach
  <2>2. pc' = "cpu" => Offset(t) - d > 0
    BY <1>1, <1>5, <1>6, <1>7, <1>10, <1>11
  <2>3. Reach' = Reach /\ Low' = IF pc' = "cpu" THEN 0 ELSE - MaxStep BY DEF Reach, Low
  <2>4. Offset(t) - d \in Int BY <2>1 DEF Reach
  <2> QED BY <2>1, <2>2, <2>3, <2>4, <1>5 DEF Reach
<1>13. SortedList'
  <2> SUFFICES ASSUME NEW i \in DOMAIN list, NEW j \in DOMAIN list, i < j
               PROVE  Precedes(ts[list[i]], ts[list[j]])'
    BY DEF SortedList
  <2>1. list[i] \in Enabled /\ list[j] \in Enabled BY DEF Enabled, ToSet
  <2>2. /\ Off(ts[list[i]])' = Offset(list[i])' /\ Off(ts[list[j]])' = Offset(list[j])'
        /\ Off(ts[list[i]]) = Offset(list[i]) /\ Off(ts[list[j]]) = Offset(list[j])
    BY DEF Off, Offset
  <2>3. Precedes(ts[list[i]], ts[list[j]]) BY DEF SortedList
  <2>4. Offset(list[i]) \in Int /\ Offset(list[j]) \in Int BY <2>1, <1>5 DEF Reach
  <2> QED BY <2>1, <2>2, <2>3, <2>4, <1>5 DEF Precedes
<1>14. TargetAhead'
  <2> SUFFICES ASSUME pc' = "cpu"
               PROVE  /\ 0 <= Signed(SubInt(target, tsc'))
                      /\ Signed(SubInt(target, tsc')) <= Offset(list[1])'
    BY DEF TargetAhead
  <2>1. Offset(list[1])' = Offset(list[1]) - d /\ Offset(list[1]) \in Int
    BY <1>5, <1>6 DEF Reach
  <2> QED BY <2>1, <1>1, <1>7, <1>10 DEF Reach
<1>15. TypeOK'
  <2>1. d * Frac \in Int /\ Grain * (d * Frac) \in Int BY <1>1
  <2>2. left' \in [Timers -> Int] /\ asked' \in [Timers -> Int]
    BY <2>1 DEF TypeOK
  <2>3. pc' \in {"cpu", "loop", "callback"} BY <1>8
  <2> QED BY <1>2, <2>2, <2>3 DEF TypeOK
<1>16. CallbackShape' /\ OnesecResident' /\ SplitShape'
  BY <1>1, <1>4, <1>8 DEF CallbackShape, OnesecResident, SplitShape
<1>17. ExactStamps'
  <2> SUFFICES ASSUME NEW t \in Enabled
               PROVE  left'[t] = Offset(t)' * Frac + ts[t].frac
    BY <1>1, <1>4 DEF ExactStamps
  <2>1. left'[t] = left[t] - d * Frac BY <1>4
  <2>2. left[t] = Offset(t) * Frac + ts[t].frac BY DEF ExactStamps
  <2>3. ts[t].frac \in Int /\ Offset(t) \in Int
    BY <1>4, <1>5 DEF TypeOK, Stamp, Reach
  <2>4. (Offset(t) - d) * Frac = Offset(t) * Frac - d * Frac BY <2>3, <1>1
  <2>5. Offset(t)' * Frac = Offset(t) * Frac - d * Frac BY <2>4, <1>5
  <2>6. Offset(t) * Frac \in Int /\ d * Frac \in Int BY <2>3, <1>1
  <2> DEFINE A == Offset(t) * Frac
             B == d * Frac
  <2>7. /\ left'[t] = left[t] - B /\ left[t] = A + ts[t].frac
        /\ A \in Int /\ B \in Int /\ Offset(t)' * Frac = A - B
        /\ ts[t].frac \in Int
    BY ONLY <2>1, <2>2, <2>3, <2>5, <2>6, Zenon
  <2> HIDE DEF A, B
  <2>8. left'[t] = (A - B) + ts[t].frac BY ONLY <2>7
  <2> QED BY ONLY <2>7, <2>8, Zenon
<1>18. Rounded'
  <2> SUFFICES ASSUME NEW t \in Enabled
               PROVE  asked'[t] - period[t] * TIMER_USEC - Grain * left'[t] = Error(t)
    BY <1>4 DEF Rounded, Error, Slack
  <2> DEFINE k == d * Frac
             b == period[t] * TIMER_USEC
  <2>1. asked'[t] = asked[t] - Grain * k /\ left'[t] = left[t] - k BY <1>4
  <2>2. k \in Int /\ b \in Int /\ asked[t] \in Int /\ left[t] \in Int
    BY <1>1, <1>4 DEF TypeOK
  <2>3. Error(t) = asked[t] - b - Grain * left[t] BY DEF Error
  <2> HIDE DEF k, b
  <2>4. (asked[t] - Grain * k) - b - Grain * (left[t] - k) = asked[t] - b - Grain * left[t]
    BY <2>2, ErrorShift
  <2> QED BY <2>1, <2>3, <2>4 DEF b
<1> QED BY <1>12, <1>13, <1>14, <1>15, <1>16, <1>17, <1>18

(* A guest writes the counter: every enabled timer keeps its distance. *)
LEMMA InvSetNewTsc ==
  ASSUME Inv, NEW n \in Integer, timer_set_new_tsc(n)
  PROVE  Inv'
<1> USE StampAssumption, DelayAssumption DEF Inv, timer_set_new_tsc
<1>1. /\ pc = "cpu" /\ pc' = "cpu" /\ tsc \in Integer /\ tsc' = n /\ inCallback = {}
      /\ list \in Seq(Timers) /\ Onesec \in Enabled
  BY DEF TypeOK, CallbackShape, OnesecResident
<1>2. \A m \in Integer :
         /\ AddInt(n, SubInt(m, tsc)) \in Integer
         /\ SubInt(AddInt(n, SubInt(m, tsc)), n) = SubInt(m, tsc)
  <2> TAKE m \in Integer
  <2>1. SubInt(m, tsc) \in Integer BY <1>1 DEF SubInt, Integer, Modulus
  <2>2. \A x \in Integer : AddInt(n, x) \in Integer /\ SubInt(AddInt(n, x), n) = x
    BY DEF AddInt, SubInt, Integer, Modulus
  <2> QED BY ONLY <2>1, <2>2
<1>3. Enabled' = Enabled /\ Enabled \subseteq Timers BY DEF Enabled, TypeOK, ToSet
<1>4. \A t \in Timers : ts[t] \in Stamp /\ ts[t].integer \in Integer
  BY DEF TypeOK, Stamp
<1>5. ASSUME NEW t \in Enabled
      PROVE  /\ ts'[t].integer = AddInt(n, SubInt(ts[t].integer, tsc))
             /\ ts'[t].frac = ts[t].frac /\ ts'[t] \in Stamp
             /\ Offset(t)' = Offset(t)
  <2>1. t \in Timers BY <1>3
  <2>2. ts'[t] = [ts[t] EXCEPT !.integer = AddInt(n, SubInt(ts[t].integer, tsc))]
    BY <2>1
  <2>3. /\ ts'[t].integer = AddInt(n, SubInt(ts[t].integer, tsc))
        /\ ts'[t].frac = ts[t].frac /\ ts'[t] \in Stamp
    BY <2>1, <2>2, <1>2, <1>4 DEF Stamp
  <2>4. Offset(t)' = Offset(t) BY <2>1, <2>3, <1>1, <1>2, <1>4 DEF Offset
  <2> QED BY <2>3, <2>4
<1>6. list # <<>> /\ 1 \in DOMAIN list /\ list[1] \in Enabled /\ Head(list) = list[1]
  BY <1>1 DEF Enabled, ToSet
<1>7. target' = AddInt(n, SubInt(ts[list[1]].integer, tsc)) BY <1>6
<1>8. ts' \in [Timers -> Stamp]
  <2>1. \A t \in Timers : ts'[t] \in Stamp BY <1>4, <1>5
  <2>2. ts' = [t \in Timers |-> ts'[t]] OBVIOUS
  <2> QED BY <2>1, <2>2
<1>9. TypeOK' BY <1>1, <1>2, <1>3, <1>4, <1>6, <1>7, <1>8 DEF TypeOK
<1>10. InWindow'
  <2>1. Low' = Low /\ Reach' = Reach BY <1>1 DEF Low, Reach
  <2> QED BY <2>1, <1>3, <1>5 DEF InWindow
<1>11. SortedList'
  <2> SUFFICES ASSUME NEW i \in DOMAIN list, NEW j \in DOMAIN list, i < j
               PROVE  Precedes(ts[list[i]], ts[list[j]])'
    BY DEF SortedList
  <2>1. list[i] \in Enabled /\ list[j] \in Enabled BY DEF Enabled, ToSet
  <2>2. /\ Off(ts[list[i]])' = Offset(list[i])' /\ Off(ts[list[j]])' = Offset(list[j])'
        /\ Off(ts[list[i]]) = Offset(list[i]) /\ Off(ts[list[j]]) = Offset(list[j])
    BY DEF Off, Offset
  <2>3. Precedes(ts[list[i]], ts[list[j]]) BY DEF SortedList
  <2>4. /\ Offset(list[i])' = Offset(list[i]) /\ Offset(list[j])' = Offset(list[j])
        /\ ts'[list[i]].frac = ts[list[i]].frac /\ ts'[list[j]].frac = ts[list[j]].frac
        /\ list' = list
    BY <2>1, <1>5
  <2> QED BY <2>2, <2>3, <2>4 DEF Precedes
<1>12. TargetAhead'
  <2>1. Signed(SubInt(target, tsc))' = Offset(list[1])
    BY <1>1, <1>2, <1>3, <1>4, <1>6, <1>7 DEF Offset
  <2>2. Offset(list[1])' = Offset(list[1]) BY <1>5, <1>6
  <2>3. Offset(list[1]) \in Low .. Reach BY <1>6 DEF InWindow
  <2> QED BY <2>1, <2>2, <2>3, <1>1 DEF TargetAhead, Low, Reach
<1>13. CallbackShape' /\ OnesecResident' /\ SplitShape'
  BY <1>1, <1>3 DEF CallbackShape, OnesecResident, SplitShape
<1>14. ExactStamps' BY <1>1, <1>3, <1>5 DEF ExactStamps
<1>15. Rounded' BY <1>3 DEF Rounded, Error, Slack
<1> QED BY <1>9, <1>10, <1>11, <1>12, <1>13, <1>14, <1>15

(* timer_process() and the callbacks. *)
LEMMA InvProcess ==
  ASSUME Inv, Process
  PROVE  Inv'
<1> USE StampAssumption, TimersAssumption, DelayAssumption, UnitAssumption DEF Inv
<1>1. list \in Seq(Timers) /\ NoRepeats(list) BY DEF TypeOK, NoRepeats
<1>2. ASSUME pc = "loop", list # <<>>, HeadIsDue, NEW t, t = Head(list)
      PROVE  /\ t \in Enabled /\ t \in Timers /\ inCallback = {}
             /\ Off(ts[t]) = Offset(t) /\ Offset(t) \in - MaxStep .. 0
  <2>1. t \in Enabled /\ t \in Timers /\ inCallback = {}
    BY <1>1, <1>2 DEF Enabled, ToSet, CallbackShape
  <2>2. Off(ts[t]) = Offset(t) /\ Offset(t) \in - MaxStep .. Reach
    BY <1>2, <2>1, OffType DEF InWindow, Low
  <2>3. Offset(t) <= 0
    <3>1. \A m, n \in Integer :
             TIMER_VAL_LESS_THAN_VAL(m, n) => Signed(SubInt(m, n)) <= 0
      BY DEF TIMER_VAL_LESS_THAN_VAL, Signed, SubInt, Integer, Modulus
    <3>2. ts[t].integer \in Integer /\ tsc \in Integer BY <2>1 DEF TypeOK, Stamp
    <3> QED BY <1>2, <3>1, <3>2 DEF HeadIsDue, TIMER_LESS_THAN_VAL, Offset
  <2> QED BY <2>1, <2>2, <2>3 DEF Reach
<1>3. ASSUME pc = "loop", list # <<>>, HeadIsDue, NEW t, t = Head(list), ProcessSplit(t)
      PROVE  Inv'
  <2> USE <1>3 DEF ProcessSplit
  <2>1. /\ t \in Enabled /\ t \in Timers /\ inCallback = {}
        /\ Off(ts[t]) = Offset(t) /\ Offset(t) \in - MaxStep .. 0
    BY <1>2
  <2>2. period[t] > 0 /\ period[t] \in Nat /\ t \in OnAuto /\ t # Onesec
    BY <2>1 DEF SplitShape, TypeOK
  <2>3. left[t] = Off(ts[t]) * Frac + ts[t].frac BY <2>1 DEF ExactStamps
  <2>4. asked[t] \in Int /\ left[t] \in Int BY <2>1 DEF TypeOK
  <2>5. asked[t] = period[t] * TIMER_USEC + Grain * (IF FALSE THEN 0 ELSE left[t])
    <3>1. asked[t] - period[t] * TIMER_USEC - Grain * left[t] = 0
      BY <2>1 DEF Rounded, Error, Slack
    <3>2. period[t] * TIMER_USEC \in Int /\ Grain * left[t] \in Int BY <2>2, <2>4
    <3> DEFINE A == period[t] * TIMER_USEC
               B == Grain * left[t]
    <3>3. asked[t] - A - B = 0 /\ A \in Int /\ B \in Int BY ONLY <3>1, <3>2, Zenon
    <3> HIDE DEF A, B
    <3>4. asked[t] = A + B BY ONLY <2>4, <3>3
    <3> QED BY <3>4 DEF A, B
  <2>6. asked' = [asked EXCEPT ![t] = asked[t]] BY DEF TypeOK
  <2>7. /\ timer_advance_ex(t, period[t], FALSE)
        /\ tsc' = tsc /\ pc' = pc /\ cur' = cur /\ devices' = devices
    OBVIOUS
  <2>8. pc # "cpu" OBVIOUS
  <2>9. PICK p \in Nat : p = period[t] BY <2>2
  <2>10. PICK a \in Int : a = asked[t] BY <2>4
  <2>11. a = p * TIMER_USEC + Grain * (IF FALSE THEN 0 ELSE left[t]) BY <2>5, <2>9, <2>10
  <2>12. timer_advance_ex(t, p, FALSE) /\ asked' = [asked EXCEPT ![t] = a]
    BY <2>6, <2>7, <2>9, <2>10
  <2> QED
    BY <2>1, <2>2, <2>3, <2>7, <2>8, <2>9, <2>11, <2>12, AdvanceExStep
<1>4. ASSUME pc = "loop", list # <<>>, HeadIsDue, NEW t, t = Head(list),
             ProcessNull(t) \/ ProcessFire(t)
      PROVE  Inv'
  <2> USE <1>4 DEF ProcessNull, ProcessFire
  <2>1. /\ t \in Enabled /\ t \in Timers /\ inCallback = {}
        /\ Off(ts[t]) = Offset(t) /\ Offset(t) \in - MaxStep .. 0
    BY <1>2
  <2>2. /\ list' \in Seq(Timers) /\ NoRepeats(list')
        /\ ToSet(list') = ToSet(list) \ {t}
        /\ \A i, j \in DOMAIN list' : i < j =>
              \E k, l \in DOMAIN list : k < l /\ list'[i] = list[k] /\ list'[j] = list[l]
    <3>1. list' = Tail(list) OBVIOUS
    <3> QED BY <3>1, <1>1, TailProperties
  <2>3. Enabled' = Enabled \ {t} BY <2>2 DEF Enabled
  <2>4. InWindow' /\ SortedList' /\ TargetAhead'
    <3>1. ts' = ts /\ tsc' = tsc /\ target' = target /\ pc' # "cpu" OBVIOUS
    <3>2. ToSet(list') \subseteq ToSet(list) BY <2>2
    <3> QED BY <2>2, <3>1, <3>2, DropStep
  <2>5. TypeOK'
    <3>1. /\ left' \in [Timers -> Int] /\ asked' \in [Timers -> Int]
          /\ inCallback' \subseteq Timers
          /\ cur' \in Timers \cup {NoTimer} /\ pc' \in {"cpu", "loop", "callback"}
      <4>1. left \in [Timers -> Int] /\ asked \in [Timers -> Int] BY DEF TypeOK
      <4>2. CASE ProcessNull(t)
        <5>1. /\ Forget(t) /\ inCallback' = inCallback /\ cur' = cur /\ pc' = pc
          BY <4>2
        <5>2. cur \in Timers \cup {NoTimer} BY DEF TypeOK
        <5>3. left' = [left EXCEPT ![t] = 0] /\ asked' = [asked EXCEPT ![t] = 0]
          BY ONLY <5>1 DEF Forget
        <5>4. left' \in [Timers -> Int] BY ONLY <4>1, <5>3, <2>1
        <5>5. asked' \in [Timers -> Int] BY ONLY <4>1, <5>3, <2>1
        <5> QED BY <5>1, <5>2, <5>4, <5>5, <2>1
      <4>3. CASE ProcessFire(t) BY <4>1, <4>3, <2>1
      <4> QED BY <4>2, <4>3
    <3>2. UNCHANGED <<ts, period, split, tsc, target, devices>> OBVIOUS
    <3> QED BY <2>2, <3>1, <3>2 DEF TypeOK, NoRepeats
  <2>6. t \notin split /\ split' = split /\ period' = period /\ ts' = ts /\ tsc' = tsc
    OBVIOUS
  <2>7. \A x : Offset(x)' = Offset(x) BY <2>6 DEF Offset
  <2>8. SplitShape' BY <2>3, <2>6 DEF SplitShape
  <2>9. CASE ProcessNull(t)
    <3>1. Onesec # t BY <2>9
    <3>2. CallbackShape' /\ OnesecResident'
      BY <2>1, <2>3, <2>9, <3>1 DEF CallbackShape, OnesecResident
    <3>3. \A x \in Enabled \ {t} : left'[x] = left[x] /\ asked'[x] = asked[x]
      BY <2>9 DEF Forget, TypeOK, Enabled, ToSet
    <3>4. inCallback' = {} BY <2>1, <2>9
    <3>5. ExactStamps' BY <2>3, <2>6, <2>7, <3>3, <3>4 DEF ExactStamps
    <3>6. Rounded' BY <2>3, <2>6, <3>3 DEF Rounded, Error, Slack
    <3> QED BY <2>4, <2>5, <2>8, <3>2, <3>5, <3>6
  <2>10. CASE ProcessFire(t)
    <3>1. /\ inCallback' = {t} /\ pc' = "callback" /\ cur' = t
          /\ left' = left /\ asked' = asked
      BY <2>1, <2>10
    <3>2. CallbackShape' BY <3>1, <2>1, <2>3, <2>7 DEF CallbackShape
    <3>3. OnesecResident' BY <3>1, <2>3 DEF OnesecResident
    <3>4. ExactStamps'
      BY <3>1, <2>1, <2>3, <2>6, <2>7 DEF ExactStamps
    <3>5. Rounded' BY <3>1, <2>3, <2>6 DEF Rounded, Error, Slack
    <3> QED BY <2>4, <2>5, <2>8, <3>2, <3>3, <3>4, <3>5
  <2> QED BY <2>9, <2>10
<1>5. ASSUME CallbackReturn PROVE Inv'
  <2> USE <1>5 DEF CallbackReturn, Return
  <2>1. /\ pc = "callback" /\ cur # Onesec /\ cur \in Timers
        /\ inCallback \subseteq {cur} /\ inCallback' = {}
        /\ pc' = "loop" /\ cur' = NoTimer
    BY DEF CallbackShape
  <2>2. Enabled' = Enabled BY DEF Enabled
  <2>3. \A x : Offset(x)' = Offset(x) BY DEF Offset
  <2>4. TypeOK' BY <2>1 DEF TypeOK, Forget
  <2>5. InWindow'
    <3>1. Low' = Low /\ Reach' = Reach BY <2>1 DEF Low, Reach
    <3> QED BY <3>1, <2>2, <2>3 DEF InWindow
  <2>6. SortedList'
    <3>1. \A a, b : Precedes(a, b)' <=> Precedes(a, b) BY DEF Precedes, Off
    <3> QED BY <3>1 DEF SortedList
  <2>7. TargetAhead' /\ CallbackShape' /\ OnesecResident' /\ SplitShape'
    BY <2>1, <2>2 DEF TargetAhead, CallbackShape, OnesecResident, SplitShape
  <2>8. \A x \in Enabled : left'[x] = left[x] /\ asked'[x] = asked[x]
    <3>1. Enabled \subseteq Timers BY <1>1 DEF Enabled, ToSet
    <3>2. left \in [Timers -> Int] /\ asked \in [Timers -> Int] BY DEF TypeOK
    <3>3. CASE cur \in Enabled BY <3>3
    <3>4. CASE cur \notin Enabled
      <4>1. Forget(cur) BY <3>4
      <4> QED BY ONLY <3>1, <3>2, <3>4, <4>1 DEF Forget
    <3> QED BY <3>3, <3>4
  <2>9. ExactStamps' BY <2>1, <2>2, <2>3, <2>8 DEF ExactStamps
  <2>10. Rounded' BY <2>2, <2>8 DEF Rounded, Error, Slack
  <2> QED BY <2>4, <2>5, <2>6, <2>7, <2>9, <2>10
<1>6. ASSUME OnesecReturn PROVE Inv'
  <2> USE <1>6 DEF OnesecReturn, OnesecRearmed, Return
  <2> DEFINE s == AddStamp(ts[Onesec], OnesecDelay)
             v == left[Onesec] + Units(OnesecDelay)
             a == Grain * v
  <2>1. /\ pc = "callback" /\ cur = Onesec /\ Onesec \in inCallback \ Enabled
        /\ inCallback' = {} /\ pc' = "loop" /\ cur' = NoTimer
        /\ Onesec \in Timers /\ OnesecDelay \in Delay
    BY DEF OnesecResident, CallbackShape
  <2>2. ts[Onesec] \in Stamp /\ tsc \in Integer /\ Off(ts[Onesec]) \in - MaxStep .. 0
    BY <2>1, OffType DEF CallbackShape, TypeOK
  <2>3. /\ s \in Stamp /\ Off(s) \in - MaxStep .. Reach
        /\ Off(s) * Frac + s.frac =
              (Off(ts[Onesec]) * Frac + ts[Onesec].frac) + Units(OnesecDelay)
    BY <2>1, <2>2, AdvanceStamp
  <2>4. /\ timer_enable(Onesec, s) /\ left' = [left EXCEPT ![Onesec] = v]
        /\ asked' = [asked EXCEPT ![Onesec] = a]
    BY DEF timer_advance_u64
  <2>5. period[Onesec] = 0 /\ Onesec \notin split
    BY <2>1 DEF SplitShape, TypeOK
  <2>6. left[Onesec] = Off(ts[Onesec]) * Frac + ts[Onesec].frac /\ left[Onesec] \in Int
    BY <2>1, OffType DEF ExactStamps, TypeOK
  <2>7. Units(OnesecDelay) \in Int BY <2>1, DelayUnits
  <2>8. v \in Int /\ v = Off(s) * Frac + s.frac BY <2>3, <2>6, <2>7
  <2>9. a \in Int /\ a = Grain * v BY <2>8
  <2> HIDE DEF s, v, a
  <2>10. a - 0 * TIMER_USEC - Grain * v \in Slack(0 > 0) BY <2>8, <2>9, RawSlack
  <2>11. /\ period' = [period EXCEPT ![Onesec] = 0]
         /\ split' = IF 0 > 0 THEN split \cup {Onesec} ELSE split \ {Onesec}
         /\ tsc' = tsc /\ devices' = devices
    BY <2>5 DEF TypeOK
  <2>12. 0 \in Nat /\ (0 > 0 => Onesec \in OnAuto) OBVIOUS
  <2>13. Off(s) \in Low .. Reach BY <2>1, <2>3 DEF Low
  <2> QED
    BY <2>1, <2>3, <2>4, <2>8, <2>9, <2>10, <2>11, <2>12, <2>13, ArmStep
<1>7. ASSUME ProcessEnd PROVE Inv'
  <2> USE <1>7 DEF ProcessEnd, TargetOfHead
  <2>1. /\ pc = "loop" /\ pc' = "cpu" /\ inCallback = {} /\ Onesec \in Enabled
        /\ list # <<>> /\ ~ HeadIsDue /\ Head(list) = list[1] /\ 1 \in DOMAIN list
    BY <1>1 DEF CallbackShape, OnesecResident
  <2>2. Enabled' = Enabled /\ Enabled \subseteq Timers /\ list[1] \in Enabled
    BY <2>1 DEF Enabled, ToSet, TypeOK
  <2>3. \A x : Offset(x)' = Offset(x) BY DEF Offset
  <2>4. Offset(list[1]) > 0
    <3>1. \A m, n \in Integer :
             ~ TIMER_VAL_LESS_THAN_VAL(m, n) => Signed(SubInt(m, n)) > 0
      BY DEF TIMER_VAL_LESS_THAN_VAL, Signed, SubInt, Integer, Modulus
    <3>2. ts[list[1]].integer \in Integer /\ tsc \in Integer BY <2>2 DEF TypeOK, Stamp
    <3> QED BY <2>1, <3>1, <3>2 DEF HeadIsDue, TIMER_LESS_THAN_VAL, Offset
  <2>5. \A t \in Enabled : Offset(t) > 0
    <3> TAKE t \in Enabled
    <3>1. PICK k \in DOMAIN list : list[k] = t BY DEF Enabled, ToSet
    <3>2. CASE k = 1 BY <3>1, <3>2, <2>4
    <3>3. CASE k # 1
      <4>1. 1 < k BY <3>3, <1>1
      <4>2. Precedes(ts[list[1]], ts[list[k]]) BY <4>1, <3>1, <2>1 DEF SortedList
      <4>3. /\ Offset(list[1]) = Off(ts[list[1]]) /\ Offset(t) = Off(ts[t])
            /\ Offset(list[1]) \in Int /\ Offset(t) \in Int
        BY <2>2, OffType
      <4> QED BY <3>1, <4>2, <4>3, <2>4 DEF Precedes
    <3> QED BY <3>2, <3>3
  <2>6. InWindow'
    <3>1. Low' = 0 /\ Reach' = Reach BY <2>1 DEF Low, Reach
    <3>2. \A t \in Enabled : Offset(t) \in 0 .. Reach
      BY <2>1, <2>5 DEF InWindow, Low, Reach
    <3> QED BY <3>1, <3>2, <2>2, <2>3 DEF InWindow
  <2>7. SortedList'
    <3>1. \A a, b : Precedes(a, b)' <=> Precedes(a, b) BY DEF Precedes, Off
    <3> QED BY <3>1 DEF SortedList
  <2>8. TargetAhead'
    <3>1. Signed(SubInt(target, tsc))' = Offset(list[1]) BY <2>1 DEF Offset
    <3>2. Offset(list[1]) \in Int BY <2>2, OffType
    <3> QED BY <3>1, <3>2, <2>3, <2>4 DEF TargetAhead
  <2>9. TypeOK' BY <2>1, <2>2 DEF TypeOK, Stamp
  <2>10. CallbackShape' /\ OnesecResident' /\ SplitShape'
    BY <2>1, <2>2 DEF CallbackShape, OnesecResident, SplitShape
  <2>11. ExactStamps' BY <2>1, <2>2, <2>3 DEF ExactStamps
  <2>12. Rounded' BY <2>2 DEF Rounded, Error, Slack
  <2> QED BY <2>6, <2>7, <2>8, <2>9, <2>10, <2>11, <2>12
<1> QED BY <1>3, <1>4, <1>5, <1>6, <1>7 DEF Process, ProcessPop

(* timer_disable() and timer_stop(): the timer leaves the list.            *)
LEMMA LeaveStep ==
  ASSUME Inv, NEW t \in Raw \cup OnAuto, DeviceCode,
         list' = Without(list, t), Forget(t),
         period' = [period EXCEPT ![t] = 0], split' = split \ {t},
         inCallback' = inCallback \ {t} \/ (t \notin inCallback /\ inCallback' = inCallback),
         UNCHANGED <<ts, tsc, target, pc, cur, devices>>
  PROVE  Inv'
<1> USE TimersAssumption, DelayAssumption DEF Inv, Forget
<1>1. list \in Seq(Timers) /\ NoRepeats(list) BY DEF TypeOK, NoRepeats
<1>2. /\ list' \in Seq(Timers) /\ NoRepeats(list')
      /\ ToSet(list') = ToSet(list) \ {t}
      /\ \A i, j \in DOMAIN list' : i < j =>
            \E k, l \in DOMAIN list : k < l /\ list'[i] = list[k] /\ list'[j] = list[l]
  BY <1>1, WithoutProperties
<1>3. Enabled' = Enabled \ {t} /\ t \in Timers /\ t # Onesec BY <1>2 DEF Enabled
<1>4. \A x : Offset(x)' = Offset(x) BY DEF Offset
<1>5. OnesecResident' BY <1>3 DEF OnesecResident
<1>6. pc = "cpu" => list' # <<>>
  BY <1>3, <1>5 DEF OnesecResident, Enabled, ToSet
<1>7. InWindow' /\ SortedList' /\ TargetAhead'
  <2>1. ToSet(list') \subseteq ToSet(list) /\ (list' # <<>> \/ pc' # "cpu")
    BY <1>2, <1>6
  <2>2. ts' = ts /\ tsc' = tsc /\ target' = target /\ pc' = pc OBVIOUS
  <2> QED BY <1>2, <2>1, <2>2, DropStep
<1>8. TypeOK' BY <1>2, <1>3 DEF TypeOK, NoRepeats
<1>9. CallbackShape' BY <1>3, <1>4 DEF CallbackShape
<1>10. SplitShape' BY <1>3 DEF SplitShape, TypeOK
<1>11. ExactStamps'
  <2> SUFFICES ASSUME NEW x \in (Enabled \cup inCallback)'
               PROVE  left'[x] = Offset(x)' * Frac + ts'[x].frac
    BY DEF ExactStamps
  <2>1. x \in Enabled \cup inCallback /\ x # t BY <1>3
  <2>2. x \in Timers BY <2>1 DEF TypeOK, Enabled, ToSet
  <2>3. left'[x] = left[x] BY <2>1, <2>2 DEF TypeOK
  <2> QED BY <2>1, <2>3, <1>4 DEF ExactStamps
<1>12. Rounded'
  <2>1. Enabled \subseteq Timers BY DEF TypeOK, Enabled, ToSet
  <2>2. \A x \in Enabled \ {t} : /\ left'[x] = left[x] /\ asked'[x] = asked[x]
                                 /\ period'[x] = period[x]
    BY <2>1 DEF TypeOK
  <2> QED BY <1>3, <2>2 DEF Rounded, Error, Slack
<1> QED BY <1>5, <1>7, <1>8, <1>9, <1>10, <1>11, <1>12

(* What device code does to a timer, between instructions or in callbacks. *)
LEMMA InvDevice ==
  ASSUME Inv, ShortFastOff, NEW t \in Timers, Device(t)
  PROVE  Inv'
<1> USE StampAssumption, TimersAssumption, DelayAssumption, UnitAssumption DEF Inv
<1>1. ASSUME t \in Raw
      PROVE  /\ t # Onesec /\ period[t] = 0 /\ t \notin split
             /\ period = [period EXCEPT ![t] = 0]
             /\ split = IF 0 > 0 THEN split \cup {t} ELSE split \ {t}
             /\ 0 \in Nat /\ (0 > 0 => t \in OnAuto)
  BY <1>1 DEF SplitShape, TypeOK
<1>2. inCallback = ClearedByDisable(t) \/ ClearedByDisable(t) = inCallback \ {t}
  BY DEF ClearedByDisable
<1>3. ASSUME NEW d \in Delays, DeviceSetDelay(t, d) PROVE Inv'
  <2> USE <1>3 DEF DeviceSetDelay
  <2> DEFINE s == AddStamp(AtTsc(tsc), d)
             v == Units(d)
             a == Grain * v
  <2>1. d \in Delay /\ tsc \in Integer BY DEF TypeOK
  <2>2. d.integer \in 0 .. Window /\ d.frac \in 0 .. Frac - 1 /\ v \in Int
    BY <2>1, DelayUnits
  <2>3. s \in Stamp /\ Off(s) = d.integer /\ s.frac = d.frac BY <2>1, SetDelayStamp
  <2>4. /\ timer_enable(t, s) /\ left' = [left EXCEPT ![t] = v]
        /\ asked' = [asked EXCEPT ![t] = a]
    BY DEF timer_set_delay_u64
  <2>5. v = Off(s) * Frac + s.frac BY <2>2, <2>3 DEF Units
  <2>6. a \in Int /\ a = Grain * v BY <2>2
  <2> HIDE DEF s, v, a
  <2>7. a - 0 * TIMER_USEC - Grain * v \in Slack(0 > 0) BY <2>2, <2>6, RawSlack
  <2>8. Off(s) \in Low .. Reach BY <2>2, <2>3 DEF Low, Reach, Window
  <2>9. /\ tsc' = tsc /\ pc' = pc /\ cur' = cur /\ period' = period /\ split' = split
        /\ devices' = devices
        /\ inCallback' = inCallback \/ inCallback' = inCallback \ {t}
    BY <1>2
  <2> QED BY <1>1, <2>2, <2>3, <2>4, <2>5, <2>6, <2>7, <2>8, <2>9, ArmStep
<1>4. ASSUME NEW d \in Delays, DeviceAdvance(t, d) PROVE Inv'
  <2> USE <1>4 DEF DeviceAdvance
  <2> DEFINE s == AddStamp(ts[t], d)
             v == left[t] + Units(d)
             a == Grain * v
  <2>1. d \in Delay /\ tsc \in Integer /\ ts[t] \in Stamp BY DEF TypeOK
  <2>2. Units(d) \in Int BY <2>1, DelayUnits
  <2>3. Off(ts[t]) \in - MaxStep .. 0 /\ pc = "callback"
    BY OffType DEF CallbackShape, TypeOK
  <2>4. /\ s \in Stamp /\ Off(s) \in - MaxStep .. Reach
        /\ Off(s) * Frac + s.frac = (Off(ts[t]) * Frac + ts[t].frac) + Units(d)
    BY <2>1, <2>3, AdvanceStamp
  <2>5. /\ timer_enable(t, s) /\ left' = [left EXCEPT ![t] = v]
        /\ asked' = [asked EXCEPT ![t] = a]
    BY DEF timer_advance_u64
  <2>6. left[t] = Off(ts[t]) * Frac + ts[t].frac /\ left[t] \in Int
    BY OffType DEF ExactStamps, TypeOK
  <2>7. v \in Int /\ v = Off(s) * Frac + s.frac BY <2>2, <2>4, <2>6
  <2>8. a \in Int /\ a = Grain * v BY <2>7
  <2> HIDE DEF s, v, a
  <2>9. a - 0 * TIMER_USEC - Grain * v \in Slack(0 > 0) BY <2>7, <2>8, RawSlack
  <2>10. Off(s) \in Low .. Reach BY <2>3, <2>4 DEF Low
  <2>11. /\ tsc' = tsc /\ pc' = pc /\ cur' = cur /\ period' = period /\ split' = split
         /\ inCallback' = inCallback /\ devices' = devices
    OBVIOUS
  <2> QED BY <1>1, <2>4, <2>5, <2>7, <2>8, <2>9, <2>10, <2>11, ArmStep
<1>5. ASSUME timer_disable(t) PROVE Inv'
  <2> USE <1>5 DEF timer_disable
  <2>1. t \in Raw /\ t \in Enabled /\ DeviceCode OBVIOUS
  <2>2. inCallback' = inCallback \ {t} BY <2>1 DEF ClearedByDisable
  <2>3. period' = [period EXCEPT ![t] = 0] /\ split' = split \ {t} BY <1>1, <2>1
  <2>4. /\ list' = Without(list, t) /\ Forget(t)
        /\ UNCHANGED <<ts, tsc, target, pc, cur, devices>>
    OBVIOUS
  <2> QED BY <2>1, <2>2, <2>3, <2>4, LeaveStep
<1>6. ASSUME NEW p \in Periods, timer_on_auto(t, p) PROVE Inv'
  <2>1. DeviceCode /\ t \in OnAuto /\ p \in Nat BY <1>6 DEF timer_on_auto
  <2>2. CASE p > 0
    <3>1. period[t] = 0 /\ ~ (t \in inCallback /\ t \in Enabled) /\ timer_on(t, p, inCallback)
      BY <1>6, <2>2 DEF timer_on_auto
    <3> QED BY <2>1, <2>2, <3>1, OnStep
  <2>3. CASE ~ (p > 0)
    <3>1. timer_stop(t) BY <1>6, <2>3 DEF timer_on_auto
    <3>2. /\ list' = Without(list, t) /\ Forget(t)
          /\ period' = [period EXCEPT ![t] = 0] /\ split' = split \ {t}
          /\ inCallback' = inCallback \ {t}
          /\ UNCHANGED <<ts, tsc, target, pc, cur, devices>>
      BY <3>1 DEF timer_stop
    <3> QED BY <2>1, <3>2, LeaveStep
  <2> QED BY <2>2, <2>3
<1>7. ASSUME NEW p \in FastPeriods, cpu_fast_off_advance(t, p) PROVE Inv'
  <2> USE <1>7 DEF cpu_fast_off_advance
  <2>1. t \in Fast /\ timer_on(t, p, ClearedByDisable(t)) OBVIOUS
  <2>2. p \in Nat /\ p > 0 /\ ~ (p > MAX_USEC * Grain) BY DEF ShortFastOff
  <2>3. t \notin OnAuto BY <2>1
  <2>4. period[t] = 0 BY <2>3 DEF SplitShape, TypeOK
  <2>5. t \in ClearedByDisable(t) => t \in inCallback \ Enabled BY DEF ClearedByDisable
  <2> QED BY <2>1, <2>2, <2>4, <2>5, OnStep
<1> QED BY <1>3, <1>4, <1>5, <1>6, <1>7 DEF Device

(* Every step of the CPU thread preserves the invariant. *)
LEMMA InvNext ==
  ASSUME Inv, ShortFastOff, [Next]_vars
  PROVE  Inv'
<1>1. CASE Cpu BY <1>1, InvCpuStep DEF Cpu
<1>2. CASE ProcessNow
  <2> USE <1>2 DEF ProcessNow, Inv
  <2>1. pc = "cpu" /\ pc' = "loop" /\ inCallback = {} /\ MaxStep \in Nat
    BY DelayAssumption DEF CallbackShape
  <2>2. Enabled' = Enabled /\ Enabled \subseteq Timers BY DEF Enabled, TypeOK, ToSet
  <2>3. \A x : Offset(x)' = Offset(x) BY DEF Offset
  <2>4. InWindow'
    <3>1. Low = 0 /\ Low' = - MaxStep /\ Reach' = Reach BY <2>1 DEF Low, Reach
    <3>2. \A n \in Low .. Reach : n \in Low' .. Reach
      BY <2>1, <3>1, StampAssumption DEF Reach
    <3> QED BY <3>1, <3>2, <2>2, <2>3 DEF InWindow
  <2>5. SortedList'
    <3>1. \A a, b : Precedes(a, b)' <=> Precedes(a, b) BY DEF Precedes, Off
    <3> QED BY <3>1 DEF SortedList
  <2>6. TypeOK' BY <2>1 DEF TypeOK
  <2>7. TargetAhead' /\ CallbackShape' /\ OnesecResident' /\ SplitShape'
    BY <2>1, <2>2 DEF TargetAhead, CallbackShape, OnesecResident, SplitShape
  <2>8. ExactStamps' BY <2>1, <2>2, <2>3 DEF ExactStamps
  <2>9. Rounded' BY <2>2 DEF Rounded, Error, Slack
  <2> QED BY <2>4, <2>5, <2>6, <2>7, <2>8, <2>9
<1>3. CASE Process BY <1>3, InvProcess
<1>4. CASE \E n \in NewTscs : timer_set_new_tsc(n)
  BY <1>4, InvSetNewTsc, DelayAssumption
<1>5. CASE \E t \in devices : Device(t)
  BY <1>5, InvDevice DEF Inv, TypeOK
<1>6. CASE UNCHANGED vars
  <2> USE <1>6 DEF vars
  <2>1. Enabled' = Enabled /\ Low' = Low /\ Reach' = Reach BY DEF Enabled, Low, Reach
  <2>2. \A x : Offset(x)' = Offset(x) BY DEF Offset
  <2>3. \A a, b : Precedes(a, b)' <=> Precedes(a, b) BY DEF Precedes, Off
  <2> QED
    BY <2>1, <2>2, <2>3 DEF Inv, TypeOK, InWindow, SortedList, TargetAhead,
       CallbackShape, OnesecResident, SplitShape, ExactStamps, Rounded, Error, Slack
<1> QED BY <1>1, <1>2, <1>3, <1>4, <1>5, <1>6 DEF Next

-----------------------------------------------------------------------------
(* The invariant is inductive: it holds of every reachable state.          *)
THEOREM TimerInvariant == ShortFastOff => (Spec => []Inv)
<1> SUFFICES ASSUME ShortFastOff PROVE Spec => []Inv OBVIOUS
<1>1. Init => Inv BY InvInit
<1>2. Inv /\ [Next]_vars => Inv' BY InvNext
<1> QED BY <1>1, <1>2, PTL DEF Spec

(* Type correctness: in particular timer_enable() and timer_disable()      *)
(* never put a timer into the list twice.                                  *)
THEOREM TimerTypeCorrect == ShortFastOff => (Spec => []TypeOK)
<1>1. Inv => TypeOK BY DEF Inv
<1> QED BY <1>1, TimerInvariant, PTL

(* timer_process() never follows a NULL timer_head.                        *)
THEOREM TimerHeadNeverNull == ShortFastOff => (Spec => []HeadNeverNull)
<1>1. Inv => HeadNeverNull
  BY DEF Inv, HeadNeverNull, OnesecResident, Enabled, ToSet
<1> QED BY <1>1, TimerInvariant, PTL

(* The CPU, which looks at timer_target only, never runs past the first    *)
(* enabled timer.                                                          *)
THEOREM TimerTargetNotLate == ShortFastOff => (Spec => []TargetNotLate)
<1>1. Inv => TargetNotLate
  BY DEF Inv, TargetNotLate, TargetAhead, TypeOK
<1> QED BY <1>1, TimerInvariant, PTL

(* exec386() always executes an instruction: its cycle_period is positive. *)
THEOREM TimerCyclePeriodPositive == ShortFastOff => (Spec => []CyclePeriodPositive)
<1>1. ASSUME Inv PROVE CyclePeriodPositive
  <2> SUFFICES ASSUME pc = "cpu" PROVE Signed(AddInt(SubInt(target, tsc), 1)) > 0
    BY DEF CyclePeriodPositive
  <2> USE StampAssumption, DelayAssumption
  <2>1. list # <<>> /\ list \in Seq(Timers) /\ tsc \in Integer /\ target \in Integer
    BY <1>1 DEF Inv, TypeOK, OnesecResident, CallbackShape, Enabled, ToSet
  <2>2. list[1] \in Enabled BY <2>1 DEF Enabled, ToSet
  <2>3. Offset(list[1]) \in Int /\ Offset(list[1]) <= Reach
    BY <2>2, <1>1 DEF Inv, InWindow, Low, Reach, Window
  <2>4. 0 <= Signed(SubInt(target, tsc)) /\ Signed(SubInt(target, tsc)) <= Offset(list[1])
    BY <1>1 DEF Inv, TargetAhead
  <2>5. SubInt(target, tsc) \in Integer BY <2>1 DEF SubInt, Integer, Modulus
  <2>6. Reach <= Half - 2 /\ Reach \in Int BY DEF Reach, Window
  <2> QED BY <2>3, <2>4, <2>5, <2>6 DEF Signed, AddInt, Integer, Modulus
<1> QED BY <1>1, TimerInvariant, PTL

(* A wrapping 32-bit timestamp stands for the deadline asked for, but for  *)
(* the rounding of the last piece of a period.                             *)
THEOREM TimerStampWithinRounding == ShortFastOff => (Spec => []StampWithinRounding)
<1>1. ASSUME Inv PROVE StampWithinRounding
  <2> SUFFICES ASSUME NEW t \in Enabled
               PROVE  asked[t] - period[t] * TIMER_USEC
                         - Grain * (Offset(t) * Frac + ts[t].frac) \in Slack(t \in split)
    BY DEF StampWithinRounding, Slack
  <2>1. left[t] = Offset(t) * Frac + ts[t].frac BY <1>1 DEF Inv, ExactStamps
  <2>2. asked[t] - period[t] * TIMER_USEC - Grain * left[t] \in Slack(t \in split)
    BY <1>1 DEF Inv, Rounded, Error
  <2> QED BY <2>1, <2>2
<1> QED BY <1>1, TimerInvariant, PTL

(* The list is in the order of the true deadlines.                         *)
THEOREM TimerSorted == ShortFastOff => (Spec => []SortedByDeadline)
<1>1. ASSUME Inv PROVE SortedByDeadline
  <2> USE <1>1 DEF Inv
  <2> SUFFICES ASSUME NEW i \in DOMAIN list, NEW j \in DOMAIN list, i < j
               PROVE  left[list[i]] <= left[list[j]]
    BY DEF SortedByDeadline
  <2> DEFINE a == list[i]
             b == list[j]
  <2>1. a \in Enabled /\ b \in Enabled /\ a \in Timers /\ b \in Timers
    <3>1. list \in Seq(Timers) BY DEF TypeOK
    <3>2. a \in Timers /\ b \in Timers BY ONLY <3>1, i \in DOMAIN list, j \in DOMAIN list
    <3> QED BY <3>2 DEF Enabled, ToSet
  <2>2. /\ left[a] = Offset(a) * Frac + ts[a].frac
        /\ left[b] = Offset(b) * Frac + ts[b].frac
    BY <2>1 DEF ExactStamps
  <2>3. \/ Offset(a) < Offset(b)
        \/ Offset(a) = Offset(b) /\ ts[a].frac <= ts[b].frac
    BY <2>1, OffType DEF SortedList, Precedes
  <2>4. /\ Offset(a) \in Int /\ Offset(b) \in Int
        /\ ts[a].frac \in 0 .. Frac - 1 /\ ts[b].frac \in 0 .. Frac - 1
    BY <2>1, OffType DEF Stamp
  <2> HIDE DEF a, b
  <2>5. CASE Offset(a) = Offset(b)
    <3>1. ts[a].frac <= ts[b].frac /\ Offset(a) * Frac \in Int
      BY <2>3, <2>4, <2>5, StampAssumption
    <3> QED BY <3>1, <2>2, <2>4, <2>5 DEF a, b
  <2>6. CASE Offset(a) < Offset(b)
    <3>1. \A x, y \in Int : x < y => x * Frac + Frac <= y * Frac
      <4> TAKE x, y \in Int
      <4> HAVE x < y
      <4>1. \A k \in Nat : k * Frac >= 0 BY StampAssumption
      <4>2. (y - x - 1) * Frac = y * Frac - x * Frac - Frac BY StampAssumption
      <4>3. y - x - 1 \in Nat OBVIOUS
      <4> QED BY <4>1, <4>2, <4>3, StampAssumption
    <3>2. Offset(a) * Frac \in Int /\ Offset(b) * Frac \in Int /\ Frac \in Int
      BY <2>4, StampAssumption
    <3>3. Offset(a) * Frac + Frac <= Offset(b) * Frac BY <3>1, <2>4, <2>6
    <3> QED BY <3>2, <3>3, <2>2, <2>4 DEF a, b
  <2> QED BY <2>3, <2>5, <2>6
<1> QED BY <1>1, TimerInvariant, PTL

LEMMA GrainOrder ==
  ASSUME NEW x \in Int, NEW y \in Int
  PROVE  Grain * x \in Int /\ (x <= y => Grain * x <= Grain * y)
<1>1. \A k \in Nat : Grain * k >= 0 BY DelayAssumption, UnitAssumption
<1>2. Grain * (y - x) = Grain * y - Grain * x BY DelayAssumption, UnitAssumption
<1>3. Grain * x \in Int /\ Grain * y \in Int BY DelayAssumption, UnitAssumption
<1>4. x <= y => y - x \in Nat OBVIOUS
<1> QED BY <1>1, <1>2, <1>3, <1>4

(* A callback runs in the cycle of its deadline or later, by at most the   *)
(* cycles of one CPU step and the rounding of its last piece; a split      *)
(* period counts as a whole.                                               *)
THEOREM TimerFiresOnTime == ShortFastOff => (Spec => FiresOnTime)
<1>1. ASSUME Inv, [Next]_vars
      PROVE  [pc = "loop" /\ pc' = "callback" =>
                 /\ asked[cur'] < Grain * Frac + Rounding
                 /\ asked[cur'] >= - (Grain * MaxStep * Frac + Rounding)]_vars
  <2> USE <1>1 DEF Inv
  <2> SUFFICES ASSUME pc = "loop", pc' = "callback"
               PROVE  /\ asked[cur'] < Grain * Frac + Rounding
                      /\ asked[cur'] >= - (Grain * MaxStep * Frac + Rounding)
    OBVIOUS
  <2>1. list # <<>> /\ HeadIsDue /\ ProcessFire(Head(list))
    BY DEF Next, vars, Cpu, CpuStep, ProcessNow, Process, ProcessPop, ProcessSplit,
           ProcessNull, CallbackReturn, OnesecReturn, ProcessEnd, timer_set_new_tsc,
           Device, DeviceSetDelay, DeviceAdvance, timer_disable, timer_on_auto,
           cpu_fast_off_advance, DeviceCode
  <2> DEFINE t == Head(list)
  <2>2. cur' = t /\ t \notin split BY <2>1 DEF ProcessFire
  <2>3. t \in Enabled /\ t \in Timers BY <2>1 DEF TypeOK, Enabled, ToSet
  <2>4. period[t] = 0 BY <2>2, <2>3 DEF SplitShape, TypeOK
  <2>5. left[t] = Offset(t) * Frac + ts[t].frac BY <2>3 DEF ExactStamps
  <2>6. Offset(t) \in - MaxStep .. 0 /\ ts[t].frac \in 0 .. Frac - 1
    <3>1. Offset(t) \in - MaxStep .. Reach BY <2>3 DEF InWindow, Low
    <3>2. \A m, n \in Integer :
             TIMER_VAL_LESS_THAN_VAL(m, n) => Signed(SubInt(m, n)) <= 0
      BY StampAssumption DEF TIMER_VAL_LESS_THAN_VAL, Signed, SubInt, Integer, Modulus
    <3>3. ts[t].integer \in Integer /\ tsc \in Integer /\ ts[t].frac \in 0 .. Frac - 1
      BY <2>3 DEF TypeOK, Stamp
    <3>4. Offset(t) <= 0
      BY <2>1, <3>2, <3>3 DEF HeadIsDue, TIMER_LESS_THAN_VAL, Offset
    <3> QED BY <3>1, <3>3, <3>4, DelayAssumption, UnitAssumption
  <2> HIDE DEF t
  <2>7. Offset(t) * Frac <= 0 /\ Offset(t) * Frac >= - MaxStep * Frac
    <3>1. \A x, y \in Int : x <= y => x * Frac <= y * Frac
      <4> TAKE x, y \in Int
      <4> HAVE x <= y
      <4>1. \A k \in Nat : k * Frac >= 0 BY StampAssumption
      <4>2. (y - x) * Frac = y * Frac - x * Frac BY StampAssumption
      <4> QED BY <4>1, <4>2, StampAssumption
    <3> QED BY <3>1, <2>6, StampAssumption, DelayAssumption, UnitAssumption
  <2>8. Offset(t) * Frac \in Int /\ - MaxStep * Frac \in Int /\ Frac \in Int
        /\ Grain \in Nat \ {0} /\ Rounding \in Nat /\ MaxStep * Frac \in Int
        /\ - MaxStep * Frac = - (MaxStep * Frac)
    BY <2>6, StampAssumption, DelayAssumption, UnitAssumption
  <2>9. left[t] \in Int /\ left[t] <= Frac - 1 /\ left[t] >= - (MaxStep * Frac)
    BY <2>5, <2>6, <2>7, <2>8
  <2>10. /\ Grain * left[t] <= Grain * (Frac - 1)
         /\ Grain * left[t] >= Grain * (- (MaxStep * Frac))
         /\ Grain * left[t] \in Int
    BY <2>8, <2>9, GrainOrder
  <2>11. /\ Grain * (Frac - 1) = Grain * Frac - Grain
         /\ Grain * (- (MaxStep * Frac)) = - (Grain * MaxStep * Frac)
         /\ Grain * Frac \in Int /\ Grain * MaxStep * Frac \in Int
    BY <2>8, DelayAssumption, UnitAssumption, StampAssumption
  <2>12. asked[t] \in Int /\ asked[t] - Grain * left[t] \in - Rounding .. Grain - 1 + Rounding
    <3>1. asked[t] - period[t] * TIMER_USEC - Grain * left[t]
             \in - Rounding .. Grain - 1 + Rounding
      BY <2>2, <2>3 DEF Rounded, Error, Slack
    <3>2. period[t] * TIMER_USEC = 0 BY <2>4, DelayAssumption, UnitAssumption
    <3>3. asked[t] \in Int BY <2>3 DEF TypeOK
    <3> QED BY <3>1, <3>2, <3>3
  <2> DEFINE g == Grain * left[t]
             u == Grain * Frac
             l == Grain * MaxStep * Frac
  <2>13. /\ g <= u - Grain /\ g >= - l /\ g \in Int /\ u \in Int /\ l \in Int
         /\ asked[t] \in Int /\ asked[t] - g \in - Rounding .. Grain - 1 + Rounding
    BY <2>10, <2>11, <2>12
  <2> HIDE DEF g, u, l
  <2>14. asked[t] < u + Rounding /\ asked[t] >= - (l + Rounding) BY <2>8, <2>13
  <2> QED BY <2>2, <2>14 DEF u, l
<1> QED BY <1>1, TimerInvariant, PTL DEF Spec, FiresOnTime

(* timer_process() drops no deadline: what it takes off the list runs its  *)
(* callback, or is a split timer that goes back with its next piece.       *)
THEOREM TimerNoDeadlineDropped == ShortFastOff => (Spec => NoDeadlineDropped)
<1>1. ASSUME Inv, [Next]_vars
      PROVE  [pc = "loop" => \A t \in Enabled \ NullCallback :
                                t \in Enabled' \/ cur' = t]_vars
  <2> USE <1>1 DEF Inv
  <2> SUFFICES ASSUME pc = "loop", ~ UNCHANGED vars, NEW x \in Enabled \ NullCallback
               PROVE  x \in Enabled' \/ cur' = x
    OBVIOUS
  <2>1. ProcessPop \/ ProcessEnd
    BY DEF Next, Cpu, CpuStep, ProcessNow, Process, CallbackReturn, OnesecReturn,
           timer_set_new_tsc, Device, DeviceSetDelay, DeviceAdvance, timer_disable,
           timer_on_auto, cpu_fast_off_advance, DeviceCode, CallbackShape
  <2>2. CASE ProcessEnd BY <2>2 DEF ProcessEnd, Enabled
  <2>3. CASE ProcessPop
    <3> DEFINE t == Head(list)
    <3>1. /\ list \in Seq(Timers) /\ NoRepeats(list) /\ list # <<>> /\ HeadIsDue
          /\ t \in Enabled /\ t \in Timers
      BY <2>3 DEF ProcessPop, TypeOK, NoRepeats, Enabled, ToSet
    <3>2. CASE ProcessNull(t) \/ ProcessFire(t)
      <4>1. list' = Tail(list) /\ (t \in NullCallback \/ cur' = t)
        BY <3>2 DEF ProcessNull, ProcessFire
      <4>2. Enabled' = Enabled \ {t} BY <4>1, <3>1, TailProperties DEF Enabled
      <4> QED BY <4>1, <4>2
    <3>3. CASE ProcessSplit(t)
      <4>1. /\ timer_advance_ex(t, period[t], FALSE) /\ t \in split
            /\ tsc' = tsc /\ pc' = pc
        BY <3>3 DEF ProcessSplit
      <4>2. period[t] \in Nat /\ period[t] > 0 BY <3>1, <4>1 DEF SplitShape, TypeOK
      <4>3. Off(ts[t]) \in - MaxStep .. 0
        <5>1. Off(ts[t]) = Offset(t) /\ Offset(t) \in - MaxStep .. Reach
          BY <3>1, OffType DEF InWindow, Low
        <5>2. \A m, n \in Integer :
                 TIMER_VAL_LESS_THAN_VAL(m, n) => Signed(SubInt(m, n)) <= 0
          BY StampAssumption DEF TIMER_VAL_LESS_THAN_VAL, Signed, SubInt, Integer, Modulus
        <5>3. ts[t].integer \in Integer /\ tsc \in Integer BY <3>1 DEF TypeOK, Stamp
        <5>4. Offset(t) <= 0
          BY <3>1, <5>2, <5>3 DEF HeadIsDue, TIMER_LESS_THAN_VAL, Offset
        <5> QED BY <5>1, <5>4, DelayAssumption, UnitAssumption
      <4>4. \E d \in Delay : timer_do_period(t, d, FALSE)
        <5>1. CASE period[t] > MAX_USEC * Grain
          <6>1. timer_do_period(t, MaxUsecStamp, FALSE)
            BY <4>1, <5>1 DEF timer_advance_ex, IsLong
          <6> QED BY <6>1, PeriodAssumption
        <5>2. CASE ~ (period[t] > MAX_USEC * Grain)
          <6>1. timer_do_period(t, UsecStamp(period[t]), FALSE)
            BY <4>1, <4>2, <5>2 DEF timer_advance_ex, IsLong
          <6>2. period[t] \in 0 .. MAX_USEC * Grain BY <4>2, <5>2, DelayAssumption, UnitAssumption
          <6> QED BY <6>1, <6>2, PeriodAssumption
        <5> QED BY <5>1, <5>2
      <4>5. \E s \in Stamp : timer_enable(t, s) /\ Off(s) \in Low .. Reach
        <5>1. left[t] = Off(ts[t]) * Frac + ts[t].frac
          BY <3>1, OffType DEF ExactStamps
        <5>2. pc # "cpu" OBVIOUS
        <5>3. PICK d \in Delay : timer_do_period(t, d, FALSE) BY <4>4
        <5> QED BY <3>1, <4>3, <5>1, <5>2, <5>3, PeriodStamp
      <4>6. Enabled' = Enabled \cup {t} BY <3>1, <4>1, <4>5, EnableStep
      <4> QED BY <4>6
    <3> QED BY <2>3, <3>2, <3>3 DEF ProcessPop
  <2> QED BY <2>1, <2>2, <2>3
<1> QED BY <1>1, TimerInvariant, PTL DEF Spec, NoDeadlineDropped

-----------------------------------------------------------------------------
(* The list as a queue of deadlines.                                       *)

(* Fixed-point numbers are ordered by their integers, then by fractions.   *)
LEMMA UnitsOrder ==
  ASSUME NEW a \in Int, NEW b \in Int, NEW f \in 0 .. Frac - 1, NEW g \in 0 .. Frac - 1
  PROVE  a * Frac + f <= b * Frac + g <=> a < b \/ (a = b /\ f <= g)
<1>1. a * Frac \in Int /\ b * Frac \in Int /\ Frac \in Nat BY StampAssumption
<1>2. ASSUME NEW x \in Int, NEW y \in Int, x < y PROVE x * Frac + Frac <= y * Frac
  <2>1. \A k \in Nat : k * Frac >= 0 BY StampAssumption
  <2>2. (y - x - 1) * Frac = y * Frac - x * Frac - Frac BY StampAssumption
  <2>3. y - x - 1 \in Nat BY <1>2
  <2> QED BY <2>1, <2>2, <2>3, StampAssumption
<1>3. CASE a < b
  <2>1. a * Frac + Frac <= b * Frac BY <1>2, <1>3
  <2> QED BY <1>1, <1>3, <2>1
<1>4. CASE b < a
  <2>1. b * Frac + Frac <= a * Frac BY <1>2, <1>4
  <2> QED BY <1>1, <1>4, <2>1
<1>5. CASE a = b BY <1>1, <1>5
<1> QED BY <1>3, <1>4, <1>5

(* timer_enable() inserts by the deadline its timestamp stands for. *)
LEMMA EnableInserts ==
  ASSUME Inv, Inv', NEW t \in Timers, NEW s, timer_enable(t, s), tsc' = tsc,
         \A x \in Timers \ {t} : left'[x] = left[x]
  PROVE  Inserted
<1> DEFINE rest == Without(list, t)
           k == left'[t]
<1>1. PICK i \in 1 .. Len(rest) + 1 :
         /\ GoesAt(rest, ts, s, i) /\ list' = InsertAt(rest, i, t)
         /\ ts' = [ts EXCEPT ![t] = s]
  BY DEF timer_enable
<1>2. rest \in Seq(Timers) /\ ToSet(rest) = Enabled \ {t}
  <2>1. list \in Seq(Timers) /\ NoRepeats(list) BY DEF Inv, TypeOK, NoRepeats
  <2> QED BY <2>1, WithoutProperties DEF Enabled
<1> HIDE DEF rest
<1>3. t \in Enabled'
  <2>1. InsertAt(rest, i, t) \in Seq(Timers) /\ Len(InsertAt(rest, i, t)) = Len(rest) + 1
    BY <1>2, InsertAtIsSeq
  <2>2. i \in 1 .. Len(rest) + 1 /\ i \in DOMAIN list' BY <1>1, <2>1
  <2>3. list'[i] = t BY <1>1, <1>2, <2>2, InsertAtElement
  <2> QED BY <2>2, <2>3 DEF Enabled, ToSet
<1>4. ts \in [Timers -> Stamp] /\ ts'[t] = s /\ s \in Stamp /\ tsc \in Integer
  BY <1>1 DEF Inv, TypeOK
<1>5. Off(s) \in - MaxStep .. Reach /\ k = Off(s) * Frac + s.frac
  <2>1. Offset(t)' = Off(s) BY <1>4 DEF Offset, Off
  <2>2. Offset(t)' \in (Low .. Reach)' BY <1>3 DEF Inv, InWindow
  <2>3. Low' \in {0, - MaxStep} /\ Reach' = Reach BY DEF Low, Reach
  <2>4. k = Offset(t)' * Frac + s.frac BY <1>3, <1>4 DEF Inv, ExactStamps
  <2> QED BY <2>1, <2>2, <2>3, <2>4, DelayAssumption, UnitAssumption, StampAssumption DEF Reach
<1>6. ASSUME NEW x \in Enabled \ {t}
      PROVE  TIMER_LESS_THAN(s, ts[x]) <=> k <= left[x]
  <2>1. x \in Timers /\ ts[x] \in Stamp BY <1>4 DEF Inv, TypeOK, Enabled, ToSet
  <2>2. Offset(x) = Off(ts[x]) /\ Off(ts[x]) \in - MaxStep .. Reach
    <3>1. Offset(x) = Off(ts[x]) BY DEF Offset, Off
    <3>2. Offset(x) \in Low .. Reach BY DEF Inv, InWindow
    <3> QED BY <3>1, <3>2, DelayAssumption, UnitAssumption, StampAssumption DEF Low, Reach
  <2>3. Off(s) - Off(ts[x]) < Half /\ Off(ts[x]) - Off(s) < Half
    BY <1>5, <2>2, DelayAssumption, UnitAssumption, StampAssumption DEF Reach
  <2>4. TIMER_LESS_THAN(s, ts[x]) <=> Precedes(s, ts[x])
    BY <1>4, <2>1, <2>3, LessThanInWindow
  <2>5. left[x] = Off(ts[x]) * Frac + ts[x].frac BY <2>2 DEF Inv, ExactStamps
  <2>6. /\ Off(s) \in Int /\ Off(ts[x]) \in Int
        /\ s.frac \in 0 .. Frac - 1 /\ ts[x].frac \in 0 .. Frac - 1
    BY <1>4, <1>5, <2>1, <2>2 DEF Stamp
  <2>7. Off(s) * Frac + s.frac <= Off(ts[x]) * Frac + ts[x].frac
          <=> Off(s) < Off(ts[x]) \/ (Off(s) = Off(ts[x]) /\ s.frac <= ts[x].frac)
    BY <2>6, UnitsOrder
  <2> QED BY <1>5, <2>4, <2>5, <2>7 DEF Precedes
<1>7. k \in Int /\ \A x \in Timers : left[x] \in Int BY DEF Inv, TypeOK
<1>8. left' = [left EXCEPT ![t] = k] BY DEF Inv, TypeOK
<1>9. \A j \in 1 .. Len(rest) : rest[j] \in Enabled \ {t} /\ rest[j] \in Timers
  BY <1>2 DEF ToSet
<1>10. ASSUME NEW j \in 1 .. i - 1 PROVE left[rest[j]] < k
  <2>1. j \in 1 .. Len(rest) /\ ~ TIMER_LESS_THAN(s, ts[rest[j]])
    BY <1>1, <1>2 DEF GoesAt
  <2> QED BY <1>6, <1>7, <1>9, <2>1
<1>11. ASSUME i <= Len(rest) PROVE k <= left[rest[i]]
  <2>1. i \in 1 .. Len(rest) /\ TIMER_LESS_THAN(s, ts[rest[i]])
    BY <1>1, <1>2, <1>11 DEF GoesAt
  <2> QED BY <1>6, <1>9, <2>1
<1> HIDE DEF k
<1>12. Queue!Without(list, t) = rest
  BY DEF Queue!Without, Queue!ToSet, Queue!RemoveAt, Without, ToSet, RemoveAt, rest
<1>13. Queue!Insert(t, k)
  BY <1>1, <1>8, <1>10, <1>11, <1>12 DEF Queue!Insert, Queue!InsertAt, InsertAt
<1> QED BY <1>13 DEF Inserted, k

(* timer_advance_ex() is about one timer. *)
LEMMA AdvanceLeft ==
  ASSUME Inv, NEW t, NEW p, NEW start, timer_advance_ex(t, p, start)
  PROVE  \A x \in Timers \ {t} : left'[x] = left[x]
<1>1. ASSUME NEW d, timer_do_period(t, d, start)
      PROVE  \A x \in Timers \ {t} : left'[x] = left[x]
  BY <1>1 DEF timer_do_period, timer_set_delay_u64, timer_advance_u64, Inv, TypeOK
<1> QED BY <1>1 DEF timer_advance_ex

(* timer_advance_ex() puts the timer into the list, or takes it out. *)
LEMMA AdvanceMoves ==
  ASSUME Inv, Inv', NEW t \in Timers, NEW p \in Nat, NEW start, tsc' = tsc,
         timer_advance_ex(t, p, start), \A x \in Timers \ {t} : left'[x] = left[x]
  PROVE  Inserted \/ Removed
<1>1. ASSUME NEW d, timer_do_period(t, d, start) PROVE Inserted
  <2>1. \E s : timer_enable(t, s)
    BY <1>1 DEF timer_do_period, timer_set_delay_u64, timer_advance_u64
  <2> QED BY <2>1, EnableInserts
<1>2. CASE list' = Without(list, t)
  <2>1. list \in Seq(Timers) /\ NoRepeats(list) /\ Enabled \subseteq Timers
    BY DEF Inv, TypeOK, NoRepeats, Enabled, ToSet
  <2>2. Enabled' = Enabled \ {t} BY <1>2, <2>1, WithoutProperties DEF Enabled
  <2> QED BY <1>2, <2>1, <2>2 DEF Removed
<1> QED BY <1>1, <1>2 DEF timer_advance_ex

LEMMA QueueStep ==
  ASSUME Inv, Inv', ShortFastOff, [Next]_vars
  PROVE  Inserted \/ Removed \/ Elapsed
<1> USE TimersAssumption
<1>1. list \in Seq(Timers) /\ NoRepeats(list) /\ Enabled \subseteq Timers
  BY DEF Inv, TypeOK, NoRepeats, Enabled, ToSet
<1>2. \A x \in Timers : left[x] \in Int BY DEF Inv, TypeOK
<1>3. ASSUME list' = list, \A x \in Enabled : left'[x] = left[x]
      PROVE  Elapsed
  <2>1. \A x \in Enabled : left'[x] = left[x] - 0 BY <1>1, <1>2, <1>3
  <2>2. 0 \in 0 .. MaxStep * Frac
    <3>1. \A k \in Nat : k * Frac \in Nat BY StampAssumption
    <3> QED BY <3>1, DelayAssumption, UnitAssumption
  <2> QED BY <1>3, <2>1, <2>2 DEF Elapsed
<1>4. ASSUME NEW d \in 1 .. MaxStep, CpuStep(d) PROVE Elapsed
  <2>1. list' = list /\ \A x \in Enabled : left'[x] = left[x] - d * Frac
    BY <1>1, <1>4 DEF CpuStep
  <2>2. d * Frac \in 0 .. MaxStep * Frac
    <3>1. d * Frac \in Nat /\ MaxStep * Frac \in Nat /\ (MaxStep - d) * Frac \in Nat
      <4>1. \A k \in Nat : k * Frac \in Nat BY StampAssumption
      <4> QED BY <4>1, DelayAssumption, UnitAssumption
    <3>2. (MaxStep - d) * Frac = MaxStep * Frac - d * Frac
      BY StampAssumption, DelayAssumption, UnitAssumption
    <3> QED BY <3>1, <3>2
  <2> QED BY <2>1, <2>2 DEF Elapsed
<1>5. ASSUME NEW t \in Timers, list' = Without(list, t),
             \A x \in Timers \ {t} : left'[x] = left[x]
      PROVE  Removed
  <2>1. Enabled' = Enabled \ {t} BY <1>1, <1>5, WithoutProperties DEF Enabled
  <2> QED BY <1>1, <1>5, <2>1 DEF Removed
<1>6. ASSUME list # <<>>
      PROVE  Tail(list) = Without(list, Head(list)) /\ Head(list) \in Timers
  <2>1. /\ Head(list) = list[1] /\ 1 \in DOMAIN list /\ Head(list) \in Timers
        /\ Len(list) \in Nat \ {0}
    BY <1>1, <1>6
  <2>2. \A i \in DOMAIN list : list[i] = Head(list) => i = 1 BY <1>1, <2>1 DEF NoRepeats
  <2>3. Without(list, Head(list)) = RemoveAt(list, 1)
    <3>1. (CHOOSE i \in DOMAIN list : list[i] = Head(list)) = 1 BY <2>1, <2>2
    <3>2. Head(list) \in ToSet(list) BY <2>1 DEF ToSet
    <3> QED BY <3>1, <3>2 DEF Without
  <2>4. RemoveAt(list, 1) = Tail(list)
    <3>1. /\ RemoveAt(list, 1) \in Seq(Timers) /\ Len(RemoveAt(list, 1)) = Len(list) - 1
          /\ \A j \in 1 .. Len(list) - 1 : RemoveAt(list, 1)[j] = list[j + 1]
      BY <1>1, <2>1, RemoveAtProperties
    <3>2. /\ Tail(list) \in Seq(Timers) /\ Len(Tail(list)) = Len(list) - 1
          /\ \A j \in 1 .. Len(list) - 1 : Tail(list)[j] = list[j + 1]
      BY <1>1, <1>6
    <3> QED BY <3>1, <3>2, SeqEqual
  <2> QED BY <2>1, <2>3, <2>4
<1>7. CASE ProcessPop
  <2> PICK t : t = Head(list) OBVIOUS
  <2>1. list # <<>> /\ t \in Timers /\ Tail(list) = Without(list, t)
    BY <1>6, <1>7 DEF ProcessPop
  <2>2. CASE ProcessFire(t) BY <1>5, <2>1, <2>2 DEF ProcessFire
  <2>3. CASE ProcessNull(t)
    <3>1. \A x \in Timers \ {t} : left'[x] = left[x]
      BY <2>3 DEF ProcessNull, Forget, Inv, TypeOK
    <3> QED BY <1>5, <2>1, <2>3, <3>1 DEF ProcessNull
  <2>4. CASE ProcessSplit(t)
    <3>1. period[t] \in Nat BY <2>1 DEF Inv, TypeOK
    <3>2. timer_advance_ex(t, period[t], FALSE) /\ tsc' = tsc BY <2>4 DEF ProcessSplit
    <3>3. \A x \in Timers \ {t} : left'[x] = left[x] BY <2>1, <3>2, AdvanceLeft
    <3> QED BY <2>1, <3>1, <3>2, <3>3, AdvanceMoves
  <2> QED BY <1>7, <2>2, <2>3, <2>4 DEF ProcessPop
<1>8. CASE CallbackReturn
  <2>1. \A x \in Enabled : left'[x] = left[x]
    BY <1>1, <1>8 DEF CallbackReturn, Forget, Inv, TypeOK
  <2> QED BY <1>3, <1>8, <2>1 DEF CallbackReturn
<1>9. CASE OnesecReturn
  <2>1. \E s : timer_enable(Onesec, s)
    BY <1>9 DEF OnesecReturn, OnesecRearmed, timer_advance_u64
  <2>2. left' = [left EXCEPT ![Onesec] = @ + Units(OnesecDelay)] /\ tsc' = tsc
    BY <1>9 DEF OnesecReturn, OnesecRearmed, timer_advance_u64
  <2>3. \A x \in Timers \ {Onesec} : left'[x] = left[x] BY <2>2 DEF Inv, TypeOK
  <2> QED BY <2>1, <2>2, <2>3, EnableInserts
<1>10. CASE ProcessEnd \/ ProcessNow \/ (\E n \in NewTscs : timer_set_new_tsc(n))
            \/ UNCHANGED vars
  BY <1>3, <1>10 DEF ProcessEnd, ProcessNow, timer_set_new_tsc, vars
<1>11. ASSUME NEW t \in Timers, Device(t) PROVE Inserted \/ Removed
  <2>1. ASSUME NEW v, left' = [left EXCEPT ![t] = v]
        PROVE  \A x \in Timers \ {t} : left'[x] = left[x]
    BY <2>1 DEF Inv, TypeOK
  <2>2. ASSUME NEW d \in Delays, DeviceSetDelay(t, d) \/ DeviceAdvance(t, d) PROVE Inserted
    <3>1. \E s : timer_enable(t, s)
      BY <2>2 DEF DeviceSetDelay, DeviceAdvance, timer_set_delay_u64, timer_advance_u64
    <3>2. tsc' = tsc /\ \E v : left' = [left EXCEPT ![t] = v]
      BY <2>2 DEF DeviceSetDelay, DeviceAdvance, timer_set_delay_u64, timer_advance_u64
    <3> QED BY <2>1, <3>1, <3>2, EnableInserts
  <2>3. CASE timer_disable(t) BY <1>5, <2>1, <2>3 DEF timer_disable, Forget
  <2>4. ASSUME NEW p \in Nat, NEW callbacks, timer_on(t, p, callbacks)
        PROVE  Inserted \/ Removed
    <3>1. PICK start : tsc' = tsc /\ timer_advance_ex(t, p, start) BY <2>4 DEF timer_on
    <3>2. \A x \in Timers \ {t} : left'[x] = left[x] BY <3>1, AdvanceLeft
    <3> QED BY <3>1, <3>2, AdvanceMoves
  <2>5. ASSUME NEW p \in Periods, timer_on_auto(t, p) PROVE Inserted \/ Removed
    <3>1. p \in Nat BY DelayAssumption, UnitAssumption
    <3>2. CASE p > 0 BY <2>4, <2>5, <3>1, <3>2 DEF timer_on_auto
    <3>3. CASE ~ (p > 0)
      <4>1. timer_stop(t) BY <2>5, <3>3 DEF timer_on_auto
      <4>2. \A x \in Timers \ {t} : left'[x] = left[x]
        BY <4>1 DEF timer_stop, Forget, Inv, TypeOK
      <4> QED BY <1>5, <4>1, <4>2 DEF timer_stop
    <3> QED BY <3>2, <3>3
  <2>6. ASSUME NEW p \in FastPeriods, cpu_fast_off_advance(t, p) PROVE Inserted \/ Removed
    <3>1. p \in Nat BY DelayAssumption, UnitAssumption
    <3> QED BY <2>4, <2>6, <3>1 DEF cpu_fast_off_advance
  <2> QED BY <1>11, <2>2, <2>3, <2>5, <2>6 DEF Device
<1>12. CASE \E t \in devices : Device(t) BY <1>11, <1>12 DEF Inv, TypeOK
<1> QED BY <1>4, <1>7, <1>8, <1>9, <1>10, <1>12 DEF Next, Cpu, Process

(* The list is a queue of true deadlines: what TimerLinks implements is    *)
(* all that the timer core does to it.                                     *)
THEOREM TimerIsQueue == ShortFastOff => (Spec => QueueByDeadline)
<1> SUFFICES ASSUME ShortFastOff PROVE Spec => QueueByDeadline OBVIOUS
<1>1. Inv /\ Inv' /\ [Next]_vars => [Inserted \/ Removed \/ Elapsed]_vars BY QueueStep
<1>2. Spec => []Inv BY TimerInvariant
<1> QED BY <1>1, <1>2, PTL DEF Spec, QueueByDeadline

=============================================================================
