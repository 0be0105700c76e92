--------------------------- MODULE VoodooFifoProofs ---------------------------
(***************************************************************************)
(* Theorems about VoodooFifo, for rings of any size.                       *)
(***************************************************************************)
EXTENDS VoodooFifo, SequenceTheorems, FiniteSetTheorems, TLAPS

(* The FIFO thread is between two entries, or carrying one out. *)
Between == {"top", "sleep", "woken", "begin", "test", "end", "ended"}
AtWork  == {"idle", "exec", "swap test", "swap sleep", "swap woken", "swap lock",
            "swap set", "count", "pop", "next"}

(* Only commands are waited for and counted. *)
Counted == {"swap test", "swap sleep", "swap woken", "swap lock", "swap set", "count"}

(* The entry that is being carried out stays in the ring until it is done. *)
HeadStays == thread \in AtWork => fifo # <<>>

(* A frame buffer entry, once begun, finds the render threads idle, and    *)
(* so does the one behind it that is begun without another wait.           *)
DrawsAlone ==
    /\ thread = "exec" /\ Head(fifo) \in {"fill", "pixel"} \cup Swaps => tris = 0
    /\ thread = "pop" /\ Head(fifo) = "pixel" => tris = 0
    /\ thread \in Counted => Head(fifo) # "pixel"

(* The ring that voodoo_flush() found empty stays empty. *)
StaysFlushed ==
    /\ cpu = "flush idle" => fifo = <<>>
    /\ cpu = "read" => fifo = <<>> /\ tris = 0

Inv ==
    /\ fifo \in Seq(Kinds \cup {None}) /\ arg \in Kinds \cup {None} /\ tris \in Nat
    /\ thread \in Between \cup AtWork
    /\ HeadStays /\ DrawsAlone /\ StaysFlushed

(* An entry put behind others leaves the first one the first. *)
LEMMA AppendFacts ==
  ASSUME NEW S, NEW s \in Seq(S), NEW e \in S
  PROVE  /\ Append(s, e) \in Seq(S) /\ Append(s, e) # <<>>
         /\ s # <<>> => Head(Append(s, e)) = Head(s)
<1>1. Append(s, e) \in Seq(S) /\ Append(s, e) # <<>>
  BY AppendProperties
<1>2. ASSUME s # <<>> PROVE Head(Append(s, e)) = Head(s)
  <2>1. Len(s) \in Nat /\ Len(s) # 0 BY <1>2, EmptySeq, LenProperties
  <2>2. 1 \in 1 .. Len(s) BY <2>1
  <2>3. Append(s, e)[1] = s[1] BY <2>2, AppendProperties
  <2> QED BY <1>1, <1>2, <2>3, HeadTailProperties
<1> QED BY <1>1, <1>2

LEMMA TailFacts ==
  ASSUME NEW S, NEW s \in Seq(S), s # <<>>
  PROVE  Head(s) = s[1] /\ Tail(s) \in Seq(S) /\ (Len(s) > 1 => Tail(s) # <<>>)
<1>1. Len(s) \in Nat BY LenProperties
<1>2. Head(s) = s[1] /\ Tail(s) \in Seq(S) /\ Len(Tail(s)) = Len(s) - 1
  BY HeadTailProperties
<1>3. Tail(s) = <<>> => Len(Tail(s)) = 0 BY EmptySeq
<1> QED BY <1>1, <1>2, <1>3

LEMMA InitInv == Init => Inv
BY DEF Init, Inv, HeadStays, DrawsAlone, StaysFlushed, Between, AtWork, Counted, NoneLeft, None

(* What the CPU thread does: it alone puts entries into the ring, and not  *)
(* while it waits for the ring to be empty.                                *)
LEMMA CpuStep == Inv /\ (Guest \/ CpuGoesOn \/ voodoo_wake_timer \/ Retrace) => Inv'
<1> SUFFICES ASSUME Inv, Guest \/ CpuGoesOn \/ voodoo_wake_timer \/ Retrace PROVE Inv'
  OBVIOUS
<1> USE DEF Inv, HeadStays, DrawsAlone, StaysFlushed, draw, idx
<1>1. ASSUME NEW w \in Writes, Write(w) PROVE Inv'
  BY <1>1, FifoAssumption DEF Write
<1>2. CASE QueueStore
  <2>1. fifo' = Append(fifo, arg) /\ tris' = tris /\ thread' = thread /\ arg' = arg
    BY <1>2 DEF QueueStore
  <2>0. fifo \in Seq(Kinds \cup {None}) /\ arg \in Kinds \cup {None}
    OBVIOUS
  <2>2. fifo' # <<>> /\ fifo' \in Seq(Kinds \cup {None})
    BY ONLY <2>1, <2>0, AppendFacts
  <2>3. fifo # <<>> => Head(fifo') = Head(fifo)
    BY ONLY <2>1, <2>0, AppendFacts
  <2>4. cpu' = "level" BY <1>2 DEF QueueStore
  <2>5. thread \in {"exec", "pop"} \cup Counted => fifo # <<>> BY DEF AtWork, Counted
  <2> QED BY <2>1, <2>2, <2>3, <2>4, <2>5
<1>3. CASE QueueTest \/ QueueReset \/ QueueRetest \/ QueueWait \/ QueueLevel \/ WriteKick
  BY <1>3 DEF QueueTest, QueueReset, QueueRetest, QueueWait, QueueLevel, WriteKick
<1>4. CASE ReadStatus \/ Flush \/ FlushTest \/ FlushWake \/ FlushIdle \/ Read
  BY <1>4 DEF ReadStatus, Flush, FlushTest, FlushWake, FlushIdle, Read, FIFO_EMPTY, NoneLeft
<1>5. CASE voodoo_card_close \/ CloseWake \/ CloseJoin
  BY <1>5 DEF voodoo_card_close, CloseWake, CloseJoin
<1>6. CASE voodoo_wake_timer \/ Retrace \/ RetraceWake
  BY <1>6 DEF voodoo_wake_timer, Retrace, RetraceWake
<1> QED BY <1>1, <1>2, <1>3, <1>4, <1>5, <1>6 DEF Guest, CpuGoesOn

(* What the FIFO thread and the render threads do. *)
LEMMA BeginWaits ==
  ASSUME Inv, fifo # <<>>, Begin
  PROVE  /\ thread' \in {"exec", "idle"}
         /\ thread' = "exec" => Head(fifo) \notin {"fill", "pixel"} \cup Swaps
BY DEF Begin, Swaps

LEMMA FifoStep == Inv /\ (FifoThread \/ Render) => Inv'
<1> SUFFICES ASSUME Inv, FifoThread \/ Render PROVE Inv'
  OBVIOUS
<1> USE DEF Inv, HeadStays, DrawsAlone, StaysFlushed, Between, AtWork, Counted, draw, idx
<1>1. CASE ThreadTop \/ ThreadSleep \/ ThreadWoken \/ ThreadBegin \/ ThreadEnd
  BY <1>1 DEF ThreadTop, ThreadSleep, ThreadWoken, ThreadBegin, ThreadEnd
<1>2. CASE ThreadTest
  <2>1. CASE FIFO_EMPTY BY <1>2, <2>1 DEF ThreadTest
  <2>2. CASE ~ FIFO_EMPTY
    <3>1. Begin /\ fifo # <<>> BY <1>2, <2>2 DEF ThreadTest, FIFO_EMPTY
    <3>2. fifo' = fifo /\ tris' = tris /\ cpu' = cpu /\ arg' = arg BY <1>2 DEF ThreadTest
    <3> QED BY <3>1, <3>2, BeginWaits
  <2> QED BY <2>1, <2>2
<1>3. CASE NextRegister
  <2>1. Begin /\ fifo # <<>> BY <1>3 DEF NextRegister
  <2>2. fifo' = fifo /\ tris' = tris /\ cpu' = cpu /\ arg' = arg BY <1>3 DEF NextRegister
  <2> QED BY <2>1, <2>2, BeginWaits
<1>4. CASE WaitIdle BY <1>4 DEF WaitIdle, NoneLeft
<1>5. CASE ExecTriangle
  <2>1. tris' = tris + 1 /\ thread = "exec" /\ thread' = "count" /\ Head(fifo) = "triangle"
    BY <1>5 DEF ExecTriangle, Submit
  <2>2. UNCHANGED <<fifo, arg, cpu>> BY <1>5 DEF ExecTriangle
  <2>0. tris \in Nat OBVIOUS
  <2>3. tris' \in Nat BY ONLY <2>1, <2>0
  <2>4. fifo # <<>> BY <2>1
  <2>5. cpu \notin {"flush idle", "read"} BY <2>4
  <2> QED BY <2>1, <2>2, <2>3, <2>4, <2>5
<1>6. CASE ExecOther BY <1>6 DEF ExecOther
<1>7. CASE ExecFlip \/ ExecSwap BY <1>7 DEF ExecFlip, ExecSwap
<1>8. CASE SwapTest \/ SwapSkip \/ SwapAgain \/ SwapSet
  BY <1>8 DEF SwapTest, SwapSkip, SwapAgain, SwapSet, AfterSwap
<1>9. CASE Count
  BY <1>9 DEF Count
<1>10. CASE Pop
  <2>1. fifo # <<>> /\ fifo' = Tail(fifo) /\ tris' = tris /\ cpu' = cpu /\ arg' = arg
    BY <1>10 DEF Pop
  <2>0. fifo \in Seq(Kinds \cup {None}) OBVIOUS
  <2>2. fifo' \in Seq(Kinds \cup {None}) /\ Head(fifo) = fifo[1]
    BY ONLY <2>1, <2>0, TailFacts
  <2>3. thread' \in {"exec", "next", "test"} BY <1>10 DEF Pop
  <2>4. thread' \in {"exec", "next"} => Len(fifo) > 1 BY <1>10 DEF Pop
  <2>5. thread' \in {"exec", "next"} => fifo' # <<>>
    BY ONLY <2>1, <2>0, <2>4, TailFacts
  <2>6. thread' = "exec" => fifo[1] = "pixel"
    BY <1>10 DEF Pop, Type
  <2>7. thread' = "exec" => tris = 0
    BY <1>10, <2>1, <2>2, <2>6 DEF Pop
  <2>8. cpu \notin {"flush idle", "read"} BY <2>1
  <2> QED BY <2>1, <2>2, <2>3, <2>5, <2>7, <2>8 DEF Counted
<1>11. CASE Render
  <2>1. tris > 0 /\ tris' = tris - 1 BY <1>11 DEF Render, Draw
  <2>2. UNCHANGED <<fifo, arg, thread, cpu>> BY <1>11 DEF Render
  <2>0. tris \in Nat OBVIOUS
  <2>3. tris # 0 /\ tris' \in Nat BY ONLY <2>1, <2>0
  <2> QED BY <2>2, <2>3
<1> QED BY <1>1, <1>2, <1>3, <1>4, <1>5, <1>6, <1>7, <1>8, <1>9, <1>10, <1>11 DEF FifoThread

(* The ring, the FIFO thread and the CPU thread agree on who works on the  *)
(* frame buffer.                                                           *)
THEOREM FifoInvariant == Spec => []Inv
<1>1. Inv /\ UNCHANGED vars => Inv'
  BY DEF Inv, HeadStays, DrawsAlone, StaysFlushed, vars, draw, idx
<1>2. Inv /\ [Next]_vars => Inv'
  BY <1>1, CpuStep, FifoStep DEF Next
<1> QED BY <1>2, InitInv, PTL DEF Spec

(* Nobody touches the frame buffer while triangles are drawn into it, and  *)
(* a read of it comes after all that was written before.                   *)
THEOREM FifoFramebufferQuiet == Spec => []FramebufferQuiet
<1>1. Inv => FramebufferQuiet
  BY DEF Inv, HeadStays, DrawsAlone, StaysFlushed, Between, AtWork, FramebufferQuiet
<1> QED BY <1>1, FifoInvariant, PTL

-----------------------------------------------------------------------------
(* What the status register tells: the counters against what is in the     *)
(* ring.                                                                   *)

(* The CPU thread has counted an entry that is not yet in the ring. *)
Storing == {"queue", "reset", "retest", "wait", "store"}

(* The FIFO thread waits for a swap to be done. *)
Waiting == {"swap test", "swap sleep", "swap woken", "swap lock"}

(* How many of the entries s are of the kinds K; those at hand are in the  *)
(* ring or on the way into it.                                             *)
Positions(s, K) == {i \in 1 .. Len(s) : s[i] \in K}
Number(s, K)    == Cardinality(Positions(s, K))
AtHand(K)       == Number(fifo, K) + (IF arg \in K /\ cpu \in Storing THEN 1 ELSE 0)

(* The command at the head of the ring was counted as read; the swap there *)
(* was done or waits for the retrace.                                      *)
HeadCounted == thread = "pop" /\ Head(fifo) \in Commands
HandedOver  ==
    /\ Head(fifo) \in Swaps
    /\ thread \in {"count", "pop"} \/ (~ triple /\ thread \in Waiting)

Counters ==
    /\ uncounted = AtHand(Commands) - (IF HeadCounted THEN 1 ELSE 0)
    /\ unswapped = AtHand(Swaps) - (IF HandedOver THEN 1 ELSE 0)
                                 + (IF swap_pending THEN 1 ELSE 0)
    /\ swap_count \in Nat /\ swap_count <= unswapped
    /\ twice \in Nat /\ unswapped <= swap_count + twice

(* Where a swap is pending, and what is at the head of the ring then. *)
SwapPlaces ==
    /\ thread \in Waiting \cup {"swap set"} => Head(fifo) = "swap"
    /\ thread = "count" => Head(fifo) \in Commands
    /\ ~ triple => /\ swap_pending => thread \in Waiting
                   /\ thread # "swap set"
    /\ thread = "swap set" => ~ swap_pending
    /\ arg # None => cpu \in Storing \cup {"level", "kick"}

LEMMA PositionsFinite ==
  ASSUME NEW S, NEW s \in Seq(S), NEW K
  PROVE  /\ IsFiniteSet(Positions(s, K)) /\ Number(s, K) \in Nat
         /\ Positions(s, K) \subseteq 1 .. Len(s)
<1>1. Len(s) \in Nat BY LenProperties
<1>2. IsFiniteSet(1 .. Len(s)) BY <1>1, FS_Interval
<1>3. Positions(s, K) \subseteq 1 .. Len(s) BY DEF Positions
<1>4. IsFiniteSet(Positions(s, K)) BY <1>2, <1>3, FS_Subset
<1> QED BY <1>3, <1>4, FS_CardinalityType DEF Number

(* A new last entry is one more if it is of the kind. *)
LEMMA NumberAppend ==
  ASSUME NEW S, NEW s \in Seq(S), NEW e \in S, NEW K
  PROVE  Number(Append(s, e), K) = Number(s, K) + (IF e \in K THEN 1 ELSE 0)
<1>0. Len(s) \in Nat BY LenProperties
<1>1. /\ Len(Append(s, e)) = Len(s) + 1
      /\ \A i \in 1 .. Len(s) : Append(s, e)[i] = s[i]
      /\ Append(s, e)[Len(s) + 1] = e
  BY AppendProperties
<1>2. 1 .. Len(s) + 1 = (1 .. Len(s)) \cup {Len(s) + 1} BY <1>0
<1>3. Len(s) + 1 \notin 1 .. Len(s) BY <1>0
<1>4. CASE e \in K
  <2>1. Positions(Append(s, e), K) = Positions(s, K) \cup {Len(s) + 1}
    BY <1>1, <1>2, <1>4 DEF Positions
  <2>2. Len(s) + 1 \notin Positions(s, K) BY <1>3 DEF Positions
  <2>3. Cardinality(Positions(s, K) \cup {Len(s) + 1}) = Cardinality(Positions(s, K)) + 1
    BY <2>2, PositionsFinite, FS_AddElement
  <2> QED BY <1>4, <2>1, <2>3 DEF Number
<1>5. CASE e \notin K
  <2>1. Positions(Append(s, e), K) = Positions(s, K)
    BY <1>1, <1>2, <1>5 DEF Positions
  <2>2. Number(s, K) \in Nat BY PositionsFinite
  <2>3. Number(Append(s, e), K) = Number(s, K) BY <2>1 DEF Number
  <2> QED BY <1>5, <2>2, <2>3
<1> QED BY <1>4, <1>5

(* The first entry is one of its kind, and the others stay. *)
LEMMA NumberTail ==
  ASSUME NEW S, NEW s \in Seq(S), s # <<>>, NEW K
  PROVE  Number(s, K) = Number(Tail(s), K) + (IF Head(s) \in K THEN 1 ELSE 0)
<1>0. Len(s) \in Nat /\ Len(s) # 0 BY EmptySeq, LenProperties
<1>1. /\ Tail(s) \in Seq(S) /\ Len(Tail(s)) = Len(s) - 1 /\ Head(s) = s[1]
      /\ \A i \in 1 .. Len(Tail(s)) : Tail(s)[i] = s[i + 1]
  BY HeadTailProperties
<1> DEFINE T == Positions(Tail(s), K)
           U == {i \in 2 .. Len(s) : s[i] \in K}
           f == [i \in T |-> i + 1]
<1>2. IsFiniteSet(T) /\ Cardinality(T) \in Nat BY <1>1, PositionsFinite, FS_CardinalityType
<1>3. Cardinality(U) = Cardinality(T) /\ IsFiniteSet(U)
  <2>1. \A i \in T : i \in Nat /\ i + 1 \in U BY <1>0, <1>1 DEF Positions
  <2>2. f \in [T -> U] BY <2>1
  <2>3. \A i, j \in T : f[i] = f[j] => i = j BY <2>1
  <2>4. ASSUME NEW j \in U PROVE \E i \in T : f[i] = j
    <3>1. j \in Nat /\ j - 1 \in 1 .. Len(s) - 1 /\ (j - 1) + 1 = j BY <1>0
    <3>2. j - 1 \in T BY <1>1, <3>1 DEF Positions
    <3> QED BY <3>1, <3>2
  <2>5. ExistsBijection(T, U)
    BY <2>2, <2>3, <2>4 DEF ExistsBijection, Bijection, Injection, Surjection, IsInjective
  <2> QED BY <2>5, <1>2, FS_Bijection
<1>4. 1 \notin U /\ 1 .. Len(s) = {1} \cup (2 .. Len(s)) BY <1>0
<1>5. CASE Head(s) \in K
  <2>1. Positions(s, K) = U \cup {1} BY <1>1, <1>4, <1>5 DEF Positions
  <2>2. Cardinality(U \cup {1}) = Cardinality(U) + 1 BY <1>3, <1>4, FS_AddElement
  <2> QED BY <2>1, <2>2, <1>3, <1>5 DEF Number
<1>6. CASE Head(s) \notin K
  <2>1. Positions(s, K) = U BY <1>1, <1>4, <1>6 DEF Positions
  <2> QED BY <2>1, <1>2, <1>3, <1>6 DEF Number
<1> QED BY <1>5, <1>6

(* None of the kind is none at all. *)
LEMMA NumberZero ==
  ASSUME NEW S, NEW s \in Seq(S), NEW K, Number(s, K) = 0, NEW i \in 1 .. Len(s)
  PROVE  s[i] \notin K
<1>1. Positions(s, K) = {} BY PositionsFinite, FS_EmptySet DEF Number
<1> QED BY <1>1 DEF Positions

(* The facts about the state that the steps below reason from. *)
LEMMA AtHandNat ==
  ASSUME Inv, NEW K
  PROVE  /\ Number(fifo, K) \in Nat /\ AtHand(K) \in Nat
         /\ fifo # <<>> /\ Head(fifo) \in K => AtHand(K) >= 1
<1>0. fifo \in Seq(Kinds \cup {None}) BY DEF Inv
<1>1. Number(fifo, K) \in Nat BY <1>0, PositionsFinite
<1>2. ASSUME fifo # <<>>, Head(fifo) \in K PROVE Number(fifo, K) >= 1
  <2>1. Number(fifo, K) = Number(Tail(fifo), K) + 1 BY <1>0, <1>2, NumberTail
  <2>2. Tail(fifo) \in Seq(Kinds \cup {None}) BY <1>0, <1>2, TailFacts
  <2>3. Number(Tail(fifo), K) \in Nat BY <2>2, PositionsFinite
  <2> QED BY ONLY <2>1, <2>3
<1> QED BY <1>1, <1>2 DEF AtHand

(* Entries are stored without being counted again, and taken out one by    *)
(* one.                                                                    *)
LEMMA AtHandStored ==
  ASSUME Inv, QueueStore, NEW K
  PROVE  AtHand(K)' = AtHand(K)
<1>0. fifo \in Seq(Kinds \cup {None}) /\ arg \in Kinds \cup {None} BY DEF Inv
<1>1. fifo' = Append(fifo, arg) /\ arg' = arg /\ cpu = "store" /\ cpu' = "level"
  BY DEF QueueStore
<1>2. Number(fifo', K) = Number(fifo, K) + (IF arg \in K THEN 1 ELSE 0)
  BY <1>0, <1>1, NumberAppend
<1>3. Number(fifo, K) \in Nat BY AtHandNat
<1>4. AtHand(K) = Number(fifo, K) + (IF arg \in K THEN 1 ELSE 0)
  BY <1>1 DEF AtHand, Storing
<1>5. AtHand(K)' = Number(fifo', K) + 0
  BY <1>1 DEF AtHand, Storing
<1>6. Number(fifo', K) \in Nat BY <1>2, <1>3
<1> QED BY <1>2, <1>4, <1>5, <1>6

LEMMA AtHandPopped ==
  ASSUME Inv, Pop, NEW K
  PROVE  AtHand(K) = AtHand(K)' + (IF Head(fifo) \in K THEN 1 ELSE 0)
<1>0. fifo \in Seq(Kinds \cup {None}) /\ fifo # <<>>
  BY DEF Inv, HeadStays, AtWork, Pop
<1>1. fifo' = Tail(fifo) /\ arg' = arg /\ cpu' = cpu BY DEF Pop
<1>2. Number(fifo, K) = Number(fifo', K) + (IF Head(fifo) \in K THEN 1 ELSE 0)
  BY <1>0, <1>1, NumberTail
<1>3. Tail(fifo) \in Seq(Kinds \cup {None}) BY <1>0, TailFacts
<1>4. Number(fifo', K) \in Nat BY <1>1, <1>3, PositionsFinite
<1> DEFINE q == IF arg \in K /\ cpu \in Storing THEN 1 ELSE 0
<1>5. q \in Nat /\ AtHand(K) = Number(fifo, K) + q /\ AtHand(K)' = Number(fifo', K) + q
  BY <1>1 DEF AtHand
<1> HIDE DEF q
<1> QED BY <1>2, <1>4, <1>5

(* Where else nothing is stored or taken out, the number at hand is as     *)
(* before.                                                                 *)
LEMMA AtHandSame ==
  ASSUME NEW K, fifo' = fifo, arg' = arg, cpu' \in Storing <=> cpu \in Storing
  PROVE  AtHand(K)' = AtHand(K)
BY DEF AtHand

LEMMA AtHandIdle ==
  ASSUME NEW K, fifo' = fifo, cpu \notin Storing, cpu' \notin Storing
  PROVE  AtHand(K)' = AtHand(K)
BY DEF AtHand

LEMMA AtHandWritten ==
  ASSUME Inv, NEW K, NEW w, Write(w)
  PROVE  AtHand(K)' = AtHand(K) + (IF w \in K THEN 1 ELSE 0)
<1>1. Number(fifo, K) \in Nat BY AtHandNat
<1> QED BY <1>1 DEF AtHand, Write, Storing

LEMMA CountersInit == Init => Counters /\ SwapPlaces
<1> SUFFICES ASSUME Init PROVE Counters /\ SwapPlaces OBVIOUS
<1>1. fifo = <<>> /\ Len(<<>>) = 0 BY EmptySeq DEF Init
<1>2. ASSUME NEW K PROVE AtHand(K) = 0
  <2>1. Positions(fifo, K) = {} BY <1>1 DEF Positions
  <2>2. Number(fifo, K) = 0 BY <2>1, FS_EmptySet DEF Number
  <2> QED BY <2>2 DEF AtHand, Init, Storing
<1>3. SwapPlaces
  BY FifoAssumption DEF Init, SwapPlaces, Waiting
<1>4. ~ HeadCounted /\ ~ HandedOver /\ ~ swap_pending
  BY DEF Init, HeadCounted, HandedOver, Waiting
<1>5. uncounted = 0 /\ unswapped = 0 /\ swap_count = 0 /\ twice = 0 BY DEF Init
<1> QED BY <1>2, <1>3, <1>4, <1>5 DEF Counters

(* The entry that is carried out is not the one that is stored. *)
LEMMA HeadKept ==
  ASSUME Inv, QueueStore
  PROVE  /\ fifo' # <<>> /\ thread' = thread /\ arg' = arg
         /\ thread \in AtWork => Head(fifo') = Head(fifo)
<1>0. fifo \in Seq(Kinds \cup {None}) /\ arg \in Kinds \cup {None} BY DEF Inv
<1>1. fifo' = Append(fifo, arg) /\ thread' = thread /\ arg' = arg BY DEF QueueStore
<1>2. thread \in AtWork => fifo # <<>> BY DEF Inv, HeadStays
<1> QED BY <1>0, <1>1, <1>2, AppendFacts

(* After a frame buffer entry only another one is begun at once. *)
LEMMA HeadPopped ==
  ASSUME Inv, Pop
  PROVE  /\ thread' \in {"exec", "next", "test"}
         /\ thread' = "exec" => Head(fifo') = "pixel"
<1>0. fifo \in Seq(Kinds \cup {None}) /\ fifo # <<>>
  BY DEF Inv, HeadStays, AtWork, Pop
<1>1. fifo' = Tail(fifo) BY DEF Pop
<1>2. ASSUME Len(fifo) > 1 PROVE Head(fifo') = fifo[2]
  <2>0. Len(fifo) \in Nat BY <1>0, LenProperties
  <2>1. /\ Len(Tail(fifo)) = Len(fifo) - 1
        /\ \A i \in 1 .. Len(Tail(fifo)) : Tail(fifo)[i] = fifo[i + 1]
    BY <1>0, HeadTailProperties
  <2>2. 1 \in 1 .. Len(Tail(fifo)) /\ 1 + 1 = 2 BY <2>0, <2>1, <1>2
  <2>3. Tail(fifo)[1] = fifo[2] BY <2>1, <2>2
  <2>4. Tail(fifo) \in Seq(Kinds \cup {None}) /\ Tail(fifo) # <<>>
    BY <1>0, <1>2, TailFacts
  <2>5. Head(Tail(fifo)) = Tail(fifo)[1] BY <2>4, HeadTailProperties
  <2> QED BY <1>1, <2>3, <2>5
<1> QED BY <1>2 DEF Pop, Type

(* What every step of the CPU thread but the retrace leaves alone. *)
LEMMA CpuLeaves ==
  ASSUME Guest \/ CpuGoesOn \/ voodoo_wake_timer
  PROVE  /\ UNCHANGED <<thread, triple, swap_pending, swap_offset, front_offset>>
         /\ UNCHANGED <<overtaken, disp_buffer, draw_buffer, tris, target>>
         /\ UNCHANGED fifo \/ QueueStore
<1> USE DEF swap, draw, idx
<1>1. ASSUME NEW w \in Writes, Write(w)
      PROVE  UNCHANGED <<thread, triple, swap_pending, swap_offset, front_offset, fifo,
                         overtaken, disp_buffer, draw_buffer, tris, target>>
  BY <1>1 DEF Write
<1>2. CASE QueueStore BY <1>2 DEF QueueStore
<1>3. CASE QueueTest \/ QueueReset \/ QueueRetest \/ QueueWait \/ QueueLevel \/ WriteKick
  BY <1>3 DEF QueueTest, QueueReset, QueueRetest, QueueWait, QueueLevel, WriteKick
<1>4. CASE ReadStatus \/ Flush \/ FlushTest \/ FlushWake \/ FlushIdle \/ Read
  BY <1>4 DEF ReadStatus, Flush, FlushTest, FlushWake, FlushIdle, Read
<1>5. CASE voodoo_card_close \/ CloseWake \/ CloseJoin \/ RetraceWake \/ voodoo_wake_timer
  BY <1>5 DEF voodoo_card_close, CloseWake, CloseJoin, RetraceWake, voodoo_wake_timer
<1> QED BY <1>1, <1>2, <1>3, <1>4, <1>5 DEF Guest, CpuGoesOn

(* An access of the guest is under way as long as the CPU thread has not   *)
(* come to its end.                                                        *)
LEMMA ArgStep ==
  ASSUME arg # None => cpu \in Storing \cup {"level", "kick"},
         Guest \/ CpuGoesOn \/ voodoo_wake_timer \/ Retrace
  PROVE  arg' # None => cpu' \in Storing \cup {"level", "kick"}
<1> USE DEF Storing
<1>1. ASSUME NEW w \in Writes, Write(w) PROVE cpu' = "queue"
  BY <1>1 DEF Write
<1>2. CASE QueueStore BY <1>2 DEF QueueStore
<1>3. CASE QueueTest \/ QueueReset \/ QueueRetest \/ QueueWait \/ QueueLevel \/ WriteKick
  BY <1>3 DEF QueueTest, QueueReset, QueueRetest, QueueWait, QueueLevel, WriteKick
<1>4. CASE ReadStatus \/ Flush \/ FlushTest \/ FlushWake \/ FlushIdle \/ Read
  BY <1>4 DEF ReadStatus, Flush, FlushTest, FlushWake, FlushIdle, Read
<1>5. CASE voodoo_card_close \/ CloseWake \/ CloseJoin \/ RetraceWake \/ voodoo_wake_timer
  BY <1>5 DEF voodoo_card_close, CloseWake, CloseJoin, RetraceWake, voodoo_wake_timer
<1>6. CASE Retrace BY <1>6 DEF Retrace
<1> QED BY <1>1, <1>2, <1>3, <1>4, <1>5, <1>6 DEF Guest, CpuGoesOn

LEMMA PlacesCpuStep ==
  Inv /\ SwapPlaces /\ (Guest \/ CpuGoesOn \/ voodoo_wake_timer \/ Retrace) => SwapPlaces'
<1> SUFFICES ASSUME Inv, SwapPlaces,
                    Guest \/ CpuGoesOn \/ voodoo_wake_timer \/ Retrace
             PROVE  SwapPlaces'
  OBVIOUS
<1>1. arg' # None => cpu' \in Storing \cup {"level", "kick"}
  BY ArgStep DEF SwapPlaces
<1>2. CASE Guest \/ CpuGoesOn \/ voodoo_wake_timer
  <2>1. UNCHANGED <<thread, triple, swap_pending>> BY <1>2, CpuLeaves
  <2>2. thread \in Waiting \cup {"swap set", "count"} => Head(fifo') = Head(fifo)
    BY <1>2, CpuLeaves, HeadKept DEF AtWork, Waiting
  <2> QED BY <1>1, <2>1, <2>2 DEF SwapPlaces
<1>3. CASE Retrace
  <2>1. UNCHANGED <<thread, triple, fifo>> /\ swap_pending' = FALSE
    BY <1>3 DEF Retrace, draw, idx
  <2> QED BY <1>1, <2>1 DEF SwapPlaces
<1> QED BY <1>2, <1>3

LEMMA PlacesFifoStep == Inv /\ SwapPlaces /\ (FifoThread \/ Render) => SwapPlaces'
<1> SUFFICES ASSUME Inv, SwapPlaces, FifoThread \/ Render PROVE SwapPlaces'
  OBVIOUS
<1> USE DEF SwapPlaces
<1>1. CASE ThreadTop \/ ThreadSleep \/ ThreadWoken \/ ThreadBegin \/ ThreadEnd
  <2>1. UNCHANGED <<triple, swap_pending, fifo, arg, cpu>>
    BY <1>1 DEF ThreadTop, ThreadSleep, ThreadWoken, ThreadBegin, ThreadEnd, idx, draw, swap
  <2>2. \/ thread' \in Between
        \/ thread \in Waiting /\ thread' \in Waiting
    BY <1>1 DEF ThreadTop, ThreadSleep, ThreadWoken, ThreadBegin, ThreadEnd, Between, Waiting
  <2>3. CASE thread' \in Between
    <3>1. thread \notin Waiting /\ thread # "swap set"
      BY <1>1, <2>3 DEF ThreadTop, ThreadSleep, ThreadWoken, ThreadBegin, ThreadEnd, Between,
                        Waiting
    <3> QED BY <2>1, <2>3, <3>1 DEF Between, Waiting
  <2>4. CASE thread \in Waiting /\ thread' \in Waiting
    BY <2>1, <2>4 DEF Waiting
  <2> QED BY <2>2, <2>3, <2>4
<1>2. CASE ThreadTest \/ NextRegister
  <2>1. UNCHANGED <<triple, swap_pending, arg, cpu>> /\ thread \in {"test", "next"}
    BY <1>2 DEF ThreadTest, NextRegister, swap, idx
  <2>2. thread' \in {"end", "idle", "exec"}
    BY <1>2 DEF ThreadTest, NextRegister, Begin
  <2> QED BY <2>1, <2>2 DEF Waiting
<1>3. CASE WaitIdle \/ Render
  <2>1. UNCHANGED <<triple, swap_pending, fifo, arg, cpu>>
    BY <1>3 DEF WaitIdle, Render, idx, draw, swap
  <2>2. \/ thread' = thread
        \/ thread = "idle" /\ thread' = "exec"
    BY <1>3 DEF WaitIdle, Render
  <2> QED BY <2>1, <2>2 DEF Waiting
<1>4. CASE ExecTriangle \/ ExecOther \/ ExecFlip
  <2>1. UNCHANGED <<triple, swap_pending, fifo, arg, cpu>>
    BY <1>4 DEF ExecTriangle, ExecOther, ExecFlip, idx, draw, swap
  <2>2. /\ thread = "exec" /\ thread' \in {"count", "pop"}
        /\ thread' = "count" => Head(fifo) \in Commands
    BY <1>4 DEF ExecTriangle, ExecOther, ExecFlip, Commands, Swaps
  <2> QED BY <2>1, <2>2 DEF Waiting
<1>5. CASE ExecSwap
  <2>1. UNCHANGED <<triple, fifo, arg, cpu>> /\ Head(fifo) = "swap" /\ thread = "exec"
    BY <1>5 DEF ExecSwap, idx, draw
  <2>2. CASE triple
    BY <1>5, <2>1, <2>2 DEF ExecSwap, Waiting
  <2>3. CASE ~ triple
    BY <1>5, <2>1, <2>3 DEF ExecSwap, Waiting
  <2> QED BY <2>2, <2>3
<1>6. CASE SwapTest \/ SwapSkip
  <2>1. UNCHANGED <<triple, fifo, arg, cpu>> /\ Head(fifo) = "swap" /\ thread \in Waiting
    BY <1>6 DEF SwapTest, SwapSkip, idx, draw, Waiting
  <2>2. \/ thread' \in Waiting /\ swap_pending' = swap_pending
        \/ ~ swap_pending' /\ (thread' = IF triple THEN "swap set" ELSE "count")
    BY <1>6 DEF SwapTest, SwapSkip, AfterSwap, Waiting, swap
  <2> QED BY <2>1, <2>2 DEF Waiting, Commands, Swaps
<1>7. CASE SwapAgain
  BY <1>7 DEF SwapAgain, Waiting, idx, draw, swap
<1>8. CASE SwapSet
  <2>1. UNCHANGED <<triple, fifo, arg, cpu>> /\ Head(fifo) = "swap" /\ triple
    BY <1>8 DEF SwapSet, idx, draw
  <2>2. thread' = "count" BY <1>8 DEF SwapSet
  <2> QED BY <2>1, <2>2 DEF Waiting, Commands, Swaps
<1>9. CASE Count \/ Pop
  <2>1. UNCHANGED <<triple, swap_pending, arg, cpu>> BY <1>9 DEF Count, Pop, draw, swap
  <2>2. thread' \in {"pop", "exec", "next", "test"} BY <1>9, HeadPopped DEF Count
  <2>3. thread \in {"count", "pop"} BY <1>9 DEF Count, Pop
  <2> QED BY <2>1, <2>2, <2>3 DEF Waiting
<1> QED BY <1>1, <1>2, <1>3, <1>4, <1>5, <1>6, <1>7, <1>8, <1>9 DEF FifoThread

(* Both counters of the guest follow what is at hand. *)
LEMMA CountersKept ==
  ASSUME Counters, UNCHANGED <<uncounted, unswapped, swap_count, twice, swap_pending>>,
         AtHand(Commands)' = AtHand(Commands), AtHand(Swaps)' = AtHand(Swaps),
         HeadCounted' <=> HeadCounted, HandedOver' <=> HandedOver
  PROVE  Counters'
BY DEF Counters

LEMMA CountersTyped ==
  ASSUME Inv, Counters
  PROVE  /\ AtHand(Commands) \in Nat /\ AtHand(Swaps) \in Nat
         /\ uncounted \in Int /\ unswapped \in Int /\ swap_count \in Nat /\ twice \in Nat
         /\ HandedOver => AtHand(Swaps) >= 1
<1>1. AtHand(Commands) \in Nat /\ AtHand(Swaps) \in Nat BY AtHandNat
<1>2. HandedOver => fifo # <<>> /\ Head(fifo) \in Swaps
  BY DEF HandedOver, Inv, HeadStays, AtWork, Waiting
<1>3. HandedOver => AtHand(Swaps) >= 1 BY <1>2, AtHandNat
<1>4. uncounted \in Int BY <1>1 DEF Counters
<1>5. unswapped \in Int BY <1>1 DEF Counters
<1> QED BY <1>1, <1>3, <1>4, <1>5 DEF Counters

LEMMA CountersWrite ==
  ASSUME Inv, Counters, NEW w, Write(w)
  PROVE  Counters'
<1>1. AtHand(Commands)' = AtHand(Commands) + (IF w \in Commands THEN 1 ELSE 0)
  BY AtHandWritten
<1>2. AtHand(Swaps)' = AtHand(Swaps) + (IF w \in Swaps THEN 1 ELSE 0)
  BY AtHandWritten
<1>3. uncounted' = uncounted + (IF w \in Commands THEN 1 ELSE 0)
  BY CountersTyped DEF Write
<1>4. /\ unswapped' = unswapped + (IF w \in Swaps THEN 1 ELSE 0)
      /\ swap_count' = swap_count + (IF w \in Swaps THEN 1 ELSE 0)
  BY CountersTyped DEF Write
<1>5. swap_pending' = swap_pending /\ twice' = twice BY DEF Write
<1>6. (HeadCounted' <=> HeadCounted) /\ (HandedOver' <=> HandedOver)
  <2>1. UNCHANGED <<fifo, thread, triple>> BY DEF Write, draw
  <2> QED BY <2>1 DEF HeadCounted, HandedOver
<1>7. uncounted' = AtHand(Commands)' - (IF HeadCounted' THEN 1 ELSE 0)
  BY <1>1, <1>3, <1>6, CountersTyped DEF Counters
<1>8. unswapped' = AtHand(Swaps)' - (IF HandedOver' THEN 1 ELSE 0)
                                  + (IF swap_pending' THEN 1 ELSE 0)
  BY <1>2, <1>4, <1>5, <1>6, CountersTyped DEF Counters
<1>9. swap_count' \in Nat /\ swap_count' <= unswapped'
  BY <1>4, CountersTyped DEF Counters
<1>10. twice' \in Nat /\ unswapped' <= swap_count' + twice'
  BY <1>4, <1>5, CountersTyped DEF Counters
<1> QED BY <1>7, <1>8, <1>9, <1>10 DEF Counters

LEMMA CountersRetrace ==
  ASSUME Inv, Counters, Retrace
  PROVE  Counters'
<1>0. fifo' = fifo /\ arg' = arg /\ cpu = "run" /\ cpu' = "retrace" BY DEF Retrace, idx
<1>1. AtHand(Commands)' = AtHand(Commands) /\ AtHand(Swaps)' = AtHand(Swaps)
  BY <1>0, AtHandSame DEF Storing
<1>2. (HeadCounted' <=> HeadCounted) /\ (HandedOver' <=> HandedOver)
  <2>1. UNCHANGED <<fifo, thread, triple>> BY DEF Retrace, draw, idx
  <2> QED BY <2>1 DEF HeadCounted, HandedOver
<1>3. /\ swap_pending /\ swap_pending' = FALSE /\ uncounted' = uncounted
      /\ unswapped' = unswapped - 1 /\ twice' = twice
      /\ swap_count' = IF swap_count > 0 THEN swap_count - 1 ELSE 0
  BY DEF Retrace, SwapDone, idx
<1>4. uncounted' = AtHand(Commands)' - (IF HeadCounted' THEN 1 ELSE 0)
  BY <1>1, <1>2, <1>3 DEF Counters
<1>5. unswapped' = AtHand(Swaps)' - (IF HandedOver' THEN 1 ELSE 0)
                                  + (IF swap_pending' THEN 1 ELSE 0)
  BY <1>1, <1>2, <1>3, CountersTyped DEF Counters
<1>6. unswapped >= 1 BY <1>3, CountersTyped DEF Counters
<1>7. swap_count' \in Nat /\ swap_count' <= unswapped'
  BY <1>3, <1>6, CountersTyped DEF Counters
<1>8. twice' \in Nat /\ unswapped' <= swap_count' + twice'
  BY <1>3, CountersTyped DEF Counters
<1> QED BY <1>4, <1>5, <1>7, <1>8 DEF Counters

LEMMA CountersCpuStep ==
  Inv /\ Counters /\ (Guest \/ CpuGoesOn \/ voodoo_wake_timer \/ Retrace) => Counters'
<1> SUFFICES ASSUME Inv, Counters,
                    Guest \/ CpuGoesOn \/ voodoo_wake_timer \/ Retrace
             PROVE  Counters'
  OBVIOUS
<1>1. ASSUME NEW w \in Writes, Write(w) PROVE Counters'
  BY <1>1, CountersWrite
<1>2. CASE QueueStore
  <2>1. AtHand(Commands)' = AtHand(Commands) /\ AtHand(Swaps)' = AtHand(Swaps)
    BY <1>2, AtHandStored
  <2>2. UNCHANGED <<uncounted, unswapped, swap_count, twice, swap_pending, thread, triple>>
    BY <1>2 DEF QueueStore, swap, draw
  <2>3. thread \in Waiting \cup {"count", "pop"} => Head(fifo') = Head(fifo)
    BY <1>2, HeadKept DEF AtWork, Waiting
  <2>4. (HeadCounted' <=> HeadCounted) /\ (HandedOver' <=> HandedOver)
    BY <2>2, <2>3 DEF HeadCounted, HandedOver
  <2> QED BY <2>1, <2>2, <2>4, CountersKept
<1>3. ASSUME UNCHANGED <<uncounted, unswapped, swap_count, twice, swap_pending, thread, triple, fifo>>,
             \/ arg' = arg /\ (cpu' \in Storing <=> cpu \in Storing)
             \/ cpu \notin Storing /\ cpu' \notin Storing
      PROVE  Counters'
  <2>1. AtHand(Commands)' = AtHand(Commands) /\ AtHand(Swaps)' = AtHand(Swaps)
    BY <1>3, AtHandSame, AtHandIdle
  <2>2. (HeadCounted' <=> HeadCounted) /\ (HandedOver' <=> HandedOver)
    BY <1>3 DEF HeadCounted, HandedOver
  <2> QED BY <1>3, <2>1, <2>2, CountersKept
<1> USE DEF idx, swap, draw, Storing
<1>4. CASE QueueTest \/ QueueReset \/ QueueRetest \/ QueueWait
  <2>1. UNCHANGED <<uncounted, unswapped, swap_count, twice, swap_pending, thread, triple, fifo>>
    BY <1>4 DEF QueueTest, QueueReset, QueueRetest, QueueWait
  <2>2. arg' = arg /\ cpu \in Storing /\ cpu' \in Storing
    BY <1>4 DEF QueueTest, QueueReset, QueueRetest, QueueWait
  <2> QED BY <1>3, <2>1, <2>2
<1>5. CASE QueueLevel \/ WriteKick \/ ReadStatus \/ Flush \/ FlushTest \/ FlushWake
           \/ FlushIdle \/ Read
  <2>1. UNCHANGED <<uncounted, unswapped, swap_count, twice, swap_pending, thread, triple, fifo>>
    BY <1>5 DEF QueueLevel, WriteKick, ReadStatus, Flush, FlushTest, FlushWake, FlushIdle, Read
  <2>2. cpu \notin Storing /\ cpu' \notin Storing
    BY <1>5 DEF QueueLevel, WriteKick, ReadStatus, Flush, FlushTest, FlushWake, FlushIdle, Read
  <2> QED BY <1>3, <2>1, <2>2
<1>6. CASE voodoo_card_close \/ CloseWake \/ CloseJoin \/ RetraceWake \/ voodoo_wake_timer
  <2>1. UNCHANGED <<uncounted, unswapped, swap_count, twice, swap_pending, thread, triple, fifo>>
    BY <1>6 DEF voodoo_card_close, CloseWake, CloseJoin, RetraceWake, voodoo_wake_timer
  <2>2. cpu \notin Storing /\ cpu' \notin Storing
    BY <1>6 DEF voodoo_card_close, CloseWake, CloseJoin, RetraceWake, voodoo_wake_timer
  <2> QED BY <1>3, <2>1, <2>2
<1>7. CASE Retrace BY <1>7, CountersRetrace
<1> QED BY <1>1, <1>2, <1>4, <1>5, <1>6, <1>7 DEF Guest, CpuGoesOn

(* A swap that is done, or done early, is taken off once, or once more     *)
(* than it should be.                                                      *)
LEMMA CountersSwap ==
  ASSUME Inv, SwapPlaces, Counters, ExecFlip \/ ExecSwap \/ SwapTest \/ SwapSkip \/ SwapSet
  PROVE  Counters'
<1>0. UNCHANGED <<fifo, arg, cpu, uncounted, triple>>
  BY DEF ExecFlip, ExecSwap, SwapTest, SwapSkip, SwapSet, idx, draw
<1>1. AtHand(Commands)' = AtHand(Commands) /\ AtHand(Swaps)' = AtHand(Swaps)
  BY <1>0, AtHandSame
<1>2. ~ HeadCounted /\ ~ HeadCounted'
  BY DEF ExecFlip, ExecSwap, SwapTest, SwapSkip, SwapSet, HeadCounted, AfterSwap
<1>3. uncounted' = AtHand(Commands)' - (IF HeadCounted' THEN 1 ELSE 0)
  BY <1>0, <1>1, <1>2 DEF Counters
<1> SUFFICES /\ unswapped' = AtHand(Swaps)' - (IF HandedOver' THEN 1 ELSE 0)
                                            + (IF swap_pending' THEN 1 ELSE 0)
             /\ swap_count' \in Nat /\ swap_count' <= unswapped'
             /\ twice' \in Nat /\ unswapped' <= swap_count' + twice'
  BY <1>3 DEF Counters
<1>4. CASE ExecFlip
  <2>1. ~ HandedOver /\ HandedOver'
    BY <1>0, <1>4 DEF ExecFlip, HandedOver, Waiting, Swaps
  <2>2. /\ unswapped' = unswapped - 1 /\ swap_pending' = swap_pending /\ twice' = twice
        /\ swap_count' = IF swap_count > 0 THEN swap_count - 1 ELSE 0
    BY <1>4 DEF ExecFlip, SwapDone
  <2>3. fifo # <<>> /\ Head(fifo) \in Swaps
    BY <1>4 DEF ExecFlip, Inv, HeadStays, AtWork, Swaps
  <2>4. AtHand(Swaps) >= 1 BY <2>3, AtHandNat
  <2>5. unswapped >= 1 BY <2>1, <2>4, CountersTyped DEF Counters
  <2> QED BY <1>1, <2>1, <2>2, <2>5, CountersTyped DEF Counters
<1>5. CASE ExecSwap
  <2>1. unswapped' = unswapped /\ swap_count' = swap_count /\ twice' = twice
    BY <1>5 DEF ExecSwap
  <2>2. ~ HandedOver BY <1>5 DEF ExecSwap, HandedOver, Waiting
  <2>3. CASE triple
    <3>1. swap_pending' = swap_pending /\ thread' \in Waiting \cup {"swap set"}
      BY <1>5, <2>3 DEF ExecSwap, Waiting
    <3>2. ~ HandedOver' BY <1>0, <2>3, <3>1 DEF HandedOver, Waiting
    <3> QED BY <1>1, <2>1, <2>2, <3>1, <3>2, CountersTyped DEF Counters
  <2>4. CASE ~ triple
    <3>1. swap_pending' = TRUE /\ thread' \in Waiting
      BY <1>5, <2>4 DEF ExecSwap, Waiting
    <3>2. ~ swap_pending BY <1>5, <2>4 DEF ExecSwap, SwapPlaces, Waiting
    <3>3. HandedOver' BY <1>0, <1>5, <2>4, <3>1 DEF HandedOver, ExecSwap, Swaps
    <3> QED BY <1>1, <2>1, <2>2, <3>1, <3>2, <3>3, CountersTyped DEF Counters
  <2> QED BY <2>3, <2>4
<1>6. CASE SwapTest
  <2>1. UNCHANGED <<unswapped, swap_count, twice, swap_pending>>
    BY <1>6 DEF SwapTest, swap
  <2>2. HandedOver' <=> HandedOver
    BY <1>0, <1>6 DEF SwapTest, AfterSwap, HandedOver, Waiting
  <2> QED BY <1>1, <2>1, <2>2, CountersTyped DEF Counters
<1>7. CASE SwapSkip
  <2>1. /\ unswapped' = IF swap_pending THEN unswapped - 1 ELSE unswapped
        /\ swap_count' = IF swap_count > 0 THEN swap_count - 1 ELSE 0
        /\ twice' = IF ~ swap_pending /\ swap_count > 0 THEN twice + 1 ELSE twice
        /\ swap_pending' = FALSE
    BY <1>7 DEF SwapSkip, SwapDone, TakenOffAgain
  <2>2. HandedOver' <=> HandedOver
    BY <1>0, <1>7 DEF SwapSkip, AfterSwap, HandedOver, Waiting
  <2>3. CASE swap_pending
    <3>1. unswapped >= 1 BY <2>3, CountersTyped DEF Counters
    <3> QED BY <1>1, <2>1, <2>2, <2>3, <3>1, CountersTyped DEF Counters
  <2>4. CASE ~ swap_pending
    BY <1>1, <2>1, <2>2, <2>4, CountersTyped DEF Counters
  <2> QED BY <2>3, <2>4
<1>8. CASE SwapSet
  <2>1. /\ unswapped' = unswapped /\ swap_count' = swap_count /\ twice' = twice
        /\ swap_pending' = TRUE
    BY <1>8 DEF SwapSet
  <2>2. ~ swap_pending BY <1>8 DEF SwapSet, SwapPlaces
  <2>3. ~ HandedOver BY <1>8 DEF SwapSet, HandedOver, Waiting
  <2>4. HandedOver' BY <1>0, <1>8 DEF SwapSet, HandedOver, SwapPlaces, Swaps
  <2> QED BY <1>1, <2>1, <2>2, <2>3, <2>4, CountersTyped DEF Counters
<1> QED BY <1>4, <1>5, <1>6, <1>7, <1>8

LEMMA CountersCount ==
  ASSUME Inv, SwapPlaces, Counters, Count
  PROVE  Counters'
<1>0. UNCHANGED <<fifo, arg, cpu, triple>> BY DEF Count, draw
<1>1. AtHand(Commands)' = AtHand(Commands) /\ AtHand(Swaps)' = AtHand(Swaps)
  BY <1>0, AtHandSame
<1>2. UNCHANGED <<unswapped, swap_count, twice, swap_pending>> /\ uncounted' = uncounted - 1
  BY DEF Count, swap
<1>3. HandedOver' <=> HandedOver BY <1>0 DEF Count, HandedOver
<1>4. ~ HeadCounted /\ HeadCounted' BY <1>0 DEF Count, HeadCounted, SwapPlaces
<1>5. uncounted' = AtHand(Commands)' - 1
  BY <1>1, <1>2, <1>4, CountersTyped DEF Counters
<1> QED BY <1>1, <1>2, <1>3, <1>4, <1>5 DEF Counters

LEMMA CountersPop ==
  ASSUME Inv, SwapPlaces, Counters, Pop
  PROVE  Counters'
<1>1. AtHand(Commands) = AtHand(Commands)' + (IF Head(fifo) \in Commands THEN 1 ELSE 0)
  BY AtHandPopped
<1>2. AtHand(Swaps) = AtHand(Swaps)' + (IF Head(fifo) \in Swaps THEN 1 ELSE 0)
  BY AtHandPopped
<1>3. UNCHANGED <<unswapped, swap_count, twice, swap_pending, uncounted>> BY DEF Pop, swap
<1>4. (HeadCounted <=> Head(fifo) \in Commands) /\ (HandedOver <=> Head(fifo) \in Swaps)
  BY DEF Pop, HeadCounted, HandedOver
<1>5. ~ HeadCounted' /\ ~ HandedOver' BY HeadPopped DEF HeadCounted, HandedOver, Waiting
<1>6. AtHand(Commands)' \in Nat /\ AtHand(Swaps)' \in Nat
  <2>1. Inv' BY FifoStep DEF FifoThread
  <2>2. ASSUME NEW K PROVE Number(fifo', K) \in Nat
    BY <2>1, PositionsFinite DEF Inv
  <2> QED BY <2>2 DEF AtHand
<1> QED BY <1>1, <1>2, <1>3, <1>4, <1>5, <1>6 DEF Counters

LEMMA CountersFifoStep ==
  Inv /\ SwapPlaces /\ Counters /\ (FifoThread \/ Render) => Counters'
<1> SUFFICES ASSUME Inv, SwapPlaces, Counters, FifoThread \/ Render PROVE Counters'
  OBVIOUS
<1>1. ASSUME UNCHANGED <<idx, cpu, arg, triple, swap_count, twice, unswapped, swap_pending>>,
             \/ thread' \notin Waiting \cup {"count", "pop"}
                /\ thread \notin Waiting \cup {"count", "pop"}
             \/ thread \in Waiting /\ thread' \in Waiting
             \/ Head(fifo) \notin Swaps \cup Commands
             \/ Head(fifo) \notin Swaps /\ thread # "pop" /\ thread' # "pop"
             \/ thread = thread'
      PROVE  Counters'
  <2>0. UNCHANGED <<fifo, cpu, arg, triple, uncounted, swap_count, twice, unswapped, swap_pending>>
    BY <1>1 DEF idx
  <2>1. AtHand(Commands)' = AtHand(Commands) /\ AtHand(Swaps)' = AtHand(Swaps)
    BY <2>0, AtHandSame
  <2>2. HeadCounted' <=> HeadCounted BY <1>1, <2>0 DEF HeadCounted, Waiting
  <2>3. HandedOver' <=> HandedOver
    <3>1. CASE Head(fifo) \notin Swaps BY <2>0, <3>1 DEF HandedOver
    <3>2. CASE thread \in Waiting /\ thread' \in Waiting
      BY <2>0, <3>2 DEF HandedOver, Waiting
    <3>3. CASE thread = thread' BY <2>0, <3>3 DEF HandedOver
    <3>4. CASE thread' \notin Waiting \cup {"count", "pop"}
               /\ thread \notin Waiting \cup {"count", "pop"}
      BY <3>4 DEF HandedOver
    <3> QED BY <1>1, <3>1, <3>2, <3>3, <3>4
  <2> QED BY <2>0, <2>1, <2>2, <2>3, CountersKept
<1> USE DEF Waiting, draw, swap
<1>2. CASE ThreadTop \/ ThreadSleep \/ ThreadWoken \/ ThreadBegin \/ ThreadEnd \/ SwapAgain
  BY <1>1, <1>2 DEF ThreadTop, ThreadSleep, ThreadWoken, ThreadBegin, ThreadEnd, SwapAgain
<1>3. CASE ThreadTest \/ NextRegister
  BY <1>1, <1>3 DEF ThreadTest, NextRegister, Begin
<1>4. CASE WaitIdle \/ Render
  BY <1>1, <1>4 DEF WaitIdle, Render
<1>5. CASE ExecTriangle \/ ExecOther
  BY <1>1, <1>5 DEF ExecTriangle, ExecOther, Commands, Swaps
<1>6. CASE ExecFlip \/ ExecSwap \/ SwapTest \/ SwapSkip \/ SwapSet
  BY <1>6, CountersSwap
<1>7. CASE Count BY <1>7, CountersCount
<1>8. CASE Pop BY <1>8, CountersPop
<1> QED BY <1>2, <1>3, <1>4, <1>5, <1>6, <1>7, <1>8 DEF FifoThread

(* The counters the guest reads against what is left to be done. *)
THEOREM FifoCounters == Spec => [](Counters /\ SwapPlaces)
<1>1. Inv /\ Counters /\ SwapPlaces /\ UNCHANGED vars => Counters' /\ SwapPlaces'
  <2> SUFFICES ASSUME Inv, Counters, SwapPlaces, UNCHANGED vars
               PROVE  Counters' /\ SwapPlaces'
    OBVIOUS
  <2>1. UNCHANGED <<fifo, cpu, arg, thread, triple, swap_pending>>
    BY DEF vars, idx, swap, draw
  <2>2. UNCHANGED <<uncounted, unswapped, swap_count, twice>> BY DEF vars, idx, swap
  <2>3. AtHand(Commands)' = AtHand(Commands) /\ AtHand(Swaps)' = AtHand(Swaps)
    BY <2>1, AtHandSame
  <2>4. (HeadCounted' <=> HeadCounted) /\ (HandedOver' <=> HandedOver)
    BY <2>1 DEF HeadCounted, HandedOver
  <2>5. Counters' BY <2>1, <2>2, <2>3, <2>4, CountersKept
  <2>6. SwapPlaces' BY <2>1 DEF SwapPlaces
  <2> QED BY <2>5, <2>6
<1>2. Inv /\ Counters /\ SwapPlaces /\ [Next]_vars => Counters' /\ SwapPlaces'
  BY <1>1, CountersCpuStep, CountersFifoStep, PlacesCpuStep, PlacesFifoStep DEF Next
<1> QED BY <1>2, CountersInit, FifoInvariant, PTL DEF Spec

(* How far the guest can rely on the status register: swap_count never     *)
(* counts a swap that is not coming, and is too low by at most the number  *)
(* of times a swap was taken off twice; when the busy bits are off no      *)
(* command the guest wrote is left to be carried out, though the render    *)
(* threads may still be drawing.                                           *)
THEOREM FifoStatusCounts == Spec => []StatusCounts
<1>1. Inv /\ Counters /\ SwapPlaces => StatusCounts
  <2> SUFFICES ASSUME Inv, Counters, SwapPlaces PROVE StatusCounts OBVIOUS
  <2>0. fifo \in Seq(Kinds \cup {None}) BY DEF Inv
  <2>1. swap_count <= unswapped /\ unswapped <= swap_count + twice BY DEF Counters
  <2>2. ASSUME uncounted = 0
        PROVE  /\ arg \notin Commands \/ cpu \in {"level", "kick"}
               /\ \A i \in 1 .. Len(fifo) :
                      fifo[i] \in Commands => i = 1 /\ thread = "pop"
    <3>1. AtHand(Commands) = IF HeadCounted THEN 1 ELSE 0
      BY <2>2, CountersTyped DEF Counters
    <3>2. Number(fifo, Commands) \in Nat BY AtHandNat
    <3>3. HeadCounted => fifo # <<>> BY DEF HeadCounted, Inv, HeadStays, AtWork
    <3>4. HeadCounted =>
            /\ Number(fifo, Commands) = Number(Tail(fifo), Commands) + 1
            /\ Number(Tail(fifo), Commands) \in Nat
      BY <2>0, <3>3, NumberTail, TailFacts, PositionsFinite DEF HeadCounted
    <3>5. ~ (arg \in Commands /\ cpu \in Storing)
      BY <3>1, <3>2, <3>4 DEF AtHand
    <3>6. Number(fifo, Commands) = IF HeadCounted THEN 1 ELSE 0
      BY <3>1, <3>2, <3>5 DEF AtHand
    <3>7. arg \notin Commands \/ cpu \in {"level", "kick"}
      BY <3>5 DEF SwapPlaces, Commands, Swaps, None
    <3>8. ASSUME NEW i \in 1 .. Len(fifo), fifo[i] \in Commands
          PROVE  i = 1 /\ thread = "pop"
      <4>1. HeadCounted BY <2>0, <3>6, <3>8, NumberZero
      <4>2. Number(Tail(fifo), Commands) = 0 BY <3>4, <3>6, <4>1
      <4>3. Tail(fifo) \in Seq(Kinds \cup {None}) BY <2>0, <3>3, <4>1, TailFacts
      <4>4. /\ Len(fifo) \in Nat /\ Len(Tail(fifo)) = Len(fifo) - 1
            /\ \A j \in 1 .. Len(Tail(fifo)) : Tail(fifo)[j] = fifo[j + 1]
        BY <2>0, <3>3, <4>1, HeadTailProperties, LenProperties
      <4>5. ASSUME i # 1 PROVE FALSE
        <5>1. i - 1 \in 1 .. Len(Tail(fifo)) /\ (i - 1) + 1 = i BY <4>4, <4>5
        <5>2. Tail(fifo)[i - 1] = fifo[i] BY <4>4, <5>1
        <5> QED BY <3>8, <4>2, <4>3, <5>1, <5>2, NumberZero
      <4> QED BY <4>1, <4>5 DEF HeadCounted
    <3> QED BY <3>7, <3>8
  <2> QED BY <2>1, <2>2 DEF StatusCounts
<1> QED BY <1>1, FifoInvariant, FifoCounters, PTL

-----------------------------------------------------------------------------
(* What is on the screen, and what is drawn into. *)

(* The buffers take turns: two of them, or three.  NextBuffer is the way   *)
(* forward; these are its parts, and the way back.                         *)
Other(b)      == 1 - b
Following(b)  == IF b = 2 THEN 0 ELSE b + 1
Preceding(b)  == IF b = 0 THEN 2 ELSE b - 1

(* The FIFO thread has begun a swap: the buffers are exchanged already,    *)
(* and what is on the screen is yet to follow.                             *)
SwapBegun ==
    \/ thread \in {"idle", "exec"} /\ Head(fifo) \in Swaps
    \/ thread \in Waiting \cup {"swap set"}

(* Triangles are drawn into the draw buffer.  While a swap that was begun  *)
(* waits for the last of them, they are in the buffer it will show.        *)
Drawing ==
    /\ tris > 0 => target = IF SwapBegun THEN disp_buffer ELSE draw_buffer
    /\ thread \in Waiting \cup {"swap set"} => tris = 0

(* With two buffers the screen shows the one that is not drawn into, and   *)
(* follows a swap before the FIFO thread goes on.                          *)
DoubleShown ==
    /\ disp_buffer \in 0 .. 1 /\ draw_buffer = Other(disp_buffer)
    /\ swap_pending => swap_offset = disp_buffer
    /\ thread \in {"idle", "exec"} /\ Head(fifo) \in Swaps =>
        front_offset = Other(disp_buffer)
    /\ ~ SwapBegun => front_offset = disp_buffer
    /\ thread \in Waiting /\ ~ swap_pending => front_offset = disp_buffer

(* With three buffers the screen may be one swap behind, and two while the *)
(* next swap is begun.                                                     *)
TripleShown ==
    /\ disp_buffer \in 0 .. 2 /\ draw_buffer = Following(disp_buffer)
    /\ ~ overtaken /\ ~ SwapBegun /\ swap_pending =>
        /\ swap_offset = disp_buffer
        /\ front_offset \in {disp_buffer, Preceding(disp_buffer)}
    /\ ~ overtaken /\ ~ SwapBegun /\ ~ swap_pending => front_offset = disp_buffer
    /\ ~ overtaken /\ SwapBegun /\ swap_pending =>
        /\ swap_offset = Preceding(disp_buffer)
        /\ front_offset \in {Preceding(disp_buffer), Preceding(Preceding(disp_buffer))}
    /\ ~ overtaken /\ SwapBegun /\ ~ swap_pending =>
        \/ front_offset = Preceding(disp_buffer)
        \/ front_offset = disp_buffer /\ thread = "swap set"

Shown ==
    /\ Drawing
    /\ triple => TripleShown
    /\ ~ triple => DoubleShown

LEMMA OtherFacts ==
  ASSUME NEW b \in 0 .. 1
  PROVE  Other(b) \in 0 .. 1 /\ Other(b) # b /\ Other(Other(b)) = b
BY DEF Other

LEMMA FollowingFacts ==
  ASSUME NEW b \in 0 .. 2
  PROVE  /\ Following(b) \in 0 .. 2 /\ Preceding(Following(b)) = b
         /\ Following(b) # b /\ Following(b) # Preceding(b)
         /\ b # Preceding(b) /\ b # Preceding(Preceding(b))
BY DEF Following, Preceding

LEMMA NextBufferIs ==
  /\ ~ triple => \A b \in 0 .. 1 : NextBuffer(b) = Other(b)
  /\ triple => \A b \in 0 .. 2 : NextBuffer(b) = Following(b)
<1>1. (0 + 1) % 3 = 1 /\ (1 + 1) % 3 = 2 /\ (2 + 1) % 3 = 0 OBVIOUS
<1>2. 0 .. 2 = {0, 1, 2} OBVIOUS
<1>3. ASSUME NEW b \in {0, 1, 2} PROVE (b + 1) % 3 = Following(b)
  BY <1>1 DEF Following
<1> QED BY <1>2, <1>3 DEF NextBuffer, Other

LEMMA ShownInit == Init => Shown
<1> SUFFICES ASSUME Init PROVE Shown OBVIOUS
<1>1. ~ SwapBegun BY DEF Init, SwapBegun, Waiting
<1>2. Drawing BY <1>1 DEF Init, Drawing, NoneLeft, Waiting
<1>3. disp_buffer = 0 /\ draw_buffer = 1 /\ front_offset = 0 /\ ~ swap_pending /\ thread = "top"
  BY DEF Init
<1>4. TripleShown BY <1>1, <1>3 DEF TripleShown, Following
<1>5. DoubleShown BY <1>1, <1>3 DEF DoubleShown, Other, Waiting
<1> QED BY <1>2, <1>4, <1>5 DEF Shown

(* What is shown depends on nothing else. *)
LEMMA ShownSame ==
  ASSUME Shown, UNCHANGED <<triple, swap_pending, swap_offset, front_offset>>,
         UNCHANGED <<overtaken, disp_buffer, draw_buffer, tris, target>>,
         thread' = thread, thread \in AtWork => Head(fifo') = Head(fifo)
  PROVE  Shown'
<1>1. SwapBegun' <=> SwapBegun BY DEF SwapBegun, AtWork, Waiting
<1>2. Drawing' BY <1>1 DEF Shown, Drawing
<1>3. TripleShown => TripleShown' BY <1>1 DEF TripleShown
<1>4. DoubleShown => DoubleShown'
  <2>1. thread \in {"idle", "exec"} => Head(fifo') = Head(fifo) BY DEF AtWork
  <2> QED BY <1>1, <2>1 DEF DoubleShown
<1> QED BY <1>2, <1>3, <1>4 DEF Shown

(* The retrace shows what was swapped in. *)
LEMMA ShownRetrace ==
  ASSUME Inv, SwapPlaces, Shown, Retrace
  PROVE  Shown'
<1>1. UNCHANGED <<triple, thread, fifo, overtaken, disp_buffer, draw_buffer, tris, target>>
  BY DEF Retrace, draw, idx
<1>2. swap_pending /\ swap_pending' = FALSE /\ front_offset' = swap_offset
  BY DEF Retrace
<1>3. SwapBegun' <=> SwapBegun BY <1>1 DEF SwapBegun
<1>4. Drawing' BY <1>1, <1>3 DEF Shown, Drawing
<1>5. ASSUME triple, TripleShown PROVE TripleShown'
  <2>1. disp_buffer' \in 0 .. 2 /\ draw_buffer' = Following(disp_buffer')
    BY <1>1, <1>5 DEF TripleShown
  <2>2. ASSUME ~ overtaken, SwapBegun PROVE front_offset' = Preceding(disp_buffer')
    BY <1>1, <1>2, <1>5, <2>2 DEF TripleShown
  <2>3. ASSUME ~ overtaken, ~ SwapBegun PROVE front_offset' = disp_buffer'
    BY <1>1, <1>2, <1>5, <2>3 DEF TripleShown
  <2> QED BY <1>1, <1>2, <1>3, <2>1, <2>2, <2>3 DEF TripleShown
<1>6. ASSUME ~ triple, DoubleShown PROVE DoubleShown'
  <2>1. thread \in Waiting BY <1>2, <1>6 DEF SwapPlaces
  <2>2. front_offset' = disp_buffer' BY <1>1, <1>2, <1>6 DEF DoubleShown
  <2> QED BY <1>1, <1>2, <1>6, <2>1, <2>2 DEF DoubleShown, Waiting
<1> QED BY <1>1, <1>4, <1>5, <1>6 DEF Shown

(* A step of the FIFO thread that neither begins nor ends a swap. *)
LEMMA ShownMoved ==
  ASSUME Shown, UNCHANGED <<triple, swap_pending, swap_offset, front_offset>>,
         UNCHANGED <<overtaken, disp_buffer, draw_buffer>>,
         tris' > 0 => tris > 0 /\ target' = target,
         \/ ~ SwapBegun /\ ~ SwapBegun'
         \/ /\ UNCHANGED fifo /\ Head(fifo) \in Swaps
            /\ thread = "idle" /\ thread' = "exec"
         \/ /\ thread \in Waiting /\ thread' \in Waiting
            /\ tris' = 0
  PROVE  Shown'
<1>1. SwapBegun' <=> SwapBegun BY DEF SwapBegun, Waiting
<1>2. Drawing' BY <1>1 DEF Shown, Drawing, SwapBegun, Waiting
<1>3. TripleShown => TripleShown'
  BY <1>1 DEF TripleShown, SwapBegun, Waiting
<1>4. DoubleShown => DoubleShown'
  BY <1>1 DEF DoubleShown, SwapBegun, Waiting
<1> QED BY <1>2, <1>3, <1>4 DEF Shown

(* A swap that is begun exchanges the buffers; what was drawn is what it   *)
(* will show.                                                              *)
LEMMA ShownBegin ==
  ASSUME Inv, SwapPlaces, Shown, ThreadTest \/ NextRegister
  PROVE  Shown'
<1>1. /\ UNCHANGED <<fifo, triple, swap_pending, swap_offset, front_offset>>
      /\ UNCHANGED <<overtaken, tris, target>>
  BY DEF ThreadTest, NextRegister, idx, swap
<1>2. ~ SwapBegun BY DEF ThreadTest, NextRegister, SwapBegun, Waiting
<1>3. CASE UNCHANGED <<disp_buffer, draw_buffer>> /\ ~ SwapBegun'
  BY <1>1, <1>2, <1>3, ShownMoved
<1>4. CASE /\ thread' = "idle" /\ Head(fifo) \in Swaps
           /\ disp_buffer' = NextBuffer(disp_buffer)
           /\ draw_buffer' = NextBuffer(draw_buffer)
  <2>1. SwapBegun' BY <1>1, <1>4 DEF SwapBegun
  <2>2. CASE triple
    <3>1. /\ disp_buffer \in 0 .. 2 /\ draw_buffer = Following(disp_buffer)
          /\ ~ overtaken /\ swap_pending =>
               swap_offset = disp_buffer /\ front_offset \in {disp_buffer, Preceding(disp_buffer)}
          /\ ~ overtaken /\ ~ swap_pending => front_offset = disp_buffer
      BY <1>2, <2>2 DEF Shown, TripleShown
    <3>2. disp_buffer' = Following(disp_buffer)
      BY <1>4, <2>2, <3>1, NextBufferIs
    <3>3. disp_buffer' \in 0 .. 2 /\ Preceding(disp_buffer') = disp_buffer
      BY <3>1, <3>2, FollowingFacts
    <3>4. draw_buffer' = Following(disp_buffer')
      BY <1>4, <2>2, <3>1, <3>2, <3>3, NextBufferIs
    <3>5. TripleShown' BY <1>1, <2>1, <3>1, <3>3, <3>4 DEF TripleShown
    <3>6. Drawing'
      BY <1>1, <1>2, <1>4, <2>1, <3>1, <3>2 DEF Shown, Drawing, Waiting
    <3> QED BY <1>1, <2>2, <3>5, <3>6 DEF Shown
  <2>3. CASE ~ triple
    <3>1. /\ disp_buffer \in 0 .. 1 /\ draw_buffer = Other(disp_buffer)
          /\ front_offset = disp_buffer
      BY <1>2, <2>3 DEF Shown, DoubleShown
    <3>2. disp_buffer' = Other(disp_buffer)
      BY <1>4, <2>3, <3>1, NextBufferIs
    <3>3. disp_buffer' \in 0 .. 1 /\ Other(disp_buffer') = disp_buffer
      BY <3>1, <3>2, OtherFacts
    <3>4. draw_buffer' = Other(disp_buffer')
      BY <1>4, <2>3, <3>1, <3>2, <3>3, NextBufferIs
    <3>0. ~ swap_pending BY <2>3 DEF SwapPlaces, ThreadTest, NextRegister, Waiting
    <3>5. DoubleShown'
      BY <1>1, <1>4, <2>1, <3>0, <3>1, <3>3, <3>4 DEF DoubleShown, Waiting
    <3>6. Drawing'
      BY <1>1, <1>2, <1>4, <2>1, <3>1, <3>2 DEF Shown, Drawing, Waiting
    <3> QED BY <1>1, <2>3, <3>5, <3>6 DEF Shown
  <2> QED BY <2>2, <2>3
<1>5. \/ UNCHANGED <<disp_buffer, draw_buffer>> /\ ~ SwapBegun'
      \/ /\ thread' = "idle" /\ Head(fifo) \in Swaps
         /\ disp_buffer' = NextBuffer(disp_buffer)
         /\ draw_buffer' = NextBuffer(draw_buffer)
  <2>1. CASE Begin
    BY <1>1, <2>1 DEF Begin, SwapBegun, Swaps, Waiting
  <2>2. CASE ThreadTest /\ FIFO_EMPTY
    BY <2>2 DEF ThreadTest, SwapBegun, Waiting
  <2> QED BY <2>1, <2>2 DEF ThreadTest, NextRegister
<1> QED BY <1>3, <1>4, <1>5

LEMMA ShownFlip ==
  ASSUME Inv, SwapPlaces, Shown, ExecFlip
  PROVE  Shown'
<1>1. /\ UNCHANGED <<fifo, triple, swap_pending, swap_offset>>
      /\ UNCHANGED <<tris, target, disp_buffer, draw_buffer>>
      /\ front_offset' = disp_buffer /\ thread' = "count"
  BY DEF ExecFlip, idx, draw
<1>2. ~ SwapBegun' BY <1>1 DEF SwapBegun, Waiting
<1>3. tris = 0 BY DEF ExecFlip, Inv, DrawsAlone, Swaps
<1>4. Drawing' BY <1>1, <1>3 DEF Drawing, Waiting
<1>5. ~ overtaken' => ~ swap_pending BY DEF ExecFlip
<1>6. TripleShown => TripleShown' BY <1>1, <1>2, <1>5 DEF TripleShown
<1>7. ASSUME ~ triple, DoubleShown PROVE DoubleShown'
  <2>1. ~ swap_pending' BY <1>1, <1>7 DEF ExecFlip, SwapPlaces, Waiting
  <2> QED BY <1>1, <1>2, <1>7, <2>1 DEF DoubleShown, Waiting
<1> QED BY <1>1, <1>4, <1>6, <1>7 DEF Shown

(* A swap is handed to the retrace, waited for, done early. *)
LEMMA ShownSwap ==
  ASSUME Inv, SwapPlaces, Shown, ExecSwap \/ SwapTest \/ SwapSkip \/ SwapSet
  PROVE  Shown'
<1>1. UNCHANGED <<fifo, triple, tris, target, overtaken, disp_buffer, draw_buffer>>
  BY DEF ExecSwap, SwapTest, SwapSkip, SwapSet, idx, draw, swap
<1>2. SwapBegun /\ Head(fifo) = "swap"
  BY DEF ExecSwap, SwapTest, SwapSkip, SwapSet, SwapBegun, SwapPlaces, Waiting, Swaps
<1>3. tris = 0 /\ tris' = 0
  BY <1>1, <1>2 DEF ExecSwap, SwapTest, SwapSkip, SwapSet, Shown, Drawing, Inv, DrawsAlone,
                    Waiting, Swaps
<1>4. Drawing' BY <1>3 DEF Drawing
<1>5. ASSUME triple, TripleShown PROVE TripleShown'
  <2>1. CASE ExecSwap
    <3>1. UNCHANGED <<swap_offset, swap_pending, front_offset>> BY <1>5, <2>1 DEF ExecSwap
    <3>2. SwapBegun' /\ thread = "exec" BY <2>1 DEF ExecSwap, SwapBegun, Waiting
    <3> QED BY <1>1, <1>2, <1>5, <3>1, <3>2 DEF TripleShown
  <2>2. CASE SwapTest
    <3>1. UNCHANGED <<swap_offset, swap_pending, front_offset>> BY <2>2 DEF SwapTest, swap
    <3>2. SwapBegun' /\ thread = "swap test"
      BY <1>5, <2>2 DEF SwapTest, AfterSwap, SwapBegun, Waiting
    <3> QED BY <1>1, <1>2, <1>5, <3>1, <3>2 DEF TripleShown
  <2>3. CASE SwapSkip
    <3>1. front_offset' = disp_buffer /\ swap_pending' = FALSE /\ thread' = "swap set"
      BY <1>5, <2>3 DEF SwapSkip, AfterSwap
    <3>2. SwapBegun' BY <3>1 DEF SwapBegun
    <3> QED BY <1>1, <1>5, <3>1, <3>2 DEF TripleShown
  <2>4. CASE SwapSet
    <3>1. /\ swap_offset' = disp_buffer /\ swap_pending' = TRUE
          /\ thread' = "count" /\ front_offset' = front_offset
      BY <2>4 DEF SwapSet
    <3>2. ~ SwapBegun' BY <3>1 DEF SwapBegun, Waiting
    <3>3. ~ swap_pending BY <2>4 DEF SwapSet, SwapPlaces
    <3>4. ~ overtaken => front_offset \in {disp_buffer, Preceding(disp_buffer)}
      BY <1>2, <1>5, <3>3 DEF TripleShown
    <3> QED BY <1>1, <1>5, <3>1, <3>2, <3>4 DEF TripleShown
  <2> QED BY <2>1, <2>2, <2>3, <2>4
<1>6. ASSUME ~ triple, DoubleShown PROVE DoubleShown'
  <2>1. CASE ExecSwap
    <3>1. /\ swap_offset' = disp_buffer /\ swap_pending' = TRUE /\ thread' = "swap test"
      BY <1>6, <2>1 DEF ExecSwap
    <3> QED BY <1>1, <1>6, <3>1 DEF DoubleShown, SwapBegun, Waiting
  <2>2. CASE SwapTest
    <3>1. UNCHANGED <<swap_offset, swap_pending, front_offset>> BY <2>2 DEF SwapTest, swap
    <3>2. thread = "swap test" /\ (swap_pending => thread' = "swap sleep")
          /\ (~ swap_pending => thread' = "count")
      BY <1>6, <2>2 DEF SwapTest, AfterSwap
    <3> QED BY <1>1, <1>6, <3>1, <3>2 DEF DoubleShown, SwapBegun, Waiting
  <2>3. CASE SwapSkip
    <3>1. front_offset' = disp_buffer /\ swap_pending' = FALSE /\ thread' = "count"
      BY <1>6, <2>3 DEF SwapSkip, AfterSwap
    <3> QED BY <1>1, <1>6, <3>1 DEF DoubleShown
  <2>4. CASE SwapSet BY <1>6, <2>4 DEF SwapSet, SwapPlaces
  <2> QED BY <2>1, <2>2, <2>3, <2>4
<1> QED BY <1>1, <1>4, <1>5, <1>6 DEF Shown

LEMMA ShownFifoStep == Inv /\ SwapPlaces /\ Shown /\ (FifoThread \/ Render) => Shown'
<1> SUFFICES ASSUME Inv, SwapPlaces, Shown, FifoThread \/ Render PROVE Shown'
  OBVIOUS
<1>1. CASE ThreadTop \/ ThreadSleep \/ ThreadWoken \/ ThreadBegin \/ ThreadEnd \/ SwapAgain
  <2>1. /\ UNCHANGED <<triple, swap_pending, swap_offset, front_offset>>
        /\ UNCHANGED <<overtaken, disp_buffer, draw_buffer, tris, target>>
    BY <1>1 DEF ThreadTop, ThreadSleep, ThreadWoken, ThreadBegin, ThreadEnd, SwapAgain, swap, draw
  <2>2. \/ thread \in Waiting /\ thread' \in Waiting
        \/ ~ SwapBegun /\ ~ SwapBegun'
    BY <1>1 DEF ThreadTop, ThreadSleep, ThreadWoken, ThreadBegin, ThreadEnd, SwapAgain, SwapBegun,
                Waiting
  <2>3. thread \in Waiting => tris = 0 BY DEF Shown, Drawing
  <2> QED BY <2>1, <2>2, <2>3, ShownMoved
<1>2. CASE ThreadTest \/ NextRegister BY <1>2, ShownBegin
<1>3. CASE WaitIdle
  <2>1. /\ UNCHANGED <<triple, swap_pending, swap_offset, front_offset>>
        /\ UNCHANGED <<overtaken, disp_buffer, draw_buffer, tris, target, fifo>>
        /\ thread = "idle" /\ thread' = "exec"
    BY <1>3 DEF WaitIdle, swap, draw, idx
  <2>2. Head(fifo) \notin Swaps => ~ SwapBegun /\ ~ SwapBegun'
    BY <2>1 DEF SwapBegun, Waiting
  <2> QED BY <2>1, <2>2, ShownMoved
<1>4. CASE ExecTriangle
  <2>1. /\ UNCHANGED <<triple, swap_pending, swap_offset, front_offset>>
        /\ UNCHANGED <<overtaken, disp_buffer, draw_buffer, fifo>>
        /\ thread = "exec" /\ thread' = "count" /\ target' = draw_buffer
    BY <1>4 DEF ExecTriangle, swap, idx
  <2>2. ~ SwapBegun /\ ~ SwapBegun'
    BY <1>4, <2>1 DEF ExecTriangle, SwapBegun, Waiting, Swaps
  <2>3. Drawing' BY <2>1, <2>2 DEF Drawing, Waiting
  <2>4. TripleShown => TripleShown' BY <2>1, <2>2 DEF TripleShown
  <2>5. DoubleShown => DoubleShown' BY <2>1, <2>2 DEF DoubleShown, Waiting
  <2> QED BY <2>1, <2>3, <2>4, <2>5 DEF Shown
<1>5. CASE ExecOther \/ Count \/ Pop
  <2>1. /\ UNCHANGED <<triple, swap_pending, swap_offset, front_offset>>
        /\ UNCHANGED <<overtaken, disp_buffer, draw_buffer, tris, target>>
    BY <1>5 DEF ExecOther, Count, Pop, swap, draw
  <2>2. ~ SwapBegun BY <1>5 DEF ExecOther, Count, Pop, SwapBegun, Waiting, Swaps
  <2>3. ~ SwapBegun'
    BY <1>5, HeadPopped DEF ExecOther, Count, SwapBegun, Waiting, Swaps
  <2> QED BY <2>1, <2>2, <2>3, ShownMoved
<1>6. CASE ExecFlip BY <1>6, ShownFlip
<1>7. CASE ExecSwap \/ SwapTest \/ SwapSkip \/ SwapSet BY <1>7, ShownSwap
<1>8. CASE Render
  <2>1. /\ UNCHANGED <<triple, swap_pending, swap_offset, front_offset>>
        /\ UNCHANGED <<overtaken, disp_buffer, draw_buffer, target, thread, fifo>>
    BY <1>8 DEF Render, swap, idx
  <2>2. tris > 0 BY <1>8 DEF Render, Draw
  <2>3. SwapBegun' <=> SwapBegun BY <2>1 DEF SwapBegun
  <2>4. tris # 0 BY <2>2 DEF Inv
  <2>5. Drawing' BY <2>1, <2>2, <2>3, <2>4 DEF Shown, Drawing
  <2>6. TripleShown => TripleShown' BY <2>1, <2>3 DEF TripleShown
  <2>7. DoubleShown => DoubleShown' BY <2>1, <2>3 DEF DoubleShown
  <2> QED BY <2>1, <2>5, <2>6, <2>7 DEF Shown
<1> QED BY <1>1, <1>2, <1>3, <1>4, <1>5, <1>6, <1>7, <1>8 DEF FifoThread

(* The screen follows the swaps, at most one of them behind with three     *)
(* buffers, and never behind with two.                                     *)
THEOREM FifoShown == Spec => []Shown
<1>1. Inv /\ SwapPlaces /\ Shown /\ [Next]_vars => Shown'
  <2> SUFFICES ASSUME Inv, SwapPlaces, Shown, [Next]_vars PROVE Shown' OBVIOUS
  <2>1. CASE UNCHANGED vars
    <3>1. /\ UNCHANGED <<triple, swap_pending, swap_offset, front_offset>>
          /\ UNCHANGED <<overtaken, disp_buffer, draw_buffer, tris, target, thread, fifo>>
      BY <2>1 DEF vars, swap, draw, idx
    <3> QED BY <3>1, ShownSame
  <2>2. CASE Guest \/ CpuGoesOn \/ voodoo_wake_timer
    <3>1. thread \in AtWork => Head(fifo') = Head(fifo) BY <2>2, CpuLeaves, HeadKept
    <3> QED BY <2>2, <3>1, CpuLeaves, ShownSame
  <2>3. CASE Retrace BY <2>3, ShownRetrace
  <2>4. CASE FifoThread \/ Render BY <2>4, ShownFifoStep
  <2> QED BY <2>1, <2>2, <2>3, <2>4 DEF Next
<1> QED BY <1>1, ShownInit, FifoInvariant, FifoCounters, PTL DEF Spec

(* Triangles are never drawn into the buffer that is on the screen, unless *)
(* a flip has overtaken a swap.                                            *)
THEOREM FifoDrawnHidden == Spec => []DrawnHidden
<1>1. Shown => DrawnHidden
  <2> SUFFICES ASSUME Shown, tris > 0, ~ overtaken PROVE target # front_offset
    BY DEF DrawnHidden
  <2>0. target = IF SwapBegun THEN disp_buffer ELSE draw_buffer BY DEF Shown, Drawing
  <2>1. ASSUME SwapBegun PROVE thread \in {"idle", "exec"} /\ Head(fifo) \in Swaps
    <3>1. tris # 0 OBVIOUS
    <3> QED BY <2>1, <3>1 DEF Shown, Drawing, SwapBegun
  <2>2. CASE triple
    <3>1. TripleShown BY <2>2 DEF Shown
    <3>2. CASE SwapBegun
      <4>1. front_offset \in {Preceding(disp_buffer), Preceding(Preceding(disp_buffer))}
        BY <2>1, <3>1, <3>2 DEF TripleShown
      <4> QED BY <2>0, <3>1, <3>2, <4>1, FollowingFacts DEF TripleShown
    <3>3. CASE ~ SwapBegun
      <4>1. front_offset \in {disp_buffer, Preceding(disp_buffer)}
        BY <3>1, <3>3 DEF TripleShown
      <4> QED BY <2>0, <3>1, <3>3, <4>1, FollowingFacts DEF TripleShown
    <3> QED BY <3>2, <3>3
  <2>3. CASE ~ triple
    <3>1. DoubleShown BY <2>3 DEF Shown
    <3> QED BY <2>0, <2>1, <3>1, OtherFacts DEF DoubleShown
  <2> QED BY <2>2, <2>3
<1> QED BY <1>1, FifoShown, PTL

-----------------------------------------------------------------------------
(* Wake-ups: why neither a retrace, nor a status read, nor the end of the  *)
(* card is missed by the FIFO thread.                                      *)

(* What the flags say of the two threads. *)
FlagsTrue ==
    /\ IF thread \in {"top", "sleep", "woken", "begin", "ended"}
       THEN voodoo_busy = FALSE ELSE voodoo_busy = TRUE
    /\ IF cpu \in {"flush", "flush wake", "flush idle"} THEN flush = TRUE ELSE flush = FALSE
    /\ IF cpu \in {"close", "join", "closed"}
       THEN fifo_thread_run = FALSE ELSE fifo_thread_run = TRUE

NoWakeUpLost ==
    /\ thread = "swap sleep" => swap_pending \/ wake_fifo_thread \/ cpu = "retrace"
    /\ thread = "sleep" => ~ voodoo_busy /\ (cpu = "join" => wake_fifo_thread)
    /\ flush <=> cpu \in {"flush", "flush wake", "flush idle"}
    /\ cpu = "closed" => thread = "ended"

Woken == FlagsTrue /\ NoWakeUpLost /\ (thread = "ended" => ~ fifo_thread_run)

LEMMA WokenInit == Init => Woken
BY DEF Init, Woken, FlagsTrue, NoWakeUpLost

(* The CPU thread wakes the FIFO thread after it took the swap, or told it *)
(* to end, and never resets the event.                                     *)
LEMMA WokenCpuStep ==
  ASSUME Woken, Guest \/ CpuGoesOn \/ voodoo_wake_timer \/ Retrace
  PROVE  Woken'
<1> USE DEF swap, flags, events
<1>1. UNCHANGED <<thread, voodoo_busy>>
  BY DEF Guest, CpuGoesOn, Write, QueueTest, QueueReset, QueueRetest, QueueWait, QueueStore,
         QueueLevel, WriteKick, ReadStatus, Flush, FlushTest, FlushWake, FlushIdle, Read,
         voodoo_card_close, CloseWake, CloseJoin, voodoo_wake_timer, Retrace, RetraceWake
<1>2. ASSUME UNCHANGED <<swap_pending, flush, fifo_thread_run>>,
             wake_fifo_thread => wake_fifo_thread',
             cpu \notin {"flush", "flush wake", "flush idle", "close", "join", "closed"},
             cpu' \notin {"flush", "flush wake", "flush idle", "close", "join", "closed"},
             cpu = "retrace" => wake_fifo_thread'
      PROVE  Woken'
  BY <1>1, <1>2 DEF Woken, FlagsTrue, NoWakeUpLost
<1>3. CASE \/ QueueTest \/ QueueReset \/ QueueRetest \/ QueueStore \/ QueueLevel \/ WriteKick
           \/ ReadStatus \/ Read \/ \E w \in Writes : Write(w)
  <2>1. /\ UNCHANGED <<swap_pending, flush, fifo_thread_run, wake_fifo_thread>>
        /\ cpu \in {"run", "queue", "reset", "retest", "wait", "store", "level", "kick", "read"}
        /\ cpu' \in {"run", "queue", "reset", "retest", "wait", "store", "level", "kick"}
    BY <1>3 DEF QueueTest, QueueReset, QueueRetest, QueueStore, QueueLevel, WriteKick,
                ReadStatus, Read, Write
  <2> QED BY <1>2, <2>1
<1>4. CASE QueueWait
  <2>1. /\ UNCHANGED <<swap_pending, flush, fifo_thread_run>>
        /\ cpu = "wait" /\ cpu' = "queue"
    BY <1>4 DEF QueueWait
  <2>2. wake_fifo_thread => wake_fifo_thread' BY <1>4 DEF QueueWait
  <2> QED BY <1>2, <2>1, <2>2
<1>8. CASE voodoo_wake_timer \/ RetraceWake
  <2>1. /\ UNCHANGED <<swap_pending, flush, fifo_thread_run>>
        /\ wake_fifo_thread' = TRUE /\ cpu \in {"run", "retrace"} /\ cpu' = "run"
    BY <1>8 DEF voodoo_wake_timer, RetraceWake
  <2> QED BY <1>2, <2>1
<1>5. CASE Retrace
  <2>1. /\ UNCHANGED <<flush, fifo_thread_run, wake_fifo_thread>>
        /\ cpu = "run" /\ cpu' = "retrace"
    BY <1>5 DEF Retrace
  <2> QED BY <1>1, <2>1 DEF Woken, FlagsTrue, NoWakeUpLost
<1>6. CASE Flush \/ FlushTest \/ FlushWake \/ FlushIdle
  <2>1. UNCHANGED <<swap_pending, fifo_thread_run>>
    BY <1>6 DEF Flush, FlushTest, FlushWake, FlushIdle
  <2>2. wake_fifo_thread => wake_fifo_thread'
    BY <1>6 DEF Flush, FlushTest, FlushWake, FlushIdle
  <2>3. cpu \in {"run", "flush", "flush wake", "flush idle"}
    BY <1>6 DEF Flush, FlushTest, FlushWake, FlushIdle
  <2>4. CASE Flush \/ FlushTest \/ FlushWake
    <3>1. flush' = TRUE
      BY <2>4 DEF Flush, FlushTest, FlushWake, Woken, FlagsTrue
    <3>2. cpu' \in {"flush", "flush wake", "flush idle"}
      BY <2>4 DEF Flush, FlushTest, FlushWake
    <3> QED BY <1>1, <2>1, <2>2, <2>3, <3>1, <3>2 DEF Woken, FlagsTrue, NoWakeUpLost
  <2>5. CASE FlushIdle
    <3>1. flush' = FALSE /\ cpu' = "read" BY <2>5 DEF FlushIdle
    <3> QED BY <1>1, <2>1, <2>2, <2>3, <3>1 DEF Woken, FlagsTrue, NoWakeUpLost
  <2> QED BY <1>6, <2>4, <2>5
<1>7. CASE voodoo_card_close \/ CloseWake \/ CloseJoin
  <2>1. UNCHANGED <<swap_pending, flush>>
    BY <1>7 DEF voodoo_card_close, CloseWake, CloseJoin
  <2>2. CASE voodoo_card_close
    <3>1. /\ cpu = "run" /\ cpu' = "close" /\ fifo_thread_run' = FALSE
          /\ wake_fifo_thread' = wake_fifo_thread
      BY <2>2 DEF voodoo_card_close
    <3> QED BY <1>1, <2>1, <3>1 DEF Woken, FlagsTrue, NoWakeUpLost
  <2>3. CASE CloseWake
    <3>1. /\ cpu = "close" /\ cpu' = "join" /\ fifo_thread_run' = fifo_thread_run
          /\ wake_fifo_thread' = TRUE
      BY <2>3 DEF CloseWake
    <3> QED BY <1>1, <2>1, <3>1 DEF Woken, FlagsTrue, NoWakeUpLost
  <2>4. CASE CloseJoin
    <3>1. /\ cpu = "join" /\ cpu' = "closed" /\ fifo_thread_run' = fifo_thread_run
          /\ wake_fifo_thread' = wake_fifo_thread /\ thread = "ended"
      BY <2>4 DEF CloseJoin
    <3> QED BY <1>1, <2>1, <3>1 DEF Woken, FlagsTrue, NoWakeUpLost
  <2> QED BY <1>7, <2>2, <2>3, <2>4
<1> QED BY <1>3, <1>4, <1>5, <1>6, <1>7, <1>8 DEF Guest, CpuGoesOn

(* The FIFO thread resets the event only after it has stopped sleeping,    *)
(* and tests again before it sleeps again.                                 *)
LEMMA WokenFifoStep ==
  ASSUME Woken, FifoThread \/ Render
  PROVE  Woken'
<1> USE DEF swap, flags, events
<1>1. UNCHANGED <<cpu, flush, fifo_thread_run>>
  BY DEF FifoThread, Render, ThreadTop, ThreadSleep, ThreadWoken, ThreadBegin, ThreadTest,
         ThreadEnd, WaitIdle, ExecTriangle, ExecOther, ExecFlip, ExecSwap, SwapTest, SwapSkip,
         SwapAgain, SwapSet, Count, Pop, NextRegister
<1> DEFINE asleep == {"top", "sleep", "woken", "begin", "ended"}
<1>2. ASSUME voodoo_busy' = voodoo_busy, thread \notin asleep,
             thread' \notin asleep \cup {"swap sleep"}
      PROVE  Woken'
  BY <1>1, <1>2 DEF Woken, FlagsTrue, NoWakeUpLost
<1>3. CASE ThreadTop
  <2>1. UNCHANGED <<swap_pending, wake_fifo_thread, voodoo_busy>> BY <1>3 DEF ThreadTop
  <2>2. thread = "top" /\ IF fifo_thread_run THEN thread' = "sleep" ELSE thread' = "ended"
    BY <1>3 DEF ThreadTop
  <2> QED BY <1>1, <2>1, <2>2 DEF Woken, FlagsTrue, NoWakeUpLost
<1>9. CASE ThreadBegin \/ ThreadEnd
  <2>1. \/ thread = "begin" /\ thread' = "test" /\ voodoo_busy' = TRUE
        \/ thread = "end" /\ thread' = "top" /\ voodoo_busy' = FALSE
    BY <1>9 DEF ThreadBegin, ThreadEnd
  <2> QED BY <1>1, <2>1 DEF Woken, FlagsTrue, NoWakeUpLost
<1>4. CASE ThreadSleep \/ ThreadWoken
  <2>1. /\ UNCHANGED <<swap_pending, voodoo_busy>>
        /\ \/ thread = "sleep" /\ thread' = "woken"
           \/ thread = "swap sleep" /\ thread' = "swap woken"
           \/ thread = "woken" /\ thread' = "begin"
           \/ thread = "swap woken" /\ thread' = "swap lock"
    BY <1>4 DEF ThreadSleep, ThreadWoken
  <2> QED BY <1>1, <2>1 DEF Woken, FlagsTrue, NoWakeUpLost
<1>5. CASE ThreadTest \/ NextRegister \/ WaitIdle \/ ExecTriangle \/ ExecOther \/ Count \/ Pop
  <2>1. /\ voodoo_busy' = voodoo_busy
        /\ thread \in {"test", "next", "idle", "exec", "count", "pop"}
        /\ thread' \in {"end", "exec", "idle", "count", "pop", "next", "test"}
    BY <1>5 DEF ThreadTest, NextRegister, Begin, WaitIdle, ExecTriangle, ExecOther, Count, Pop
  <2> QED BY <1>2, <2>1
<1>6. CASE ExecFlip \/ ExecSwap \/ SwapSkip \/ SwapAgain \/ SwapSet
  <2>1. /\ voodoo_busy' = voodoo_busy
        /\ thread \in {"exec", "swap lock", "swap set"}
        /\ thread' \in {"count", "swap set", "swap test"}
    BY <1>6 DEF ExecFlip, ExecSwap, SwapSkip, SwapAgain, SwapSet, AfterSwap
  <2> QED BY <1>2, <2>1
<1>7. CASE SwapTest
  <2>1. /\ UNCHANGED <<swap_pending, wake_fifo_thread, voodoo_busy>> /\ thread = "swap test"
        /\ (thread' = "swap sleep" /\ swap_pending) \/ thread' \in {"swap set", "count"}
    BY <1>7 DEF SwapTest, AfterSwap
  <2> QED BY <1>1, <2>1 DEF Woken, FlagsTrue, NoWakeUpLost
<1>8. CASE Render
  <2>1. UNCHANGED <<thread, swap_pending, wake_fifo_thread, voodoo_busy>>
    BY <1>8 DEF Render
  <2> QED BY <1>1, <2>1 DEF Woken, FlagsTrue, NoWakeUpLost
<1> QED BY <1>3, <1>4, <1>5, <1>6, <1>7, <1>8, <1>9 DEF FifoThread

(* No wake-up of the FIFO thread is lost.  It sleeps for a retrace only    *)
(* while the swap waits, or has been woken after it, or is just about to   *)
(* be; it sleeps for work only with voodoo_busy clear, so that the next    *)
(* command or status read arms the timer that wakes it, and not past the   *)
(* wake-up of voodoo_card_close(), which joins it before it frees the      *)
(* card; and flush, which ends the wait for the retrace, is set exactly    *)
(* while voodoo_flush() waits.                                             *)
THEOREM FifoNoWakeUpLost == Spec => []NoWakeUpLost
<1>1. Woken /\ UNCHANGED vars => Woken'
  <2> SUFFICES ASSUME Woken, UNCHANGED vars PROVE Woken' OBVIOUS
  <2>1. UNCHANGED <<cpu, thread, flush, fifo_thread_run, voodoo_busy, swap_pending,
                    wake_fifo_thread>>
    BY DEF vars, swap, flags, events
  <2> QED BY <2>1 DEF Woken, FlagsTrue, NoWakeUpLost
<1>2. Woken /\ [Next]_vars => Woken' BY <1>1, WokenCpuStep, WokenFifoStep DEF Next
<1>3. Woken => NoWakeUpLost BY DEF Woken
<1> QED BY <1>2, <1>3, WokenInit, PTL DEF Spec
=============================================================================
