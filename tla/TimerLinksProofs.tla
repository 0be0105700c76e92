-------------------------- MODULE TimerLinksProofs --------------------------
(***************************************************************************)
(* Proofs about TimerLinks, for any number of timers and any deadlines:    *)
(* the pointers always form a list, and that list is the queue of          *)
(* TimerQueue.                                                             *)
(***************************************************************************)
EXTENDS TimerLinks, SequenceTheorems, FiniteSetTheorems, WellFoundedInduction, TLAPS

PointerOrNull == Timers \cup {NULL}

Lists == [head : PointerOrNull, next : [Timers -> PointerOrNull],
          prev : [Timers -> PointerOrNull]]

(* No element occurs twice. *)
NoRepeats(q) == \A i, j \in DOMAIN q : i # j => q[i] # q[j]

(* The pointers of l link the timers of q, and nothing else follows them. *)
Chain(q, l) ==
    /\ q \in Seq(Timers) /\ NoRepeats(q)
    /\ l.head = IF q = <<>> THEN NULL ELSE q[1]
    /\ \A i \in 1 .. Len(q) :
          /\ l.next[q[i]] = (IF i = Len(q) THEN NULL ELSE q[i + 1])
          /\ l.prev[q[i]] = (IF i = 1 THEN NULL ELSE q[i - 1])

Alone(l, t) == l.next[t] = NULL /\ l.prev[t] = NULL

(* The timers outside S have the same links in l and m. *)
AgreeBut(S, l, m) ==
    \A u \in Timers \ S : m.next[u] = l.next[u] /\ m.prev[u] = l.prev[u]

(* Seen from the head there always is a list.  While the timer core is up  *)
(* it has the enabled timers of this session, and those that are not       *)
(* enabled are linked to nothing; before and after it is empty.            *)
Linkage ==
    LET walk == Walk(head, next)
    IN  /\ Chain(walk, List)
        /\ inited => /\ ToSet(walk) = enabled \cap added
                     /\ \A t \in added \ enabled : Alone(List, t)
        /\ ~ inited => walk = <<>>

TypeOK ==
    /\ List \in Lists /\ key \in [Timers -> Keys]
    /\ enabled \subseteq Timers /\ added \subseteq Timers /\ inited \in BOOLEAN

Inv == TypeOK /\ Linkage

-----------------------------------------------------------------------------
(* Sequences, element by element. *)

LEMMA LeastNatural ==
  ASSUME NEW T \in SUBSET Nat, T # {}
  PROVE  \E x \in T : \A y \in T : x <= y
<1> DEFINE R == {ss \in Nat \X Nat : ss[1] < ss[2]}
<1>1. IsWellFoundedOn(R, Nat) BY NatLessThanWellFounded DEF OpToRel
<1> HIDE DEF R
<1>2. PICK x \in T : \A y \in T : ~ (<<y, x>> \in R) BY <1>1, WFMin, Zenon
<1>3. \A y \in T : x <= y
  <2> TAKE y \in T
  <2>1. ~ (<<y, x>> \in R) BY <1>2
  <2>2. ~ (y < x) BY <2>1 DEF R
  <2> QED BY <2>2
<1> QED BY <1>3

(* RemoveAt() moves the elements behind position k up, InsertAt() those    *)
(* from position k on down.                                                *)
LEMMA RemovedAt ==
  ASSUME NEW S, NEW q \in Seq(S), NEW k \in 1 .. Len(q)
  PROVE  /\ RemoveAt(q, k) \in Seq(S) /\ Len(RemoveAt(q, k)) = Len(q) - 1
         /\ \A j \in 1 .. Len(q) - 1 :
               RemoveAt(q, k)[j] = q[IF j < k THEN j ELSE j + 1]
<1> DEFINE a == SubSeq(q, 1, k - 1)
           b == SubSeq(q, k + 1, Len(q))
<1>1. a \in Seq(S) /\ Len(a) = k - 1 /\ \A j \in 1 .. k - 1 : a[j] = q[j] OBVIOUS
<1>2. /\ b \in Seq(S) /\ Len(b) = Len(q) - k
      /\ \A j \in 1 .. Len(q) - k : b[j] = q[k + j]
  OBVIOUS
<1>3. RemoveAt(q, k) = a \o b BY DEF RemoveAt
<1> HIDE DEF a, b
<1>4. /\ a \o b \in Seq(S) /\ Len(a \o b) = Len(q) - 1
      /\ \A j \in 1 .. Len(q) - 1 :
            (a \o b)[j] = IF j <= k - 1 THEN a[j] ELSE b[j - (k - 1)]
  BY <1>1, <1>2, ConcatProperties
<1>5. ASSUME NEW j \in 1 .. Len(q) - 1
      PROVE  (a \o b)[j] = q[IF j < k THEN j ELSE j + 1]
  <2>1. CASE j < k BY <2>1, <1>1, <1>4
  <2>2. CASE ~ (j < k)
    <3>1. j - (k - 1) \in 1 .. Len(q) - k /\ k + (j - (k - 1)) = j + 1 BY <2>2
    <3>2. (a \o b)[j] = b[j - (k - 1)] BY <1>4, <2>2
    <3> QED BY <3>1, <3>2, <2>2, <1>2
  <2> QED BY <2>1, <2>2
<1> QED BY <1>3, <1>4, <1>5

LEMMA InsertedAt ==
  ASSUME NEW S, NEW q \in Seq(S), NEW k \in 1 .. Len(q) + 1, NEW e \in S
  PROVE  /\ InsertAt(q, k, e) \in Seq(S) /\ Len(InsertAt(q, k, e)) = Len(q) + 1
         /\ \A j \in 1 .. Len(q) + 1 :
               InsertAt(q, k, e)[j] =
                  IF j = k THEN e ELSE q[IF j < k THEN j ELSE j - 1]
<1> DEFINE a == Append(SubSeq(q, 1, k - 1), e)
           b == SubSeq(q, k, Len(q))
<1>1. /\ a \in Seq(S) /\ Len(a) = k
      /\ \A j \in 1 .. k : a[j] = IF j = k THEN e ELSE q[j]
  OBVIOUS
<1>2. /\ b \in Seq(S) /\ Len(b) = Len(q) - k + 1
      /\ \A j \in 1 .. Len(q) - k + 1 : b[j] = q[k + j - 1]
  OBVIOUS
<1>3. InsertAt(q, k, e) = a \o b
  <2>1. SubSeq(q, 1, k - 1) \in Seq(S) OBVIOUS
  <2>2. SubSeq(q, 1, k - 1) \o <<e>> = a BY <2>1, AppendIsConcat
  <2> QED BY <2>2 DEF InsertAt
<1> HIDE DEF a, b
<1>4. /\ a \o b \in Seq(S) /\ Len(a \o b) = Len(q) + 1
      /\ \A j \in 1 .. Len(q) + 1 : (a \o b)[j] = IF j <= k THEN a[j] ELSE b[j - k]
  <2>1. /\ a \o b \in Seq(S) /\ Len(a \o b) = Len(a) + Len(b)
        /\ \A j \in 1 .. Len(a) + Len(b) :
              (a \o b)[j] = IF j <= Len(a) THEN a[j] ELSE b[j - Len(a)]
    BY <1>1, <1>2, ConcatProperties
  <2>2. Len(a) + Len(b) = Len(q) + 1 BY <1>1, <1>2
  <2> QED BY <1>1, <2>1, <2>2
<1>5. ASSUME NEW j \in 1 .. Len(q) + 1
      PROVE  (a \o b)[j] = IF j = k THEN e ELSE q[IF j < k THEN j ELSE j - 1]
  <2>1. CASE j <= k BY <2>1, <1>1, <1>4
  <2>2. CASE ~ (j <= k)
    <3>1. j - k \in 1 .. Len(q) - k + 1 /\ k + (j - k) - 1 = j - 1 BY <2>2
    <3>2. (a \o b)[j] = b[j - k] BY <1>4, <2>2
    <3> QED BY <3>1, <3>2, <2>2, <1>2
  <2> QED BY <2>1, <2>2
<1> QED BY <1>3, <1>4, <1>5

(* A sequence without repetitions is no longer than there are timers. *)
LEMMA NoLonger ==
  ASSUME NEW q \in Seq(Timers), NoRepeats(q)
  PROVE  Len(q) <= Cardinality(Timers) /\ Cardinality(Timers) \in Nat
<1>1. IsFiniteSet(Timers) /\ Cardinality(Timers) \in Nat
  BY LinksAssumption, FS_CardinalityType
<1>2. IsFiniteSet(1 .. Len(q)) /\ Cardinality(1 .. Len(q)) = Len(q)
  <2>1. 1 \in Int /\ Len(q) \in Int /\ Len(q) >= 0 OBVIOUS
  <2> QED BY <2>1, FS_Interval
<1>3. q \in [1 .. Len(q) -> Timers] OBVIOUS
<1>4. ~ (Cardinality(Timers) < Cardinality(1 .. Len(q)))
  BY <1>1, <1>2, <1>3, FS_PigeonHole DEF NoRepeats
<1> QED BY <1>1, <1>2, <1>4

-----------------------------------------------------------------------------
(* The walk from the head along a chain is that chain. *)
LEMMA WalkOfChain ==
  ASSUME NEW q, NEW l, Chain(q, l)
  PROVE  Walk(l.head, l.next) = q
<1> DEFINE last == Cardinality(Timers) + 1
           Follows(f) == f = [i \in 1 .. last |->
                                 IF i = 1 THEN l.head
                                 ELSE IF f[i - 1] = NULL THEN NULL ELSE l.next[f[i - 1]]]
           f == [i \in 1 .. last |-> IF i <= Len(q) THEN q[i] ELSE NULL]
<1>1. /\ q \in Seq(Timers) /\ NoRepeats(q) /\ Len(q) \in Nat
      /\ \A i \in 1 .. Len(q) : q[i] \in Timers /\ q[i] # NULL
  BY LinksAssumption DEF Chain
<1>2. Len(q) < last /\ last \in Nat BY <1>1, NoLonger
<1>3. PICK g : /\ Follows(g)
               /\ Walk(l.head, l.next) =
                     [i \in 1 .. Cardinality({j \in DOMAIN g : g[j] # NULL}) |-> g[i]]
  <2>1. Follows(f)
    <3> SUFFICES ASSUME NEW i \in 1 .. last
                 PROVE  f[i] = IF i = 1 THEN l.head
                               ELSE IF f[i - 1] = NULL THEN NULL ELSE l.next[f[i - 1]]
      OBVIOUS
    <3>1. CASE i = 1
      <4>1. l.head = IF q = <<>> THEN NULL ELSE q[1] BY DEF Chain
      <4>2. 1 <= Len(q) <=> q # <<>> BY <1>1
      <4> QED BY <3>1, <4>1, <4>2
    <3>2. CASE i # 1
      <4>1. i - 1 \in 1 .. last /\ f[i - 1] = IF i - 1 <= Len(q) THEN q[i - 1] ELSE NULL
        BY <1>2, <3>2
      <4>2. CASE i - 1 <= Len(q)
        <5>1. l.next[q[i - 1]] = IF i - 1 = Len(q) THEN NULL ELSE q[(i - 1) + 1]
          BY <3>2, <4>2 DEF Chain
        <5> QED BY <1>1, <1>2, <3>2, <4>1, <4>2, <5>1
      <4>3. CASE ~ (i - 1 <= Len(q)) BY <1>1, <1>2, <3>2, <4>1, <4>3
      <4> QED BY <4>2, <4>3
    <3> QED BY <3>1, <3>2
  <2> DEFINE g == CHOOSE g : Follows(g)
  <2>2. Follows(g) BY <2>1
  <2>3. Walk(l.head, l.next) =
           [i \in 1 .. Cardinality({j \in DOMAIN g : g[j] # NULL}) |-> g[i]]
    BY DEF Walk
  <2> QED BY <2>2, <2>3
<1>4. DOMAIN g = 1 .. last BY <1>3
<1>5. \A i \in 1 .. last : g[i] = f[i]
  <2> DEFINE Wrong == {i \in 1 .. last : g[i] # f[i]}
  <2>1. CASE Wrong # {}
    <3>1. Wrong \in SUBSET Nat OBVIOUS
    <3>2. PICK i \in Wrong : \A j \in Wrong : i <= j BY <2>1, <3>1, LeastNatural
    <3>3. g[i] = IF i = 1 THEN l.head
                 ELSE IF g[i - 1] = NULL THEN NULL ELSE l.next[g[i - 1]]
      BY <1>3
    <3>4. CASE i = 1
      <4>1. l.head = IF q = <<>> THEN NULL ELSE q[1] BY DEF Chain
      <4>2. 1 <= Len(q) <=> q # <<>> BY <1>1
      <4> QED BY <1>2, <3>2, <3>3, <3>4, <4>1, <4>2
    <3>5. CASE i # 1
      <4>1. i - 1 \in 1 .. last /\ g[i - 1] = f[i - 1] BY <1>2, <3>2, <3>5
      <4>2. CASE i - 1 <= Len(q)
        <5>1. l.next[q[i - 1]] = IF i - 1 = Len(q) THEN NULL ELSE q[(i - 1) + 1]
          BY <3>2, <3>5, <4>2 DEF Chain
        <5> QED BY <1>1, <1>2, <3>2, <3>3, <3>5, <4>1, <4>2, <5>1
      <4>3. CASE ~ (i - 1 <= Len(q)) BY <1>1, <1>2, <3>2, <3>3, <3>5, <4>1, <4>3
      <4> QED BY <4>2, <4>3
    <3> QED BY <3>4, <3>5
  <2> QED BY <2>1
<1>6. {j \in DOMAIN g : g[j] # NULL} = 1 .. Len(q)
  <2>1. \A j \in 1 .. last : g[j] # NULL <=> j <= Len(q) BY <1>1, <1>5
  <2> QED BY <1>1, <1>2, <1>4, <2>1
<1>7. Cardinality(1 .. Len(q)) = Len(q)
  <2>1. 1 \in Int /\ Len(q) \in Int /\ Len(q) >= 0 BY <1>1
  <2> QED BY <2>1, FS_Interval
<1>8. Walk(l.head, l.next) = [i \in 1 .. Len(q) |-> g[i]] BY <1>3, <1>6, <1>7
<1>9. [i \in 1 .. Len(q) |-> g[i]] = [i \in 1 .. Len(q) |-> q[i]]
  BY <1>1, <1>2, <1>5
<1>10. q = [i \in 1 .. Len(q) |-> q[i]] BY <1>1
<1> QED BY <1>8, <1>9, <1>10

-----------------------------------------------------------------------------
(* Unlinking and linking. *)

(* timer_disable() takes one timer out of the chain, touches no timer that *)
(* is not in it, and leaves the one it took out linked to nothing.         *)
LEMMA UnlinkedChain ==
  ASSUME NEW q, NEW l \in Lists, Chain(q, l), NEW k \in 1 .. Len(q)
  PROVE  /\ Unlinked(l, q[k]) \in Lists
         /\ Chain(RemoveAt(q, k), Unlinked(l, q[k]))
         /\ Alone(Unlinked(l, q[k]), q[k])
         /\ \A u \in Timers \ ToSet(q) :
               /\ Unlinked(l, q[k]).next[u] = l.next[u]
               /\ Unlinked(l, q[k]).prev[u] = l.prev[u]
<1> DEFINE n == Len(q)
           t == q[k]
           m == Unlinked(l, t)
           r == RemoveAt(q, k)
           at(j) == IF j < k THEN j ELSE j + 1
<1>1. /\ q \in Seq(Timers) /\ n \in Nat /\ DOMAIN q = 1 .. n
      /\ \A i \in 1 .. n : q[i] \in Timers /\ q[i] # NULL
      /\ \A i, j \in 1 .. n : i # j => q[i] # q[j]
  BY LinksAssumption DEF Chain, NoRepeats
<1>2. \A i \in 1 .. n : /\ l.next[q[i]] = (IF i = n THEN NULL ELSE q[i + 1])
                        /\ l.prev[q[i]] = (IF i = 1 THEN NULL ELSE q[i - 1])
  BY DEF Chain
<1>3. /\ r \in Seq(Timers) /\ Len(r) = n - 1
      /\ \A j \in 1 .. n - 1 : r[j] = q[at(j)]
  BY <1>1, RemovedAt
<1>4. /\ m.head = (IF l.prev[t] = NULL THEN l.next[t] ELSE l.head)
      /\ \A u \in Timers :
            /\ m.next[u] = IF u = t THEN NULL
                           ELSE IF u = l.prev[t] THEN l.next[t] ELSE l.next[u]
            /\ m.prev[u] = IF u = t THEN NULL
                           ELSE IF u = l.next[t] THEN l.prev[t] ELSE l.prev[u]
  BY DEF Unlinked
<1>5. t \in Timers /\ k \in 1 .. n /\ l.next[t] \in PointerOrNull
      /\ l.prev[t] \in PointerOrNull /\ l.head \in PointerOrNull
  BY <1>1 DEF Lists
<1>6. m \in Lists
  <2>1. \A u \in Timers : l.next[u] \in PointerOrNull /\ l.prev[u] \in PointerOrNull
    BY DEF Lists
  <2>2. NULL \in PointerOrNull BY DEF PointerOrNull
  <2> QED BY <1>5, <2>1, <2>2 DEF Lists, Unlinked
<1>7. Alone(m, t) BY <1>4, <1>5 DEF Alone
<1>8. \A u \in Timers \ ToSet(q) : m.next[u] = l.next[u] /\ m.prev[u] = l.prev[u]
  <2>1. \A i \in 1 .. n : q[i] \in ToSet(q) BY <1>1 DEF ToSet
  <2>2. l.next[t] \in ToSet(q) \cup {NULL} /\ l.prev[t] \in ToSet(q) \cup {NULL}
    <3>1. n \in Nat /\ k \in 1 .. n BY <1>1
    <3>2. k # n => k + 1 \in 1 .. n BY ONLY <3>1
    <3>3. k # 1 => k - 1 \in 1 .. n BY ONLY <3>1
    <3> QED BY <1>2, <1>5, <2>1, <3>2, <3>3
  <2>3. NULL \notin Timers /\ t \in ToSet(q) BY <2>1, LinksAssumption
  <2> QED BY <1>4, <2>2, <2>3
<1> HIDE DEF m, r, n, t
<1>9. Chain(r, m)
  <2>1. \A j \in 1 .. n - 1 : at(j) \in 1 .. n /\ at(j) # k BY <1>1, <1>5
  <2>2. NoRepeats(r)
    <3>1. DOMAIN r = 1 .. n - 1 BY <1>3
    <3>2. \A i, j \in 1 .. n - 1 : i # j => at(i) # at(j) BY <1>1, <1>5
    <3> QED BY <1>1, <1>3, <2>1, <3>1, <3>2 DEF NoRepeats
  <2>3. m.head = IF r = <<>> THEN NULL ELSE r[1]
    <3>1. r = <<>> <=> n = 1 BY <1>1, <1>3, <1>5
    <3>2. n # 1 => r[1] = q[at(1)] BY <1>1, <1>3, <1>5
    <3>3. q # <<>> BY <1>1, <1>5 DEF n
    <3>4. l.head = q[1] BY <3>3 DEF Chain
    <3>5. CASE k = 1 BY <1>2, <1>4, <1>5, <3>1, <3>2, <3>5 DEF t
    <3>6. CASE k # 1
      <4>1. l.prev[t] = q[k - 1] /\ k - 1 \in 1 .. n BY <1>1, <1>2, <1>5, <3>6 DEF t
      <4>2. l.prev[t] # NULL /\ at(1) = 1 /\ n # 1 BY <1>1, <1>5, <3>6, <4>1
      <4> QED BY <1>4, <3>1, <3>2, <3>4, <4>2
    <3> QED BY <3>5, <3>6
  <2>4. ASSUME NEW j \in 1 .. n - 1
        PROVE  m.next[r[j]] = IF j = n - 1 THEN NULL ELSE r[j + 1]
    <3>1. /\ r[j] = q[at(j)] /\ q[at(j)] \in Timers /\ q[at(j)] # t
          /\ l.next[q[at(j)]] = IF at(j) = n THEN NULL ELSE q[at(j) + 1]
      BY <1>1, <1>2, <1>3, <1>5, <2>1 DEF t
    <3>2. j # n - 1 => r[j + 1] = q[at(j + 1)] BY <1>1, <1>3
    <3>3. CASE j = k - 1
      <4>1. at(j) = k - 1 /\ q[at(j)] = l.prev[t] /\ at(j + 1) = k + 1
        BY <1>2, <1>5, <3>3 DEF t
      <4>2. m.next[r[j]] = l.next[t] BY <1>4, <3>1, <4>1
      <4>3. l.next[t] = IF k = n THEN NULL ELSE q[k + 1] BY <1>2, <1>5 DEF t
      <4>4. k = n <=> j = n - 1 BY <1>1, <1>5, <3>3
      <4> QED BY <3>2, <4>1, <4>2, <4>3, <4>4
    <3>4. CASE j # k - 1
      <4>1. q[at(j)] # l.prev[t]
        <5>1. l.prev[t] = IF k = 1 THEN NULL ELSE q[k - 1] BY <1>2, <1>5 DEF t
        <5>2. at(j) # k - 1 /\ at(j) \in 1 .. n BY <1>5, <2>1, <3>4
        <5>3. k # 1 => k - 1 \in 1 .. n BY <1>1, <1>5
        <5> QED BY <1>1, <5>1, <5>2, <5>3
      <4>2. m.next[r[j]] = l.next[q[at(j)]] BY <1>4, <3>1, <4>1
      <4>3. at(j) = n <=> j = n - 1 BY <1>1, <1>5, <3>4
      <4>4. j # n - 1 => at(j + 1) = at(j) + 1 BY <1>1, <1>5, <3>4
      <4> QED BY <3>1, <3>2, <4>2, <4>3, <4>4
    <3> QED BY <3>3, <3>4
  <2>5. ASSUME NEW j \in 1 .. n - 1
        PROVE  m.prev[r[j]] = IF j = 1 THEN NULL ELSE r[j - 1]
    <3>1. /\ r[j] = q[at(j)] /\ q[at(j)] \in Timers /\ q[at(j)] # t
          /\ l.prev[q[at(j)]] = IF at(j) = 1 THEN NULL ELSE q[at(j) - 1]
      BY <1>1, <1>2, <1>3, <1>5, <2>1 DEF t
    <3>2. j # 1 => r[j - 1] = q[at(j - 1)] BY <1>1, <1>3
    <3>3. CASE j = k
      <4>1. at(j) = k + 1 /\ k # n /\ q[at(j)] = l.next[t] /\ at(j - 1) = k - 1
        BY <1>1, <1>2, <1>5, <3>3 DEF t
      <4>2. m.prev[r[j]] = l.prev[t] BY <1>4, <3>1, <4>1
      <4>3. l.prev[t] = IF k = 1 THEN NULL ELSE q[k - 1] BY <1>2, <1>5 DEF t
      <4> QED BY <3>2, <3>3, <4>1, <4>2, <4>3
    <3>4. CASE j # k
      <4>1. q[at(j)] # l.next[t]
        <5>1. l.next[t] = IF k = n THEN NULL ELSE q[k + 1] BY <1>2, <1>5 DEF t
        <5>2. at(j) # k + 1 /\ at(j) \in 1 .. n BY <1>5, <2>1, <3>4
        <5>3. k # n => k + 1 \in 1 .. n BY <1>1, <1>5
        <5> QED BY <1>1, <5>1, <5>2, <5>3
      <4>2. m.prev[r[j]] = l.prev[q[at(j)]] BY <1>4, <3>1, <4>1
      <4>3. at(j) = 1 <=> j = 1 BY <1>1, <1>5, <3>4
      <4>4. j # 1 => at(j - 1) = at(j) - 1 BY <1>1, <1>5, <3>4
      <4> QED BY <3>1, <3>2, <4>2, <4>3, <4>4
    <3> QED BY <3>3, <3>4
  <2> QED BY <1>3, <2>2, <2>3, <2>4, <2>5 DEF Chain
<1> QED BY <1>6, <1>7, <1>8, <1>9 DEF m, r, t

(* Pointers that differ from those of a chain as they must, if t is put    *)
(* into it at position k.                                                  *)
LEMMA InsertedChain ==
  ASSUME NEW q, NEW l, Chain(q, l), NEW t \in Timers \ ToSet(q), NEW k \in 1 .. Len(q) + 1,
         NEW m,
         m.head = IF k = 1 THEN t ELSE l.head,
         m.next[t] = IF k <= Len(q) THEN q[k] ELSE NULL,
         m.prev[t] = IF k = 1 THEN NULL ELSE q[k - 1],
         \A j \in 1 .. Len(q) :
            /\ m.next[q[j]] = IF j = k - 1 THEN t ELSE l.next[q[j]]
            /\ m.prev[q[j]] = IF j = k THEN t ELSE l.prev[q[j]]
  PROVE  Chain(InsertAt(q, k, t), m)
<1> DEFINE n == Len(q)
           r == InsertAt(q, k, t)
           at(j) == IF j < k THEN j ELSE j - 1
<1>1. /\ q \in Seq(Timers) /\ n \in Nat /\ DOMAIN q = 1 .. n /\ k \in 1 .. n + 1
      /\ \A i \in 1 .. n : q[i] \in Timers /\ q[i] # NULL /\ q[i] # t
      /\ \A i, j \in 1 .. n : i # j => q[i] # q[j]
  BY LinksAssumption DEF Chain, NoRepeats, ToSet
<1>2. \A i \in 1 .. n : /\ l.next[q[i]] = (IF i = n THEN NULL ELSE q[i + 1])
                        /\ l.prev[q[i]] = (IF i = 1 THEN NULL ELSE q[i - 1])
  BY DEF Chain
<1>3. /\ r \in Seq(Timers) /\ Len(r) = n + 1
      /\ \A j \in 1 .. n + 1 : r[j] = IF j = k THEN t ELSE q[at(j)]
  <2>1. t \in Timers /\ k \in 1 .. Len(q) + 1 BY <1>1
  <2>2. r \in Seq(Timers) /\ Len(r) = n + 1 BY <1>1, <2>1, InsertedAt
  <2>3. \A j \in 1 .. n + 1 : r[j] = IF j = k THEN t ELSE q[IF j < k THEN j ELSE j - 1]
    BY <1>1, <2>1, InsertedAt
  <2> QED BY <2>2, <2>3
<1> HIDE DEF r, n
<1>4. \A j \in 1 .. n + 1 : j # k => at(j) \in 1 .. n BY <1>1
<1>5. /\ m.head = IF k = 1 THEN t ELSE l.head
      /\ m.next[t] = IF k <= n THEN q[k] ELSE NULL
      /\ m.prev[t] = IF k = 1 THEN NULL ELSE q[k - 1]
      /\ \A j \in 1 .. n : /\ m.next[q[j]] = IF j = k - 1 THEN t ELSE l.next[q[j]]
                           /\ m.prev[q[j]] = IF j = k THEN t ELSE l.prev[q[j]]
  BY DEF n
<1>6. NoRepeats(r)
  <2>1. DOMAIN r = 1 .. n + 1 BY <1>1, <1>3
  <2>2. \A i, j \in 1 .. n + 1 : i # j /\ i # k /\ j # k => at(i) # at(j) BY <1>1
  <2> QED BY <1>1, <1>3, <1>4, <2>1, <2>2 DEF NoRepeats
<1>7. r # <<>> /\ m.head = r[1]
  <2>1. r # <<>> /\ 1 \in 1 .. n + 1 BY <1>1, <1>3
  <2>2. CASE k = 1 BY <1>3, <1>5, <2>1, <2>2
  <2>3. CASE k # 1
    <3>1. at(1) = 1 /\ n >= 1 BY <1>1, <2>3
    <3>2. q # <<>> BY <3>1 DEF n
    <3>3. l.head = q[1] BY <3>2 DEF Chain
    <3> QED BY <1>3, <1>5, <2>1, <2>3, <3>1, <3>3
  <2> QED BY <2>2, <2>3
<1>8. ASSUME NEW j \in 1 .. n + 1
      PROVE  m.next[r[j]] = IF j = n + 1 THEN NULL ELSE r[j + 1]
  <2>1. j # n + 1 => r[j + 1] = IF j + 1 = k THEN t ELSE q[at(j + 1)] BY <1>1, <1>3
  <2>2. CASE j = k
    <3>1. at(j + 1) = k /\ j + 1 # k BY <1>1, <2>2
    <3> QED BY <1>1, <1>3, <1>5, <2>1, <2>2, <3>1
  <2>3. CASE j # k
    <3>1. /\ r[j] = q[at(j)] /\ at(j) \in 1 .. n
          /\ m.next[q[at(j)]] = IF at(j) = k - 1 THEN t ELSE l.next[q[at(j)]]
          /\ l.next[q[at(j)]] = IF at(j) = n THEN NULL ELSE q[at(j) + 1]
      BY <1>2, <1>3, <1>4, <1>5, <2>3
    <3>2. at(j) = k - 1 <=> j = k - 1 BY <1>1, <2>3
    <3>3. j # k - 1 => (at(j) = n <=> j = n + 1) BY <1>1, <2>3
    <3>4. j # k - 1 => at(j) + 1 = at(j + 1) BY <1>1, <2>3
    <3>5. j = k - 1 => j # n + 1 /\ j + 1 = k BY <1>1
    <3>6. j # k - 1 => j + 1 # k BY <1>1
    <3> QED BY <2>1, <3>1, <3>2, <3>3, <3>4, <3>5, <3>6
  <2> QED BY <2>2, <2>3
<1>9. ASSUME NEW j \in 1 .. n + 1
      PROVE  m.prev[r[j]] = IF j = 1 THEN NULL ELSE r[j - 1]
  <2>1. j # 1 => r[j - 1] = IF j - 1 = k THEN t ELSE q[at(j - 1)] BY <1>1, <1>3
  <2>2. CASE j = k
    <3>1. k # 1 => at(j - 1) = k - 1 /\ j - 1 # k BY <1>1, <2>2
    <3> QED BY <1>1, <1>3, <1>5, <2>1, <2>2, <3>1
  <2>3. CASE j # k
    <3>1. /\ r[j] = q[at(j)] /\ at(j) \in 1 .. n
          /\ m.prev[q[at(j)]] = IF at(j) = k THEN t ELSE l.prev[q[at(j)]]
          /\ l.prev[q[at(j)]] = IF at(j) = 1 THEN NULL ELSE q[at(j) - 1]
      BY <1>2, <1>3, <1>4, <1>5, <2>3
    <3>2. at(j) = k <=> j = k + 1 BY <1>1, <2>3
    <3>3. j # k + 1 => (at(j) = 1 <=> j = 1) BY <1>1, <2>3
    <3>4. j # k + 1 => at(j) - 1 = at(j - 1) BY <1>1, <2>3
    <3>5. j = k + 1 => j # 1 /\ j - 1 = k BY <1>1
    <3>6. j # k + 1 => j - 1 # k BY <1>1
    <3> QED BY <2>1, <3>1, <3>2, <3>3, <3>4, <3>5, <3>6
  <2> QED BY <2>2, <2>3
<1> QED BY <1>3, <1>6, <1>7, <1>8, <1>9 DEF Chain, r

(* timer_enable() puts a timer that is linked to nothing in front of the   *)
(* first timer with a deadline that is not earlier, or at the end.         *)
LEMMA LinkedChain ==
  ASSUME NEW q, NEW l \in Lists, Chain(q, l), NEW t \in Timers \ ToSet(q), Alone(l, t),
         NEW k \in Nat, key \in [Timers -> Nat]
  PROVE  /\ Linked(l, t, k) \in Lists
         /\ \E i \in 1 .. Len(q) + 1 :
               /\ \A j \in 1 .. i - 1 : key[q[j]] < k
               /\ i <= Len(q) => k <= key[q[i]]
               /\ Chain(InsertAt(q, i, t), Linked(l, t, k))
         /\ \A u \in Timers \ ToSet(q) : u # t =>
               /\ Linked(l, t, k).next[u] = l.next[u]
               /\ Linked(l, t, k).prev[u] = l.prev[u]
<1> DEFINE n == Len(q)
           node == FirstNotBefore(l, k)
           m == Linked(l, t, k)
           later == {i \in 1 .. n : k <= key[q[i]]}
<1>1. /\ q \in Seq(Timers) /\ n \in Nat /\ DOMAIN q = 1 .. n
      /\ \A i \in 1 .. n : q[i] \in Timers /\ q[i] # NULL /\ q[i] # t /\ q[i] \in ToSet(q)
      /\ \A i, j \in 1 .. n : i # j => q[i] # q[j]
  BY LinksAssumption DEF Chain, NoRepeats, ToSet
<1>2. \A i \in 1 .. n : /\ l.next[q[i]] = (IF i = n THEN NULL ELSE q[i + 1])
                        /\ l.prev[q[i]] = (IF i = 1 THEN NULL ELSE q[i - 1])
  BY DEF Chain
<1>3. Walk(l.head, l.next) = q BY WalkOfChain
<1>4. node = IF later = {} THEN NULL
             ELSE q[CHOOSE i \in later : \A j \in later : i <= j]
  BY <1>1, <1>3 DEF FirstNotBefore
<1>5. l.head \in PointerOrNull /\ l.next \in [Timers -> PointerOrNull]
      /\ l.prev \in [Timers -> PointerOrNull] /\ t \in Timers
      /\ l.next[t] = NULL /\ l.prev[t] = NULL /\ NULL \notin Timers
      /\ NULL \in PointerOrNull /\ Timers \subseteq PointerOrNull
  BY LinksAssumption DEF Lists, Alone, PointerOrNull
<1>6. PICK i \in 1 .. n + 1 :
         /\ \A j \in 1 .. i - 1 : key[q[j]] < k
         /\ i <= n => k <= key[q[i]]
         /\ node = IF i <= n THEN q[i] ELSE NULL
  <2>1. \A j \in 1 .. n : key[q[j]] \in Nat BY <1>1
  <2>2. CASE later = {}
    <3>1. \A j \in 1 .. n : key[q[j]] < k BY <2>1, <2>2
    <3>2. n + 1 \in 1 .. n + 1 /\ ~ (n + 1 <= n) /\ (n + 1) - 1 = n BY <1>1
    <3> QED BY <1>4, <2>2, <3>1, <3>2
  <2>3. CASE later # {}
    <3>1. later \in SUBSET Nat BY <1>1
    <3>2. \E i \in later : \A j \in later : i <= j BY <2>3, <3>1, LeastNatural
    <3> DEFINE i == CHOOSE i \in later : \A j \in later : i <= j
    <3>3. i \in later /\ \A j \in later : i <= j BY <3>2
    <3>4. node = q[i] BY <1>4, <2>3
    <3> HIDE DEF i
    <3>5. i \in 1 .. n + 1 /\ i <= n /\ k <= key[q[i]] BY <1>1, <3>3
    <3>6. ASSUME NEW j \in 1 .. i - 1 PROVE key[q[j]] < k
      <4>1. j \in 1 .. n /\ j \notin later BY <1>1, <3>3, <3>5
      <4> QED BY <2>1, <4>1
    <3> QED BY <3>4, <3>5, <3>6
  <2> QED BY <2>2, <2>3
<1>7. /\ m.head = IF i = 1 THEN t ELSE l.head
      /\ m.next = [u \in Timers |->
                     IF u = t THEN (IF i <= n THEN q[i] ELSE NULL)
                     ELSE IF i # 1 /\ u = q[i - 1] THEN t ELSE l.next[u]]
      /\ m.prev = [u \in Timers |->
                     IF u = t THEN (IF i = 1 THEN NULL ELSE q[i - 1])
                     ELSE IF i <= n /\ u = q[i] THEN t ELSE l.prev[u]]
  <2>1. CASE n = 0
    <3>1. q = <<>> /\ i = 1 /\ ~ (i <= n) BY <1>1, <2>1
    <3>2. l.head = NULL BY <3>1 DEF Chain
    <3>3. m = [head |-> t, next |-> [l.next EXCEPT ![t] = NULL],
                           prev |-> [l.prev EXCEPT ![t] = NULL]]
      BY <3>2 DEF Linked
    <3>4. /\ m.head = t /\ m.next = [l.next EXCEPT ![t] = NULL]
          /\ m.prev = [l.prev EXCEPT ![t] = NULL]
      BY <3>3
    <3> QED BY <1>5, <3>1, <3>4
  <2>2. CASE n # 0
    <3>1. l.head = q[1] /\ l.head # NULL
      <4>1. q # <<>> BY <1>1, <2>2
      <4>2. l.head = q[1] BY <4>1 DEF Chain
      <4>3. 1 \in 1 .. n BY <1>1, <2>2
      <4> QED BY <1>1, <4>2, <4>3
    <3>2. CASE i = 1
      <4>1. node = l.head /\ node = q[1] /\ q[1] # t /\ q[1] \in Timers /\ i <= n
        BY <1>1, <1>6, <2>2, <3>1, <3>2
      <4>2. m = [head |-> t, next |-> [l.next EXCEPT ![t] = q[1]],
                 prev |-> [l.prev EXCEPT ![t] = NULL, ![q[1]] = t]]
        BY <3>1, <4>1 DEF Linked
      <4>5. /\ m.head = t
            /\ m.next = [l.next EXCEPT ![t] = q[1]]
            /\ m.prev = [l.prev EXCEPT ![t] = NULL, ![q[1]] = t]
        BY <4>2
      <4>6. m.next = [u \in Timers |->
                        IF u = t THEN (IF i <= n THEN q[i] ELSE NULL)
                        ELSE IF i # 1 /\ u = q[i - 1] THEN t ELSE l.next[u]]
        BY <1>5, <3>2, <4>1, <4>5
      <4>7. m.prev = [u \in Timers |->
                        IF u = t THEN (IF i = 1 THEN NULL ELSE q[i - 1])
                        ELSE IF i <= n /\ u = q[i] THEN t ELSE l.prev[u]]
        BY <1>5, <3>2, <4>1, <4>5
      <4> QED BY <3>2, <4>5, <4>6, <4>7
    <3>3. CASE i # 1 /\ i <= n
      <4>1. /\ node = q[i] /\ node # l.head /\ node # NULL
            /\ l.prev[node] = q[i - 1] /\ i - 1 \in 1 .. n
        <5>1. /\ i \in 1 .. n /\ i - 1 \in 1 .. n /\ 1 \in 1 .. n
              /\ node = q[i] /\ l.head = q[1]
          BY <1>1, <1>6, <3>1, <3>3
        <5>2. q[i] # q[1] /\ q[i] # NULL BY <1>1, <3>3, <5>1
        <5>3. l.prev[q[i]] = q[i - 1] BY <1>2, <3>3, <5>1
        <5> QED BY <5>1, <5>2, <5>3
      <4>2. m = [head |-> l.head,
                 next |-> [l.next EXCEPT ![t] = q[i], ![q[i - 1]] = t],
                 prev |-> [l.prev EXCEPT ![t] = q[i - 1], ![q[i]] = t]]
        BY <3>1, <4>1 DEF Linked
      <4>3. q[i] \in Timers /\ q[i - 1] \in Timers /\ q[i] # t /\ q[i - 1] # t
        BY <1>1, <3>3, <4>1
      <4>5. /\ m.head = l.head
            /\ m.next = [l.next EXCEPT ![t] = q[i], ![q[i - 1]] = t]
            /\ m.prev = [l.prev EXCEPT ![t] = q[i - 1], ![q[i]] = t]
        BY <4>2
      <4>6. m.next = [u \in Timers |->
                        IF u = t THEN (IF i <= n THEN q[i] ELSE NULL)
                        ELSE IF i # 1 /\ u = q[i - 1] THEN t ELSE l.next[u]]
        BY <1>5, <3>3, <4>1, <4>3, <4>5
      <4>7. m.prev = [u \in Timers |->
                        IF u = t THEN (IF i = 1 THEN NULL ELSE q[i - 1])
                        ELSE IF i <= n /\ u = q[i] THEN t ELSE l.prev[u]]
        BY <1>5, <3>3, <4>1, <4>3, <4>5
      <4> QED BY <3>3, <4>5, <4>6, <4>7
    <3>4. CASE ~ (i <= n)
      <4>1. node = NULL /\ i = n + 1 /\ i # 1 /\ i - 1 = n /\ n \in 1 .. n
        BY <1>1, <1>6, <2>2, <3>4
      <4>2. Last(Walk(l.head, l.next)) = q[n] BY <1>3 DEF Last
      <4>3. m = [head |-> l.head, next |-> [l.next EXCEPT ![q[n]] = t],
                 prev |-> [l.prev EXCEPT ![t] = q[n]]]
        BY <3>1, <4>1, <4>2 DEF Linked
      <4>4. q[n] \in Timers /\ q[n] # t BY <1>1, <4>1
      <4>5. /\ m.head = l.head
            /\ m.next = [l.next EXCEPT ![q[n]] = t]
            /\ m.prev = [l.prev EXCEPT ![t] = q[n]]
        BY <4>3
      <4>6. m.next = [u \in Timers |->
                        IF u = t THEN (IF i <= n THEN q[i] ELSE NULL)
                        ELSE IF i # 1 /\ u = q[i - 1] THEN t ELSE l.next[u]]
        BY <1>5, <3>4, <4>1, <4>4, <4>5
      <4>7. m.prev = [u \in Timers |->
                        IF u = t THEN (IF i = 1 THEN NULL ELSE q[i - 1])
                        ELSE IF i <= n /\ u = q[i] THEN t ELSE l.prev[u]]
        BY <1>5, <3>4, <4>1, <4>4, <4>5
      <4> QED BY <4>1, <4>5, <4>6, <4>7
    <3> QED BY <3>2, <3>3, <3>4
  <2> QED BY <2>1, <2>2
<1>8. m = [head |-> m.head, next |-> m.next, prev |-> m.prev] BY DEF Linked
<1> HIDE DEF node, m, later
<1>9. m \in Lists
  <2>1. /\ i <= n => q[i] \in PointerOrNull
        /\ i # 1 => q[i - 1] \in PointerOrNull
        /\ t \in PointerOrNull
    BY <1>1, <1>5
  <2>2. m.head \in PointerOrNull BY <1>5, <1>7, <2>1
  <2>3. m.next \in [Timers -> PointerOrNull] BY <1>5, <1>7, <2>1
  <2>4. m.prev \in [Timers -> PointerOrNull] BY <1>5, <1>7, <2>1
  <2> QED BY <1>8, <2>2, <2>3, <2>4 DEF Lists
<1>10. Chain(InsertAt(q, i, t), m)
  <2>1. /\ m.head = (IF i = 1 THEN t ELSE l.head)
        /\ m.next[t] = (IF i <= n THEN q[i] ELSE NULL)
        /\ m.prev[t] = (IF i = 1 THEN NULL ELSE q[i - 1])
    BY <1>5, <1>7
  <2>2. \A j \in 1 .. n : /\ i # 1 => (q[j] = q[i - 1] <=> j = i - 1)
                          /\ i <= n => (q[j] = q[i] <=> j = i)
    <3>1. (i # 1 => i - 1 \in 1 .. n) /\ (i <= n => i \in 1 .. n) BY <1>1
    <3> QED BY <1>1, <3>1
  <2>3. \A j \in 1 .. n :
           /\ m.next[q[j]] = IF j = i - 1 THEN t ELSE l.next[q[j]]
           /\ m.prev[q[j]] = IF j = i THEN t ELSE l.prev[q[j]]
    BY <1>1, <1>7, <2>2
  <2> QED BY <2>1, <2>3, InsertedChain
<1>11. \A u \in Timers \ ToSet(q) : u # t =>
         m.next[u] = l.next[u] /\ m.prev[u] = l.prev[u]
  <2>1. (i # 1 => q[i - 1] \in ToSet(q)) /\ (i <= n => q[i] \in ToSet(q)) BY <1>1
  <2> QED BY <1>7, <2>1
<1> QED BY <1>6, <1>9, <1>10, <1>11 DEF m

-----------------------------------------------------------------------------
(* The steps, as steps of the chain. *)

LEMMA RemovedSet ==
  ASSUME NEW q \in Seq(Timers), NoRepeats(q), NEW k \in 1 .. Len(q)
  PROVE  ToSet(RemoveAt(q, k)) = ToSet(q) \ {q[k]}
<1> DEFINE r == RemoveAt(q, k)
           at(j) == IF j < k THEN j ELSE j + 1
<1>1. /\ DOMAIN q = 1 .. Len(q) /\ Len(q) \in Nat
      /\ \A i, j \in 1 .. Len(q) : i # j => q[i] # q[j]
  BY DEF NoRepeats
<1>2. /\ DOMAIN r = 1 .. Len(q) - 1
      /\ \A j \in 1 .. Len(q) - 1 : r[j] = q[at(j)]
  <2>1. r \in Seq(Timers) /\ Len(r) = Len(q) - 1 BY RemovedAt
  <2>2. \A j \in 1 .. Len(q) - 1 : r[j] = q[IF j < k THEN j ELSE j + 1] BY RemovedAt
  <2> QED BY <2>1, <2>2
<1> HIDE DEF r
<1>3. \A j \in 1 .. Len(q) - 1 : at(j) \in 1 .. Len(q) /\ at(j) # k BY <1>1
<1>4. \A i \in 1 .. Len(q) : i # k => \E j \in 1 .. Len(q) - 1 : at(j) = i
  <2> SUFFICES ASSUME NEW i \in 1 .. Len(q), i # k
               PROVE  \E j \in 1 .. Len(q) - 1 : at(j) = i
    OBVIOUS
  <2>1. CASE i < k
    <3>1. i \in 1 .. Len(q) - 1 /\ at(i) = i BY <1>1, <2>1
    <3> QED BY <3>1
  <2>2. CASE i > k
    <3>1. i - 1 \in 1 .. Len(q) - 1 /\ at(i - 1) = i BY <1>1, <2>2
    <3> QED BY <3>1
  <2> QED BY <2>1, <2>2
<1>5. ToSet(r) \subseteq ToSet(q) \ {q[k]} BY <1>1, <1>2, <1>3 DEF ToSet
<1>6. ASSUME NEW i \in 1 .. Len(q), q[i] # q[k] PROVE q[i] \in ToSet(r)
  <2>1. i # k BY <1>6
  <2>2. PICK j \in 1 .. Len(q) - 1 : at(j) = i BY <1>4, <2>1
  <2> QED BY <1>2, <2>2 DEF ToSet
<1>7. ToSet(q) \ {q[k]} \subseteq ToSet(r) BY <1>1, <1>6 DEF ToSet
<1> QED BY <1>5, <1>7 DEF r

LEMMA InsertedSet ==
  ASSUME NEW q \in Seq(Timers), NEW k \in 1 .. Len(q) + 1, NEW t \in Timers
  PROVE  ToSet(InsertAt(q, k, t)) = ToSet(q) \cup {t}
<1> DEFINE r == InsertAt(q, k, t)
           at(j) == IF j < k THEN j ELSE j - 1
<1>1. DOMAIN q = 1 .. Len(q) /\ Len(q) \in Nat OBVIOUS
<1>2. /\ DOMAIN r = 1 .. Len(q) + 1
      /\ \A j \in 1 .. Len(q) + 1 : r[j] = IF j = k THEN t ELSE q[at(j)]
  <2>1. r \in Seq(Timers) /\ Len(r) = Len(q) + 1 BY InsertedAt
  <2>2. \A j \in 1 .. Len(q) + 1 : r[j] = IF j = k THEN t ELSE q[IF j < k THEN j ELSE j - 1]
    BY InsertedAt
  <2> QED BY <2>1, <2>2
<1> HIDE DEF r
<1>3. \A j \in 1 .. Len(q) + 1 : j # k => at(j) \in 1 .. Len(q) BY <1>1
<1>4. \A i \in 1 .. Len(q) : \E j \in 1 .. Len(q) + 1 : j # k /\ at(j) = i
  <2> SUFFICES ASSUME NEW i \in 1 .. Len(q)
               PROVE  \E j \in 1 .. Len(q) + 1 : j # k /\ at(j) = i
    OBVIOUS
  <2>1. CASE i < k
    <3>1. i \in 1 .. Len(q) + 1 /\ i # k /\ at(i) = i BY <1>1, <2>1
    <3> QED BY <3>1
  <2>2. CASE ~ (i < k)
    <3>1. i + 1 \in 1 .. Len(q) + 1 /\ i + 1 # k /\ at(i + 1) = i BY <1>1, <2>2
    <3> QED BY <3>1
  <2> QED BY <2>1, <2>2
<1>5. ToSet(r) \subseteq ToSet(q) \cup {t} BY <1>1, <1>2, <1>3 DEF ToSet
<1>6. ASSUME NEW i \in 1 .. Len(q) PROVE q[i] \in ToSet(r)
  <2>1. PICK j \in 1 .. Len(q) + 1 : j # k /\ at(j) = i BY <1>4
  <2> QED BY <1>2, <2>1 DEF ToSet
<1>7. t \in ToSet(r) BY <1>2 DEF ToSet
<1>8. ToSet(q) \subseteq ToSet(r) BY <1>1, <1>6 DEF ToSet
<1> QED BY <1>5, <1>7, <1>8 DEF r

(* Taking out a timer, as TimerQueue says it. *)
LEMMA WithoutIs ==
  ASSUME NEW q \in Seq(Timers), NoRepeats(q), NEW k \in 1 .. Len(q)
  PROVE  Queue!Without(q, q[k]) = RemoveAt(q, k)
<1>1. DOMAIN q = 1 .. Len(q) OBVIOUS
<1>2. q[k] \in ToSet(q) BY <1>1 DEF ToSet
<1>3. (CHOOSE i \in DOMAIN q : q[i] = q[k]) = k
  <2>1. \A i \in DOMAIN q : q[i] = q[k] <=> i = k BY <1>1 DEF NoRepeats
  <2> QED BY <1>1, <2>1
<1> QED BY <1>2, <1>3 DEF Queue!Without, Queue!ToSet, Queue!RemoveAt, ToSet, RemoveAt

LEMMA WithoutOther ==
  ASSUME NEW q, NEW t, t \notin ToSet(q)
  PROVE  Queue!Without(q, t) = q
BY DEF Queue!Without, Queue!ToSet, ToSet

(* A timer of the list is unlinked. *)
LEMMA Taken ==
  ASSUME NEW q, NEW l \in Lists, Chain(q, l), NEW t \in ToSet(q)
  PROVE  /\ Unlinked(l, t) \in Lists /\ Alone(Unlinked(l, t), t)
         /\ Chain(Queue!Without(q, t), Unlinked(l, t))
         /\ ToSet(Queue!Without(q, t)) = ToSet(q) \ {t}
         /\ \A u \in Timers \ ToSet(q) :
               /\ Unlinked(l, t).next[u] = l.next[u]
               /\ Unlinked(l, t).prev[u] = l.prev[u]
<1>1. q \in Seq(Timers) /\ NoRepeats(q) BY DEF Chain
<1>2. PICK k \in 1 .. Len(q) : t = q[k] BY <1>1 DEF ToSet
<1>3. Queue!Without(q, q[k]) = RemoveAt(q, k) BY <1>1, WithoutIs
<1>4. ToSet(RemoveAt(q, k)) = ToSet(q) \ {q[k]} BY <1>1, RemovedSet
<1>5. /\ Unlinked(l, q[k]) \in Lists
      /\ Chain(RemoveAt(q, k), Unlinked(l, q[k]))
      /\ Alone(Unlinked(l, q[k]), q[k])
      /\ \A u \in Timers \ ToSet(q) :
            /\ Unlinked(l, q[k]).next[u] = l.next[u]
            /\ Unlinked(l, q[k]).prev[u] = l.prev[u]
  BY UnlinkedChain
<1> QED BY <1>2, <1>3, <1>4, <1>5

(* A timer that is linked to nothing is linked: an Insert of TimerQueue. *)
LEMMA Put ==
  ASSUME TypeOK, NEW q, NEW l \in Lists, Chain(q, l), NEW t \in Timers \ ToSet(q),
         Alone(l, t), NEW k \in Keys, q = Queue!Without(Walk(head, next), t),
         SetLinks(Linked(l, t, k)), key' = [key EXCEPT ![t] = k]
  PROVE  /\ List' \in Lists /\ Chain(Walk(head, next)', List')
         /\ ToSet(Walk(head, next)') = ToSet(q) \cup {t}
         /\ Queue!Insert(t, k) /\ AgreeBut(ToSet(q) \cup {t}, l, List')
<1> DEFINE m == Linked(l, t, k)
<1>1. q \in Seq(Timers) /\ key \in [Timers -> Nat] /\ k \in Nat
  BY LinksAssumption DEF Chain, TypeOK
<1>2. /\ m \in Lists
      /\ \E i \in 1 .. Len(q) + 1 :
            /\ \A j \in 1 .. i - 1 : key[q[j]] < k
            /\ i <= Len(q) => k <= key[q[i]]
            /\ Chain(InsertAt(q, i, t), m)
      /\ \A u \in Timers \ ToSet(q) : u # t =>
            m.next[u] = l.next[u] /\ m.prev[u] = l.prev[u]
  <2>1. m \in Lists BY <1>1, LinkedChain
  <2>2. \E i \in 1 .. Len(q) + 1 :
           /\ \A j \in 1 .. i - 1 : key[q[j]] < k
           /\ i <= Len(q) => k <= key[q[i]]
           /\ Chain(InsertAt(q, i, t), m)
    BY <1>1, LinkedChain
  <2>3. \A u \in Timers \ ToSet(q) : u # t =>
           m.next[u] = l.next[u] /\ m.prev[u] = l.prev[u]
    BY <1>1, LinkedChain
  <2> QED BY <2>1, <2>2, <2>3
<1>3. PICK i \in 1 .. Len(q) + 1 :
         /\ \A j \in 1 .. i - 1 : key[q[j]] < k
         /\ i <= Len(q) => k <= key[q[i]]
         /\ Chain(InsertAt(q, i, t), m)
  BY <1>2
<1>4. head' = m.head /\ next' = m.next /\ prev' = m.prev BY DEF SetLinks
<1> HIDE DEF m
<1>5. List' = m BY <1>2, <1>4 DEF List, Lists
<1>6. Walk(head, next)' = InsertAt(q, i, t)
  <2>1. Walk(m.head, m.next) = InsertAt(q, i, t) BY <1>3, WalkOfChain
  <2>2. Walk(head, next)' = Walk(m.head, m.next) BY <1>4
  <2> QED BY <2>1, <2>2
<1>7. ToSet(InsertAt(q, i, t)) = ToSet(q) \cup {t} BY <1>1, InsertedSet
<1>8. Queue!Insert(t, k)
  BY <1>3, <1>6 DEF Queue!Insert, Queue!InsertAt, InsertAt
<1>9. AgreeBut(ToSet(q) \cup {t}, l, List') BY <1>2, <1>5 DEF AgreeBut
<1> QED BY <1>2, <1>3, <1>5, <1>6, <1>7, <1>8, <1>9

(* What a step has to show. *)
LEMMA StepOfChain ==
  ASSUME NEW q, Chain(q, List')
  PROVE  Walk(head, next)' = q
<1>1. List'.head = head' /\ List'.next = next' BY DEF List
<1>2. Walk(List'.head, List'.next) = q BY WalkOfChain
<1> QED BY <1>1, <1>2

-----------------------------------------------------------------------------
(* The invariant, and the queue. *)

LEMMA LinksInit == Init => Inv /\ Queue!Init
<1> SUFFICES ASSUME Init PROVE Inv /\ Queue!Init OBVIOUS
<1>1. TypeOK BY LinksAssumption DEF Init, TypeOK, List, Lists, PointerOrNull
<1>2. Chain(<<>>, List) BY DEF Init, Chain, List, NoRepeats
<1>3. Walk(head, next) = <<>>
  <2>1. List.head = head /\ List.next = next BY DEF List
  <2>2. Walk(List.head, List.next) = <<>> BY <1>2, WalkOfChain
  <2> QED BY <2>1, <2>2
<1>4. Linkage BY <1>2, <1>3 DEF Linkage, Init
<1>5. Queue!Init BY <1>1, <1>3 DEF Queue!Init, TypeOK
<1> QED BY <1>1, <1>4, <1>5 DEF Inv

(* Where the list goes, and what must hold of it. *)
LEMMA LinkageKept ==
  ASSUME NEW q, Chain(q, List'),
         inited' => /\ ToSet(q) = enabled' \cap added'
                    /\ \A t \in added' \ enabled' : Alone(List', t),
         ~ inited' => q = <<>>
  PROVE  Linkage' /\ Walk(head, next)' = q
<1>1. Walk(head, next)' = q BY StepOfChain
<1> QED BY <1>1 DEF Linkage

LEMMA InitStep ==
  ASSUME Inv, timer_init
  PROVE  Inv' /\ UNCHANGED <<Walk(head, next), key>>
<1> DEFINE q == Walk(head, next)
<1>1. List' = List BY DEF timer_init, links, List
<1>2. TypeOK' BY <1>1 DEF Inv, TypeOK, timer_init
<1>3. Chain(q, List) /\ q = <<>> BY DEF Inv, Linkage, timer_init
<1>4. ToSet(q) = enabled' \cap added' BY <1>3 DEF ToSet, timer_init
<1>5. inited' = TRUE /\ added' = {} /\ key' = key BY DEF timer_init
<1> HIDE DEF q
<1>6. Linkage' /\ Walk(head, next)' = q BY <1>1, <1>3, <1>4, <1>5, LinkageKept
<1> QED BY <1>2, <1>5, <1>6 DEF Inv, q

LEMMA CloseStep ==
  ASSUME Inv, timer_close
  PROVE  Inv' /\ Queue!Clear
<1>1. /\ head' = NULL /\ inited' = FALSE /\ UNCHANGED <<enabled, key, added>>
      /\ next' = [t \in Timers |-> IF t = head THEN NULL ELSE next[t]]
      /\ prev' = [t \in Timers |-> IF t = head THEN NULL ELSE prev[t]]
  BY DEF timer_close
<1>2. TypeOK' BY <1>1 DEF Inv, TypeOK, List, Lists, PointerOrNull
<1>3. Chain(<<>>, List') BY <1>1 DEF Chain, List, NoRepeats
<1>4. Linkage' /\ Walk(head, next)' = <<>> BY <1>1, <1>3, LinkageKept
<1> QED BY <1>1, <1>2, <1>4 DEF Inv, Queue!Clear

(* A timer of the last session is not in the list of this one. *)
LEMMA AddStep ==
  ASSUME Inv, NEW t \in Timers, timer_add(t)
  PROVE  Inv' /\ Queue!Renew(t)
<1> DEFINE q == Walk(head, next)
<1>1. /\ head' = head /\ inited /\ inited' /\ t \notin added
      /\ next' = [next EXCEPT ![t] = NULL] /\ prev' = [prev EXCEPT ![t] = NULL]
      /\ enabled' = enabled \ {t} /\ added' = added \cup {t}
      /\ key' = [key EXCEPT ![t] = 0]
  BY DEF timer_add
<1>2. TypeOK' BY <1>1, LinksAssumption DEF Inv, TypeOK, List, Lists, PointerOrNull
<1>3. /\ Chain(q, List) /\ ToSet(q) = enabled \cap added
      /\ \A u \in added \ enabled : Alone(List, u)
  BY <1>1 DEF Inv, Linkage
<1> HIDE DEF q
<1>4. t \notin ToSet(q) BY <1>1, <1>3
<1>5. /\ List'.head = List.head
      /\ \A u \in Timers : u # t => /\ List'.next[u] = List.next[u]
                                    /\ List'.prev[u] = List.prev[u]
      /\ Alone(List', t)
  BY <1>1 DEF Inv, TypeOK, List, Lists, Alone
<1>6. Chain(q, List')
  <2>1. \A i \in 1 .. Len(q) : q[i] \in Timers /\ q[i] # t
    BY <1>3, <1>4 DEF Chain, ToSet
  <2> QED BY <1>3, <1>5, <2>1 DEF Chain
<1>7. ToSet(q) = enabled' \cap added' BY <1>1, <1>3
<1>8. ASSUME NEW u \in added' \ enabled' PROVE Alone(List', u)
  <2>1. CASE u = t BY <1>5, <2>1
  <2>2. CASE u # t
    <3>1. u \in added \ enabled /\ u \in Timers BY <1>1, <2>2 DEF Inv, TypeOK
    <3> QED BY <1>3, <1>5, <2>2, <3>1 DEF Alone
  <2> QED BY <2>1, <2>2
<1>9. Linkage' /\ Walk(head, next)' = q BY <1>1, <1>6, <1>7, <1>8, LinkageKept
<1>10. Queue!Renew(t)
  <2>1. t \notin Queue!ToSet(Walk(head, next)) BY <1>4 DEF q, Queue!ToSet, ToSet
  <2> QED BY <1>1, <1>9, <2>1, LinksAssumption DEF Queue!Renew, q
<1> QED BY <1>2, <1>9, <1>10 DEF Inv

LEMMA DisableStep ==
  ASSUME Inv, NEW t \in Timers, timer_disable(t)
  PROVE  Inv' /\ Queue!Delete(t)
<1> DEFINE q == Walk(head, next)
           r == Queue!Without(q, t)
<1>1. /\ inited /\ inited' /\ t \in added \cap enabled
      /\ SetLinks(Unlinked(List, t))
      /\ enabled' = enabled \ {t} /\ added' = added /\ key' = key
  BY DEF timer_disable
<1>2. /\ Chain(q, List) /\ ToSet(q) = enabled \cap added /\ List \in Lists
      /\ \A u \in added \ enabled : Alone(List, u) /\ u \in Timers
  BY <1>1 DEF Inv, Linkage, TypeOK
<1> HIDE DEF q
<1>3. t \in ToSet(q) BY <1>1, <1>2
<1>4. /\ Unlinked(List, t) \in Lists /\ Alone(Unlinked(List, t), t)
      /\ Chain(r, Unlinked(List, t)) /\ ToSet(r) = ToSet(q) \ {t}
      /\ \A u \in Timers \ ToSet(q) :
            /\ Unlinked(List, t).next[u] = List.next[u]
            /\ Unlinked(List, t).prev[u] = List.prev[u]
  BY <1>2, <1>3, Taken
<1>5. List' = Unlinked(List, t) BY <1>1, <1>4 DEF SetLinks, List, Lists
<1> HIDE DEF r
<1>6. TypeOK' BY <1>1, <1>4, <1>5 DEF Inv, TypeOK
<1>7. ToSet(r) = enabled' \cap added' BY <1>1, <1>2, <1>4
<1>8. ASSUME NEW u \in added' \ enabled' PROVE Alone(List', u)
  <2>1. CASE u = t BY <1>4, <1>5, <2>1
  <2>2. CASE u # t
    <3>1. u \in added \ enabled /\ u \in Timers \ ToSet(q) BY <1>1, <1>2, <2>2
    <3> QED BY <1>2, <1>4, <1>5, <3>1 DEF Alone
  <2> QED BY <2>1, <2>2
<1>9. Linkage' /\ Walk(head, next)' = r BY <1>1, <1>4, <1>5, <1>7, <1>8, LinkageKept
<1> QED BY <1>1, <1>6, <1>9 DEF Inv, Queue!Delete, q, r

(* timer_process() takes out the first timer as timer_disable() would. *)
LEMMA ProcessStep ==
  ASSUME Inv, timer_process
  PROVE  Inv' /\ Queue!Expire
<1> DEFINE q == Walk(head, next)
           t == head
<1>1. /\ inited /\ inited' /\ head # NULL
      /\ head' = next[head] /\ next' = [next EXCEPT ![head] = NULL]
      /\ prev' = [u \in Timers |-> IF u \in {next[head], head} THEN NULL ELSE prev[u]]
      /\ enabled' = enabled \ {head} /\ added' = added /\ key' = key
  BY DEF timer_process
<1>2. /\ Chain(q, List) /\ ToSet(q) = enabled \cap added /\ List \in Lists
      /\ \A u \in added \ enabled : Alone(List, u) /\ u \in Timers
  BY <1>1 DEF Inv, Linkage, TypeOK
<1> HIDE DEF q
<1>3. /\ q \in Seq(Timers) /\ NoRepeats(q) /\ q # <<>> /\ head = q[1]
      /\ 1 \in 1 .. Len(q) /\ head \in Timers /\ prev[head] = NULL
  <2>1. q \in Seq(Timers) /\ NoRepeats(q) /\ head = IF q = <<>> THEN NULL ELSE q[1]
    BY <1>2 DEF Chain, List
  <2>2. q # <<>> /\ head = q[1] BY <1>1, <2>1
  <2>3. 1 \in 1 .. Len(q) BY <2>1, <2>2
  <2>4. prev[q[1]] = NULL BY <1>2, <2>3 DEF Chain, List
  <2> QED BY <2>1, <2>2, <2>3, <2>4
<1>4. /\ Unlinked(List, q[1]) \in Lists /\ Alone(Unlinked(List, q[1]), q[1])
      /\ Chain(RemoveAt(q, 1), Unlinked(List, q[1]))
      /\ \A u \in Timers \ ToSet(q) :
            /\ Unlinked(List, q[1]).next[u] = List.next[u]
            /\ Unlinked(List, q[1]).prev[u] = List.prev[u]
  BY <1>2, <1>3, UnlinkedChain
<1>5. ToSet(RemoveAt(q, 1)) = ToSet(q) \ {q[1]} BY <1>3, RemovedSet
<1>6. List' = Unlinked(List, q[1])
  <2>1. /\ next \in [Timers -> PointerOrNull] /\ prev \in [Timers -> PointerOrNull]
        /\ NULL \notin Timers
    BY <1>2, LinksAssumption DEF List, Lists
  <2>2. next' = [u \in Timers |-> IF u = head THEN NULL
                                  ELSE IF u = prev[head] THEN next[head] ELSE next[u]]
    BY <1>1, <1>3, <2>1
  <2>3. prev' = [u \in Timers |-> IF u = head THEN NULL
                                  ELSE IF u = next[head] THEN prev[head] ELSE prev[u]]
    BY <1>1, <1>3, <2>1
  <2>4. head' = IF prev[head] = NULL THEN next[head] ELSE head BY <1>1, <1>3
  <2>5. Unlinked(List, head) = List' BY <2>2, <2>3, <2>4 DEF Unlinked, List
  <2> QED BY <1>3, <2>5
<1>7. TypeOK' BY <1>1, <1>4, <1>6 DEF Inv, TypeOK
<1>8. ToSet(RemoveAt(q, 1)) = enabled' \cap added' BY <1>1, <1>2, <1>3, <1>5
<1>9. ASSUME NEW u \in added' \ enabled' PROVE Alone(List', u)
  <2>1. CASE u = head BY <1>3, <1>4, <1>6, <2>1
  <2>2. CASE u # head
    <3>1. u \in added \ enabled /\ u \in Timers \ ToSet(q) BY <1>1, <1>2, <2>2
    <3> QED BY <1>2, <1>4, <1>6, <3>1 DEF Alone
  <2> QED BY <2>1, <2>2
<1>10. Linkage' /\ Walk(head, next)' = RemoveAt(q, 1)
  BY <1>1, <1>4, <1>6, <1>8, <1>9, LinkageKept
<1>11. RemoveAt(q, 1) = Tail(q)
  <2>1. /\ RemoveAt(q, 1) \in Seq(Timers) /\ Len(RemoveAt(q, 1)) = Len(q) - 1
        /\ \A j \in 1 .. Len(q) - 1 : RemoveAt(q, 1)[j] = q[IF j < 1 THEN j ELSE j + 1]
    BY <1>3, RemovedAt
  <2>2. /\ Tail(q) \in Seq(Timers) /\ Len(Tail(q)) = Len(q) - 1
        /\ \A j \in 1 .. Len(q) - 1 : Tail(q)[j] = q[j + 1]
    BY <1>3, HeadTailProperties
  <2> HIDE DEF q
  <2> QED BY <2>1, <2>2, SeqEqual
<1> QED BY <1>1, <1>3, <1>7, <1>10, <1>11 DEF Inv, Queue!Expire, q

(* A timer that is set up is linked to nothing, whatever the last session  *)
(* left in it, and is put into the list.                                   *)
LEMMA AddStartedStep ==
  ASSUME Inv, NEW t \in Timers, NEW k \in Keys, TimerAddStarted(t, k)
  PROVE  Inv' /\ Queue!Insert(t, k)
<1> DEFINE q == Walk(head, next)
           l == [List EXCEPT !.next[t] = NULL, !.prev[t] = NULL]
<1>1. /\ inited /\ inited' /\ t \notin added
      /\ SetLinks(Linked(l, t, k))
      /\ enabled' = enabled \cup {t} /\ added' = added \cup {t}
      /\ key' = [key EXCEPT ![t] = k]
  BY DEF TimerAddStarted
<1>2. /\ Chain(q, List) /\ ToSet(q) = enabled \cap added /\ List \in Lists
      /\ \A u \in added \ enabled : Alone(List, u) /\ u \in Timers
  BY <1>1 DEF Inv, Linkage, TypeOK
<1>3. t \notin ToSet(q) BY <1>1, <1>2
<1>4. q = Queue!Without(q, t) BY <1>3, WithoutOther
<1>5. /\ l \in Lists /\ Alone(l, t) /\ l.head = List.head
      /\ \A u \in Timers : u # t => /\ l.next[u] = List.next[u]
                                    /\ l.prev[u] = List.prev[u]
  <2>1. NULL \in PointerOrNull BY DEF PointerOrNull
  <2> QED BY <1>2, <2>1 DEF Lists, Alone
<1> HIDE DEF l
<1>6. Chain(q, l)
  <2>1. \A i \in 1 .. Len(q) : q[i] \in Timers /\ q[i] # t
    BY <1>2, <1>3 DEF Chain, ToSet
  <2> QED BY <1>2, <1>5, <2>1 DEF Chain
<1>7. TypeOK BY DEF Inv
<1>8. /\ List' \in Lists /\ Chain(Walk(head, next)', List')
      /\ ToSet(Walk(head, next)') = ToSet(q) \cup {t}
      /\ Queue!Insert(t, k) /\ AgreeBut(ToSet(q) \cup {t}, l, List')
  <2>1. q = Queue!Without(Walk(head, next), t) /\ t \in Timers \ ToSet(q)
    BY <1>3, <1>4
  <2> HIDE DEF q
  <2> QED BY <1>1, <1>5, <1>6, <1>7, <2>1, Put
<1>9. TypeOK' BY <1>1, <1>7, <1>8 DEF TypeOK
<1>10. ASSUME NEW u \in added' \ enabled' PROVE Alone(List', u)
  <2>1. u \in added \ enabled /\ u \in Timers /\ u # t /\ u \notin ToSet(q)
    BY <1>1, <1>2
  <2>2. Alone(List, u) BY <1>2, <2>1
  <2>3. List'.next[u] = l.next[u] /\ List'.prev[u] = l.prev[u]
    BY <1>8, <2>1 DEF AgreeBut
  <2> QED BY <1>5, <2>1, <2>2, <2>3 DEF Alone
<1>11. Linkage' BY <1>1, <1>2, <1>8, <1>10 DEF Linkage
<1> QED BY <1>8, <1>9, <1>11 DEF Inv

LEMMA EnableStep ==
  ASSUME Inv, NEW t \in Timers, NEW k \in Keys, timer_enable(t, k)
  PROVE  Inv' /\ Queue!Insert(t, k)
<1> DEFINE q == Walk(head, next)
           r == Queue!Without(q, t)
           l == IF t \in enabled THEN Unlinked(List, t) ELSE List
<1>1. /\ inited /\ inited' /\ t \in added
      /\ SetLinks(Linked(l, t, k))
      /\ enabled' = enabled \cup {t} /\ added' = added
      /\ key' = [key EXCEPT ![t] = k]
  BY DEF timer_enable
<1>2. /\ Chain(q, List) /\ ToSet(q) = enabled \cap added /\ List \in Lists
      /\ \A u \in added \ enabled : Alone(List, u) /\ u \in Timers
  BY <1>1 DEF Inv, Linkage, TypeOK
<1> HIDE DEF q
<1>3. /\ l \in Lists /\ Alone(l, t) /\ Chain(r, l) /\ ToSet(r) = ToSet(q) \ {t}
      /\ \A u \in Timers \ ToSet(q) : /\ l.next[u] = List.next[u]
                                      /\ l.prev[u] = List.prev[u]
  <2>1. CASE t \in enabled
    <3>1. t \in ToSet(q) /\ l = Unlinked(List, t) BY <1>1, <1>2, <2>1
    <3> QED BY <1>2, <3>1, Taken
  <2>2. CASE t \notin enabled
    <3>1. t \notin ToSet(q) /\ l = List BY <1>2, <2>2
    <3>2. r = q BY <3>1, WithoutOther
    <3> QED BY <1>1, <1>2, <2>2, <3>1, <3>2
  <2> QED BY <2>1, <2>2
<1>4. r = Queue!Without(Walk(head, next), t) /\ t \in Timers \ ToSet(r)
  BY <1>3 DEF q
<1>5. TypeOK BY DEF Inv
<1> HIDE DEF l, r
<1>6. /\ List' \in Lists /\ Chain(Walk(head, next)', List')
      /\ ToSet(Walk(head, next)') = ToSet(r) \cup {t}
      /\ Queue!Insert(t, k) /\ AgreeBut(ToSet(r) \cup {t}, l, List')
  BY <1>1, <1>3, <1>4, <1>5, Put
<1>7. TypeOK' BY <1>1, <1>5, <1>6 DEF TypeOK
<1>8. ASSUME NEW u \in added' \ enabled' PROVE Alone(List', u)
  <2>1. u \in added \ enabled /\ u \in Timers /\ u # t /\ u \notin ToSet(q)
    BY <1>1, <1>2
  <2>2. u \notin ToSet(r) BY <1>3, <2>1
  <2>3. List'.next[u] = l.next[u] /\ List'.prev[u] = l.prev[u]
    BY <1>6, <2>1, <2>2 DEF AgreeBut
  <2> QED BY <1>2, <1>3, <2>1, <2>3 DEF Alone
<1>9. Linkage' BY <1>1, <1>2, <1>3, <1>6, <1>8 DEF Linkage
<1> QED BY <1>6, <1>7, <1>9 DEF Inv

LEMMA LinksStep ==
  ASSUME Inv, [Next]_vars
  PROVE  Inv' /\ [Queue!Next]_<<Walk(head, next), key>>
<1>1. CASE timer_init BY <1>1, InitStep
<1>2. CASE timer_process BY <1>2, ProcessStep DEF Queue!Next
<1>3. CASE timer_close BY <1>3, CloseStep DEF Queue!Next
<1>4. ASSUME NEW t \in Timers, timer_add(t)
      PROVE  Inv' /\ [Queue!Next]_<<Walk(head, next), key>>
  BY <1>4, AddStep DEF Queue!Next
<1>5. ASSUME NEW t \in Timers, timer_disable(t)
      PROVE  Inv' /\ [Queue!Next]_<<Walk(head, next), key>>
  BY <1>5, DisableStep DEF Queue!Next
<1>6. ASSUME NEW t \in Timers, NEW k \in Keys, TimerAddStarted(t, k)
      PROVE  Inv' /\ [Queue!Next]_<<Walk(head, next), key>>
  BY <1>6, AddStartedStep DEF Queue!Next
<1>7. ASSUME NEW t \in Timers, NEW k \in Keys, timer_enable(t, k)
      PROVE  Inv' /\ [Queue!Next]_<<Walk(head, next), key>>
  BY <1>7, EnableStep DEF Queue!Next
<1>8. CASE UNCHANGED vars
  <2>1. UNCHANGED <<Walk(head, next), key>> BY <1>8 DEF vars
  <2>2. Inv' BY <1>8 DEF vars, Inv, TypeOK, Linkage, List
  <2> QED BY <2>1, <2>2
<1> QED BY <1>1, <1>2, <1>3, <1>4, <1>5, <1>6, <1>7, <1>8 DEF Next

-----------------------------------------------------------------------------
(* The list is sound in every reachable state: the pointers form one chain *)
(* from the head, also when a hard reset has left links behind.            *)
THEOREM LinksInvariant == Spec => []Inv
<1>1. Init => Inv BY LinksInit
<1>2. Inv /\ [Next]_vars => Inv' BY LinksStep
<1> QED BY <1>1, <1>2, PTL DEF Spec

(* The walk from the head ends, prev links run back along it, it has the   *)
(* enabled timers of this session and no others, and neither fatal() of    *)
(* timer_enable() and timer_disable() is reached.                          *)
THEOREM LinksWellLinked == Spec => []WellLinked
<1>1. Inv => WellLinked
  <2> SUFFICES ASSUME Inv, inited PROVE WellLinked BY DEF WellLinked
  <2> DEFINE q == Walk(head, next)
  <2>1. /\ Chain(q, List) /\ ToSet(q) = enabled \cap added
        /\ \A t \in added \ enabled : Alone(List, t)
    BY DEF Inv, Linkage
  <2> HIDE DEF q
  <2>2. q \in Seq(Timers) /\ NoRepeats(q) /\ DOMAIN q = 1 .. Len(q) BY <2>1 DEF Chain
  <2>3. Len(q) <= Cardinality(Timers) BY <2>2, NoLonger
  <2>4. \A i \in DOMAIN q : prev[q[i]] = IF i = 1 THEN NULL ELSE q[i - 1]
    BY <2>1, <2>2 DEF Chain, List
  <2>5. ASSUME NEW t \in added PROVE ~ Fatal(t)
    <3>1. CASE t \notin enabled
      <4>1. next[t] = NULL /\ prev[t] = NULL BY <2>1, <3>1 DEF Alone, List
      <4> QED BY <3>1, <4>1 DEF Fatal, IsolatedButEnabled, LinkedButDisabled
    <3>2. CASE t \in enabled
      <4>1. PICK i \in 1 .. Len(q) : q[i] = t BY <2>1, <2>2, <3>2 DEF ToSet
      <4>2. CASE i = 1
        <5>1. q # <<>> BY <2>2, <4>1
        <5>2. head = t BY <2>1, <4>1, <4>2, <5>1 DEF Chain, List
        <5> QED BY <3>2, <5>2 DEF Fatal, IsolatedButEnabled, LinkedButDisabled
      <4>3. CASE i # 1
        <5>1. i - 1 \in 1 .. Len(q) BY <2>2, <4>1, <4>3
        <5>2. q[i - 1] # NULL BY <2>2, <5>1, LinksAssumption
        <5>3. prev[t] # NULL BY <2>2, <2>4, <4>1, <4>3, <5>2
        <5> QED BY <3>2, <5>3 DEF Fatal, IsolatedButEnabled, LinkedButDisabled
      <4> QED BY <4>2, <4>3
    <3> QED BY <3>1, <3>2
  <2> QED BY <2>1, <2>3, <2>4, <2>5 DEF WellLinked, q
<1> QED BY <1>1, LinksInvariant, PTL

(* The pointers implement the queue of timers in the order of deadlines:   *)
(* each function of timer.c is one operation on the queue.                 *)
THEOREM LinksImplementQueue == Spec => ImplementsQueue
<1>1. Init => Queue!Init BY LinksInit
<1>2. Inv /\ [Next]_vars => [Queue!Next]_<<Walk(head, next), key>> BY LinksStep
<1> QED BY <1>1, <1>2, LinksInvariant, PTL DEF Spec, ImplementsQueue, Queue!Spec
=============================================================================
