-------------------------- MODULE VoodooRenderProofs --------------------------
(***************************************************************************)
(* Theorems about VoodooRender, for a ring and a cache of any size and any *)
(* number of triangles: it implements VoodooTriangles with one, two or     *)
(* four threads, keeps textures with one or two, and loses no wake-up.     *)
(***************************************************************************)
EXTENDS VoodooRender, FiniteSetTheorems, SequenceTheorems, TLAPS

(* No thread is ahead of the ring, and one that draws is behind it. *)
Behind ==
    \A r \in Thread :
        /\ params_read_idx[r] <= params_write_idx
        /\ pc[r] \in {"draw", "drawn"} => params_read_idx[r] < params_write_idx

(* The room that voodoo_queue_triangle() found is still there when the     *)
(* triangle is stored, though it may have waited for a texture in between. *)
RoomStays ==
    /\ after \in {"ready", "texture", "write"}
    /\ after = "texture" => client = "idle"
    /\ client \in {"texture", "store"} \/ after = "texture"
        => \A r \in Thread : ~ PARAM_FULL(r)

Inv ==
    /\ params_write_idx \in Nat /\ params_read_idx \in [Thread -> Nat]
    /\ pc \in [Thread -> {"top", "sleep", "test", "draw", "drawn", "room", "ended"}]
    /\ Behind /\ RoomStays

-----------------------------------------------------------------------------
(* One of the threads is the last. *)
LEMMA Last ==
  ASSUME NEW f \in [Thread -> Int]
  PROVE  \E r \in Thread : \A q \in Thread : f[r] >= f[q]
<1>1. CASE render_threads = 1
  BY <1>1 DEF Thread
<1>2. CASE render_threads = 2
  <2>1. Thread = {0, 1} BY <1>2 DEF Thread
  <2> QED BY <2>1
<1>3. CASE render_threads = 4
  <2>1. Thread = {0, 1, 2, 3} BY <1>3 DEF Thread
  <2>2. PICK a \in {0, 1} : f[a] >= f[0] /\ f[a] >= f[1] BY <2>1
  <2>3. PICK b \in {2, 3} : f[b] >= f[2] /\ f[b] >= f[3] BY <2>1
  <2>4. PICK c \in {a, b} : f[c] >= f[a] /\ f[c] >= f[b] BY <2>1
  <2> QED BY <2>1, <2>2, <2>3, <2>4
<1> QED BY <1>1, <1>2, <1>3, RenderAssumption

(* So the most that any thread has left is what that thread has left. *)
LEMMA MaxIsLast ==
  ASSUME NEW w \in Nat, NEW rd \in [Thread -> Nat]
  PROVE  \E r \in Thread :
            /\ Max({w - rd[q] : q \in Thread}) = w - rd[r]
            /\ \A q \in Thread : w - rd[r] >= w - rd[q]
<1> DEFINE f == [r \in Thread |-> w - rd[r]]
           S == {w - rd[q] : q \in Thread}
<1>1. f \in [Thread -> Int]
  OBVIOUS
<1>2. PICK r \in Thread : \A q \in Thread : f[r] >= f[q]
  BY <1>1, Last
<1>3. \A q \in Thread : w - rd[r] >= w - rd[q]
  BY <1>2
<1>4. \E x \in S : \A y \in S : x >= y
  BY <1>3
<1>5. Max(S) \in S /\ \A y \in S : Max(S) >= y
  BY <1>4 DEF Max
<1> QED BY <1>5

LEMMA LeftIsLast ==
  ASSUME params_write_idx \in Nat, params_read_idx \in [Thread -> Nat]
  PROVE  \E r \in Thread : Left = PARAM_ENTRIES(r)
                           /\ \A q \in Thread : Left >= PARAM_ENTRIES(q)
BY MaxIsLast DEF Left, PARAM_ENTRIES

LEMMA LeftIsLastNext ==
  ASSUME params_write_idx' \in Nat, params_read_idx' \in [Thread -> Nat]
  PROVE  \E r \in Thread : Left' = PARAM_ENTRIES(r)'
                           /\ \A q \in Thread : Left' >= PARAM_ENTRIES(q)'
BY MaxIsLast DEF Left, PARAM_ENTRIES

-----------------------------------------------------------------------------
LEMMA InitInv == Init => Inv
<1> SUFFICES ASSUME Init PROVE Inv OBVIOUS
<1>1. /\ params_write_idx = 0 /\ params_read_idx = [r \in Thread |-> 0]
      /\ pc = [r \in Thread |-> "top"] /\ client = "ready" /\ after = "ready"
  BY DEF Init
<1> QED BY <1>1 DEF Inv, Behind, RoomStays

(* The FIFO thread alone moves params_write_idx. *)
LEMMA ClientStep ==
  ASSUME Inv, ClientGoesOn \/ NeedIdle \/ Close \/ Gone
              \/ \E t \in Textures : Triangle(t) \/ WriteTexture(t)
  PROVE  Inv' /\ (Store \/ UNCHANGED <<params_write_idx, params_read_idx>>)
<1> USE DEF their, ring, mine
<1>1. CASE Store
  <2>1. /\ params_write_idx' = params_write_idx + 1 /\ client' = "wake" /\ after' = after
        /\ UNCHANGED <<params_read_idx, pc>> /\ client = "store"
    BY <1>1 DEF Store
  <2>2. params_write_idx' \in Nat /\ Behind' BY <2>1 DEF Inv, Behind
  <2>3. RoomStays' BY <2>1 DEF Inv, RoomStays
  <2> QED BY <1>1, <2>1, <2>2, <2>3 DEF Inv
<1>2. ASSUME UNCHANGED <<params_write_idx, params_read_idx, pc>>, RoomStays'
      PROVE  Inv' /\ UNCHANGED <<params_write_idx, params_read_idx>>
  BY <1>2 DEF Inv, Behind
<1> USE DEF RoomStays, PARAM_FULL, PARAM_ENTRIES
<1> RoomStays BY DEF Inv
<1>3. CASE WaitIdle
  <2>1. UNCHANGED <<params_write_idx, params_read_idx, pc>> BY <1>3 DEF WaitIdle
  <2>2. RoomStays' BY <1>3, <2>1 DEF WaitIdle
  <2> QED BY <1>2, <2>1, <2>2
<1>4. CASE FullTest
  <2>1. UNCHANGED <<params_write_idx, params_read_idx, pc>> BY <1>4 DEF FullTest
  <2>2. RoomStays' BY <1>4, <2>1 DEF FullTest
  <2> QED BY <1>2, <2>1, <2>2
<1>5. CASE RoomTest \/ RoomSleep \/ Wake \/ WriteDone \/ CloseThread \/ CloseJoin
  <2>1. UNCHANGED <<params_write_idx, params_read_idx, pc, after>>
    BY <1>5 DEF RoomTest, RoomSleep, Wake, WriteDone, CloseThread, CloseJoin
  <2>2. client # "idle" /\ client' \notin {"texture", "store"}
    BY <1>5 DEF RoomTest, RoomSleep, Wake, WriteDone, CloseThread, CloseJoin
  <2> QED BY <1>2, <2>1, <2>2
<1>6. CASE TextureHit \/ TextureMiss
  <2>1. UNCHANGED <<params_write_idx, params_read_idx, pc, after>> /\ client = "texture"
    BY <1>6 DEF TextureHit, TextureMiss
  <2> QED BY <1>2, <2>1
<1>7. CASE TextureWait
  <2>1. /\ UNCHANGED <<params_write_idx, params_read_idx, pc>> /\ client = "texture"
        /\ after' = "texture" /\ client' = "idle"
    BY <1>7 DEF TextureWait
  <2> QED BY <1>2, <2>1
<1>8. CASE NeedIdle \/ Close \/ Gone
  <2>1. UNCHANGED <<params_write_idx, params_read_idx, pc, after>>
    BY <1>8 DEF NeedIdle, Close, Gone, vars
  <2>2. client = client' \/ (client = "ready" /\ client' \in {"idle", "close"})
    BY <1>8 DEF NeedIdle, Close, Gone, vars
  <2> QED BY <1>2, <2>1, <2>2
<1>9. ASSUME NEW t \in Textures, Triangle(t) \/ WriteTexture(t)
      PROVE  Inv' /\ UNCHANGED <<params_write_idx, params_read_idx>>
  <2>1. UNCHANGED <<params_write_idx, params_read_idx, pc>> /\ after' \in {after, "write"}
        /\ client = "ready" /\ client' \in {"full", "idle", "write"}
    BY <1>9 DEF Triangle, WriteTexture
  <2> QED BY <1>2, <2>1
<1> QED BY <1>1, <1>3, <1>4, <1>5, <1>6, <1>7, <1>8, <1>9 DEF ClientGoesOn

(* A render thread moves its own params_read_idx only, and the room that   *)
(* was found in a ring can only grow.                                      *)
LEMMA RenderStep ==
  ASSUME Inv, NEW r \in Thread, Render(r)
  PROVE  Inv' /\ (Advance(r) \/ UNCHANGED <<params_write_idx, params_read_idx>>)
<1> USE DEF their, ring, mine
<1>1. CASE Advance(r)
  <2>1. /\ params_read_idx' = [params_read_idx EXCEPT ![r] = @ + 1] /\ pc[r] = "drawn"
        /\ pc' = [pc EXCEPT ![r] = "room"] /\ UNCHANGED <<params_write_idx, client, after>>
    BY <1>1 DEF Advance, Goto
  <2>2. Behind' /\ params_read_idx' \in [Thread -> Nat] BY <2>1 DEF Inv, Behind
  <2>3. RoomStays'
    <3>1. PARAM_SIZE \in Nat BY RenderAssumption
    <3>2. ASSUME NEW q \in Thread, ~ PARAM_FULL(q) PROVE ~ PARAM_FULL(q)'
      BY <2>1, <3>1, <3>2 DEF Inv, PARAM_FULL, PARAM_ENTRIES
    <3> QED BY <2>1, <3>2 DEF Inv, RoomStays
  <2>4. pc' \in [Thread -> {"top", "sleep", "test", "draw", "drawn", "room", "ended"}]
    BY <2>1 DEF Inv
  <2> QED BY <1>1, <2>1, <2>2, <2>3, <2>4 DEF Inv
<1>2. CASE RenderTop(r) \/ RenderWoken(r) \/ RenderTest(r) \/ Triangled(r) \/ RenderRoom(r)
  <2>1. UNCHANGED <<params_write_idx, params_read_idx, client, after>>
    BY <1>2 DEF RenderTop, RenderWoken, RenderTest, Triangled, RenderRoom
  <2>2. PICK l \in {"top", "sleep", "test", "draw", "drawn", "ended"} :
          /\ pc' = [pc EXCEPT ![r] = l]
          /\ l = "draw" => ~ PARAM_EMPTY(r)
          /\ l = "drawn" => pc[r] = "draw"
    BY <1>2 DEF RenderTop, RenderWoken, RenderTest, Triangled, RenderRoom, Goto
  <2>3. pc' \in [Thread -> {"top", "sleep", "test", "draw", "drawn", "room", "ended"}]
    BY <2>2 DEF Inv
  <2>4. Behind' BY <2>1, <2>2 DEF Inv, Behind, PARAM_EMPTY, PARAM_ENTRIES
  <2>5. RoomStays' BY <2>1 DEF Inv, RoomStays, PARAM_FULL, PARAM_ENTRIES
  <2> QED BY <2>1, <2>3, <2>4, <2>5 DEF Inv
<1> QED BY <1>1, <1>2 DEF Render

LEMMA Stutter == Inv /\ UNCHANGED vars => Inv'
BY DEF Inv, Behind, RoomStays, PARAM_FULL, PARAM_ENTRIES, vars, their, ring, mine

LEMMA NextInv == Inv /\ [Next]_vars => Inv'
BY ClientStep, RenderStep, Stutter DEF Next

-----------------------------------------------------------------------------
(* Storing a triangle gives every thread, the last one too, one more.      *)
LEMMA StoreSubmits ==
  ASSUME Inv, Store
  PROVE  Triangles!Submit
<1>1. /\ params_write_idx' = params_write_idx + 1 /\ client = "store"
      /\ params_read_idx' = params_read_idx
  BY DEF Store, their
<1>2. params_write_idx \in Nat /\ params_read_idx \in [Thread -> Nat]
  BY DEF Inv
<1>3. PICK r \in Thread : Left = PARAM_ENTRIES(r)
                          /\ \A q \in Thread : Left >= PARAM_ENTRIES(q)
  BY <1>2, LeftIsLast
<1>4. Left < PARAM_SIZE
  BY <1>1, <1>2, <1>3, RenderAssumption DEF Inv, RoomStays, PARAM_FULL, PARAM_ENTRIES
<1>5. PICK q \in Thread : Left' = PARAM_ENTRIES(q)'
                          /\ \A p \in Thread : Left' >= PARAM_ENTRIES(p)'
  BY <1>1, <1>2, LeftIsLastNext
<1>6. Left' = Left + 1
  BY <1>1, <1>2, <1>3, <1>5 DEF PARAM_ENTRIES
<1> QED BY <1>4, <1>6 DEF Triangles!Submit

(* A triangle is drawn when the last thread has drawn it. *)
LEMMA AdvanceDraws ==
  ASSUME Inv, NEW r \in Thread, Advance(r)
  PROVE  Triangles!Draw \/ Left' = Left
<1>1. /\ params_read_idx' = [params_read_idx EXCEPT ![r] = @ + 1] /\ pc[r] = "drawn"
      /\ params_write_idx' = params_write_idx
  BY DEF Advance, ring
<1>2. /\ params_write_idx \in Nat /\ params_read_idx \in [Thread -> Nat]
      /\ params_read_idx' \in [Thread -> Nat] /\ params_read_idx[r] < params_write_idx
  BY <1>1 DEF Inv, Behind
<1>3. PICK p \in Thread : Left = PARAM_ENTRIES(p)
                          /\ \A q \in Thread : Left >= PARAM_ENTRIES(q)
  BY <1>2, LeftIsLast
<1>4. PICK q \in Thread : Left' = PARAM_ENTRIES(q)'
                          /\ \A s \in Thread : Left' >= PARAM_ENTRIES(s)'
  BY <1>1, <1>2, LeftIsLastNext
<1>5. Left > 0
  BY <1>2, <1>3 DEF PARAM_ENTRIES
<1>6. Left' = Left \/ Left' = Left - 1
  BY <1>1, <1>2, <1>3, <1>4 DEF PARAM_ENTRIES
<1> QED BY <1>5, <1>6 DEF Triangles!Draw

LEMMA LeftStays ==
  UNCHANGED <<params_write_idx, params_read_idx>> => Left' = Left
BY DEF Left, PARAM_ENTRIES

(* The ring, its threads and their events implement the submitting and     *)
(* drawing of triangles that VoodooFifo is built on.                       *)
THEOREM RenderImplementsTriangles == Spec => ImplementsTriangles
<1>1. Init => Triangles!NoneLeft
  <2> SUFFICES ASSUME Init PROVE Left = 0 BY DEF Triangles!NoneLeft
  <2>1. params_write_idx = 0 /\ params_read_idx = [r \in Thread |-> 0] BY DEF Init
  <2>2. PICK r \in Thread : Left = PARAM_ENTRIES(r) BY <2>1, LeftIsLast
  <2> QED BY <2>1, <2>2 DEF PARAM_ENTRIES
<1>2. Inv /\ [Next]_vars => [Triangles!Submit \/ Triangles!Draw]_Left
  <2> SUFFICES ASSUME Inv, [Next]_vars
               PROVE  Triangles!Submit \/ Triangles!Draw \/ Left' = Left
    OBVIOUS
  <2>1. CASE UNCHANGED vars BY <2>1, LeftStays DEF vars, their, ring
  <2>2. ASSUME NEW r \in Thread, Render(r)
        PROVE  Triangles!Submit \/ Triangles!Draw \/ Left' = Left
    BY <2>2, RenderStep, AdvanceDraws, LeftStays
  <2>3. CASE \/ ClientGoesOn \/ NeedIdle \/ Close \/ Gone
             \/ \E t \in Textures : Triangle(t) \/ WriteTexture(t)
    BY <2>3, ClientStep, StoreSubmits, LeftStays
  <2> QED BY <2>1, <2>2, <2>3 DEF Next
<1> QED
  BY <1>1, <1>2, InitInv, NextInv, PTL
     DEF Spec, ImplementsTriangles, Triangles!TrianglesSpec

-----------------------------------------------------------------------------
(* The texture cache, with one or two render threads.                      *)

Types ==
    /\ tex_entry \in Entry /\ texture_last_removed \in Nat
    /\ tex_mem \in [Textures -> Nat] /\ base \in [Entry -> Textures \cup {NoBase}]
    /\ data \in [Entry -> (Textures \cup {NoBase}) \X Nat]
    /\ refcount \in [Entry -> Int] /\ refcount_r \in [Entry -> [Thread -> Int]]
    /\ params_buffer \in [Slot -> Entry]
    /\ owed \in [Thread -> Seq(Textures \X Nat)]

(* The slot of triangle number i in a ring of size P. *)
SlotOf(i, P) == i % P

(* The numbers from d up to w whose slot of ring b, of size P, holds c. *)
Holding(b, P, c, d, w) == {i \in d .. w - 1 : b[SlotOf(i, P)] = c}

(* The triangles with entry c that thread r has yet to draw, and the one   *)
(* that has its entry and is not stored yet.                               *)
Pending(r, c) == Holding(params_buffer, PARAM_SIZE, c, Drawing(r), params_write_idx)
Held(c) == IF client = "store" /\ tex_entry = c THEN 1 ELSE 0

(* refcount and refcount_r count just these. *)
Counted ==
    \A r \in Thread : \A c \in Entry :
        refcount[c] - refcount_r[c][r] = Cardinality(Pending(r, c)) + Held(c)

(* The ring holds what is owed, and the copies are the ones it was         *)
(* promised.                                                               *)
Kept ==
    \A r \in Thread :
        /\ params_write_idx - params_read_idx[r] <= PARAM_SIZE
        /\ Len(owed[r]) = params_write_idx - Drawing(r)
        /\ \A i \in Drawing(r) .. params_write_idx - 1 :
            data[params_buffer[SlotOf(i, PARAM_SIZE)]] = owed[r][i - Drawing(r) + 1]

(* An entry that has a texture is a copy of it as it is now. *)
Cached ==
    \A c \in Entry : base[c] # NoBase => data[c] = <<base[c], tex_mem[base[c]]>>

(* What the FIFO thread has found out about the texture at hand. *)
Wanted ==
    /\ client \in {"full", "room", "sleep", "texture", "store", "write"}
         \/ after \in {"texture", "write"} => want \in Textures
    /\ client = "store" => base[tex_entry] = want
    /\ client = "write" \/ after = "write" => \A c \in Entry : base[c] # want
    /\ after = "write" => client = "idle"

TexInv == Inv /\ render_threads # 4 /\ Types /\ Counted /\ Kept /\ Cached /\ Wanted

(* Arithmetic of the ring: two numbers less than PARAM_SIZE apart have     *)
(* different slots, ...                                                    *)
LEMMA DivMod ==
  ASSUME NEW a \in Nat, NEW P \in Nat \ {0}
  PROVE  a = P * (a \div P) + (a % P) /\ a \div P \in Int /\ a % P \in 0 .. P - 1
OBVIOUS

LEMMA Multiple ==
  ASSUME NEW k \in Int, NEW P \in Nat \ {0}, NEW d \in Int, d = P * k, 0 < d
  PROVE  P <= d
<1>1. k >= 1 OBVIOUS
<1> QED BY <1>1

LEMMA SlotsApart ==
  ASSUME NEW a \in Nat, NEW b \in Nat, NEW P \in Nat \ {0}, a < b, b - a < P
  PROVE  SlotOf(a, P) # SlotOf(b, P)
<1> SUFFICES ASSUME a % P = b % P PROVE FALSE BY DEF SlotOf
<1> DEFINE k == (b \div P) - (a \div P)
<1>1. k \in Int /\ b - a = P * k BY DivMod
<1> HIDE DEF k
<1> QED BY <1>1, Multiple

LEMMA SlotInRing ==
  ASSUME NEW a \in Nat, NEW P \in Nat \ {0}
  PROVE  SlotOf(a, P) \in 0 .. P - 1
BY DivMod DEF SlotOf

(* ... so that storing number w changes none of the slots before it, ... *)
LEMMA StoreSlot ==
  ASSUME NEW P \in Nat \ {0}, NEW d \in Nat, NEW w \in Nat, w - d < P
  PROVE  /\ SlotOf(w, P) \in 0 .. P - 1
         /\ \A i \in d .. w - 1 : SlotOf(i, P) \in 0 .. P - 1 /\ SlotOf(i, P) # SlotOf(w, P)
<1>1. SlotOf(w, P) \in 0 .. P - 1 BY SlotInRing
<1>2. ASSUME NEW i \in d .. w - 1
      PROVE  SlotOf(i, P) \in 0 .. P - 1 /\ SlotOf(i, P) # SlotOf(w, P)
  <2>1. i \in Nat /\ i < w /\ w - i < P OBVIOUS
  <2> QED BY <2>1, SlotInRing, SlotsApart
<1> QED BY <1>1, <1>2

(* ... and the slots that hold an entry can be counted. *)
LEMMA HoldingCount ==
  ASSUME NEW b, NEW P, NEW c, NEW d \in Nat, NEW w \in Nat
  PROVE  /\ IsFiniteSet(Holding(b, P, c, d, w)) /\ Cardinality(Holding(b, P, c, d, w)) \in Nat
         /\ Cardinality(Holding(b, P, c, d, w)) = 0 => \A i \in d .. w - 1 : b[SlotOf(i, P)] # c
<1> DEFINE S == Holding(b, P, c, d, w)
<1>1. IsFiniteSet(d .. w - 1) BY FS_Interval
<1>2. S \in SUBSET (d .. w - 1) BY DEF Holding
<1> HIDE DEF S
<1>3. IsFiniteSet(S) BY <1>1, <1>2, FS_Subset
<1>4. Cardinality(S) \in Nat BY <1>3, FS_CardinalityType
<1>5. Cardinality(S) = 0 => S = {} BY <1>3, FS_EmptySet
<1>6. S = {} => \A i \in d .. w - 1 : b[SlotOf(i, P)] # c BY DEF S, Holding
<1> QED BY <1>3, <1>4, <1>5, <1>6 DEF S

LEMMA DrawCount ==
  ASSUME NEW b, NEW P, NEW c, NEW d \in Nat, NEW w \in Nat, d < w
  PROVE  Cardinality(Holding(b, P, c, d, w)) =
         Cardinality(Holding(b, P, c, d + 1, w)) + IF b[SlotOf(d, P)] = c THEN 1 ELSE 0
<1> DEFINE S == Holding(b, P, c, d + 1, w)
           T == Holding(b, P, c, d, w)
<1>0. d + 1 \in Nat OBVIOUS
<1>1. IsFiniteSet(S) /\ Cardinality(S) \in Nat BY <1>0, HoldingCount
<1>2. d .. w - 1 = (d + 1 .. w - 1) \cup {d} OBVIOUS
<1>3. d \notin S BY DEF Holding
<1>4. CASE b[SlotOf(d, P)] = c
  <2>1. T = S \cup {d} BY <1>2, <1>4 DEF Holding
  <2> HIDE DEF S, T
  <2>2. Cardinality(T) = Cardinality(S) + 1 BY <1>1, <1>3, <2>1, FS_AddElement
  <2> QED BY <2>2, <1>4 DEF S, T
<1>5. CASE b[SlotOf(d, P)] # c
  <2>1. T = S BY <1>2, <1>5 DEF Holding
  <2> HIDE DEF S, T
  <2>2. Cardinality(T) = Cardinality(S) + 0 BY <2>1, <1>1
  <2> QED BY <2>2, <1>5 DEF S, T
<1> QED BY <1>4, <1>5

LEMMA DrawingBounds ==
  ASSUME Inv, NEW r \in Thread
  PROVE  /\ Drawing(r) \in Nat /\ params_read_idx[r] \in Nat /\ params_write_idx \in Nat
         /\ params_read_idx[r] <= Drawing(r) /\ Drawing(r) <= params_write_idx
BY DEF Inv, Behind, Drawing

LEMMA TexInit == Init /\ render_threads # 4 => TexInv
<1> SUFFICES ASSUME Init, render_threads # 4 PROVE TexInv OBVIOUS
<1>1. Inv BY InitInv
<1>2. 0 \in Entry /\ Slot = 0 .. PARAM_SIZE - 1 /\ PARAM_SIZE \in Nat
  BY RenderAssumption DEF Entry, Slot
<1>3. Types BY <1>2 DEF Init, Types
<1>4. \A r \in Thread : Drawing(r) = 0 /\ params_write_idx = 0 /\ params_read_idx[r] = 0
  BY DEF Init, Drawing
<1>5. Counted
  <2> SUFFICES ASSUME NEW r \in Thread, NEW c \in Entry
               PROVE  refcount[c] - refcount_r[c][r] = Cardinality(Pending(r, c)) + Held(c)
    BY DEF Counted
  <2>1. Pending(r, c) = {} BY <1>4 DEF Pending, Holding
  <2>2. refcount[c] = 0 /\ refcount_r[c][r] = 0 /\ Held(c) = 0 BY DEF Init, Held
  <2> QED BY <2>1, <2>2, FS_EmptySet
<1>6. Kept
  <2>1. \A r \in Thread : owed[r] = <<>> BY DEF Init
  <2> QED BY <1>2, <1>4, <2>1 DEF Kept
<1>7. Cached BY DEF Init, Cached
<1>8. Wanted BY DEF Init, Wanted
<1> QED BY <1>1, <1>3, <1>5, <1>6, <1>7, <1>8 DEF TexInv

(* A step that touches neither the ring nor the cache, and moves no thread *)
(* past a triangle.                                                        *)
LEMMA QuietStep ==
  ASSUME TexInv, Inv', UNCHANGED <<cache, ring, tex_entry, tex_mem, refcount_r, owed>>,
         \A r \in Thread : Drawing(r)' = Drawing(r)
                           /\ params_read_idx'[r] \in {params_read_idx[r], params_read_idx[r] + 1},
         client = "store" <=> client' = "store", Wanted'
  PROVE  TexInv'
<1> USE DEF cache, ring
<1>1. Types' BY DEF TexInv, Types
<1>2. Counted'
  <2> SUFFICES ASSUME NEW r \in Thread, NEW c \in Entry
               PROVE  (refcount[c] - refcount_r[c][r] = Cardinality(Pending(r, c)) + Held(c))'
    BY DEF Counted
  <2>1. Pending(r, c)' = Pending(r, c) /\ Held(c)' = Held(c) BY DEF Pending, Holding, Held
  <2> QED BY <2>1 DEF TexInv, Counted
<1>3. Kept'
  <2> SUFFICES ASSUME NEW r \in Thread
               PROVE  /\ params_write_idx - params_read_idx'[r] <= PARAM_SIZE
                      /\ Len(owed[r]) = params_write_idx - Drawing(r)
                      /\ \A i \in Drawing(r) .. params_write_idx - 1 :
                          data[params_buffer[SlotOf(i, PARAM_SIZE)]] = owed[r][i - Drawing(r) + 1]
    BY DEF Kept
  <2>1. params_write_idx - params_read_idx[r] <= PARAM_SIZE
    BY DEF TexInv, Kept
  <2>2. params_write_idx \in Nat /\ params_read_idx[r] \in Nat /\ PARAM_SIZE \in Nat
    BY RenderAssumption DEF TexInv, Inv
  <2>3. params_write_idx - params_read_idx'[r] <= PARAM_SIZE
    BY <2>1, <2>2
  <2> QED BY <2>3 DEF TexInv, Kept
<1>4. Cached' BY DEF TexInv, Cached
<1> QED BY <1>1, <1>2, <1>3, <1>4 DEF TexInv

(* The entry of the triangle that is stored holds the texture it wants. *)
LEMMA StoreTex ==
  ASSUME TexInv, Inv', Store
  PROVE  TexInv'
<1>1. /\ client = "store" /\ client' = "wake" /\ tex_entry' = 0
      /\ params_buffer' = [params_buffer EXCEPT ![SlotOf(params_write_idx, PARAM_SIZE)] = tex_entry]
      /\ params_write_idx' = params_write_idx + 1
      /\ owed' = [r \in Thread |-> Append(owed[r], <<want, tex_mem[want]>>)]
      /\ UNCHANGED <<after, tex_mem, base, data, refcount, texture_last_removed, pc,
                     params_read_idx, refcount_r>>
  BY DEF Store, cache, SlotOf
<1> DEFINE copy == <<want, tex_mem[want]>>
<1>2. want \in Textures /\ data[tex_entry] = copy /\ copy \in Textures \X Nat
  <2>1. want \in Textures /\ base[tex_entry] = want BY <1>1 DEF TexInv, Wanted
  <2> QED BY <2>1, RenderAssumption DEF TexInv, Cached, Types
<1>3. PARAM_SIZE \in Nat \ {0} /\ Slot = 0 .. PARAM_SIZE - 1 /\ 0 \in Entry
  BY RenderAssumption DEF Slot, Entry
<1>4. params_write_idx \in Nat /\ tex_entry \in Entry /\ params_buffer \in [Slot -> Entry]
  BY DEF TexInv, Inv, Types
<1> HIDE DEF copy
<1>5. ASSUME NEW r \in Thread
      PROVE  /\ Drawing(r)' = Drawing(r) /\ Drawing(r) \in Nat
             /\ params_read_idx[r] \in Nat /\ params_read_idx[r] <= Drawing(r)
             /\ Drawing(r) <= params_write_idx
             /\ params_write_idx - params_read_idx[r] < PARAM_SIZE
             /\ params_write_idx - Drawing(r) < PARAM_SIZE
  <2>1. Inv BY DEF TexInv
  <2>2. ~ PARAM_FULL(r) BY <1>1, <2>1 DEF Inv, RoomStays
  <2>3. Drawing(r)' = Drawing(r) BY <1>1 DEF Drawing
  <2> QED BY <2>1, <2>2, <2>3, <1>3, DrawingBounds DEF PARAM_FULL, PARAM_ENTRIES
<1>6. ASSUME NEW r \in Thread
      PROVE  /\ params_buffer' \in [Slot -> Entry]
             /\ params_buffer'[SlotOf(params_write_idx, PARAM_SIZE)] = tex_entry
             /\ \A i \in Drawing(r) .. params_write_idx - 1 :
                 params_buffer'[SlotOf(i, PARAM_SIZE)] = params_buffer[SlotOf(i, PARAM_SIZE)]
  <2>1. Drawing(r) \in Nat /\ params_write_idx - Drawing(r) < PARAM_SIZE BY <1>5
  <2>2. /\ SlotOf(params_write_idx, PARAM_SIZE) \in Slot
        /\ \A i \in Drawing(r) .. params_write_idx - 1 :
            SlotOf(i, PARAM_SIZE) \in Slot
            /\ SlotOf(i, PARAM_SIZE) # SlotOf(params_write_idx, PARAM_SIZE)
    BY ONLY <1>3, <1>4, <2>1, StoreSlot
  <2> QED BY <1>1, <1>4, <2>2
<1>7. ASSUME NEW r \in Thread
      PROVE  /\ owed'[r] \in Seq(Textures \X Nat) /\ Len(owed'[r]) = Len(owed[r]) + 1
             /\ \A i \in 1 .. Len(owed[r]) : owed'[r][i] = owed[r][i]
             /\ owed'[r][Len(owed[r]) + 1] = copy
  <2>1. owed[r] \in Seq(Textures \X Nat) /\ owed'[r] = Append(owed[r], copy)
    BY <1>1 DEF TexInv, Types, copy
  <2> QED BY ONLY <1>2, <2>1, AppendProperties
<1>8. Types'
  <2>1. 0 \in Thread BY RenderAssumption DEF Thread
  <2>2. params_buffer' \in [Slot -> Entry] BY <1>6, <2>1
  <2>3. owed' \in [Thread -> Seq(Textures \X Nat)] BY <1>1, <1>7
  <2> QED BY <1>1, <1>3, <2>2, <2>3 DEF TexInv, Types
<1>9. Counted'
  <2> SUFFICES ASSUME NEW r \in Thread, NEW c \in Entry
               PROVE  refcount[c] - refcount_r[c][r] = Cardinality(Pending(r, c)') + Held(c)'
    BY <1>1 DEF Counted
  <2>1. Held(c)' = 0 /\ Held(c) = IF tex_entry = c THEN 1 ELSE 0 BY <1>1 DEF Held
  <2>2. Pending(r, c)' =
          Holding(params_buffer', PARAM_SIZE, c, Drawing(r), params_write_idx + 1)
    BY <1>1, <1>5 DEF Pending
  <2>3. Cardinality(Pending(r, c)') = Cardinality(Pending(r, c)) + Held(c)
    <3>1. Drawing(r) .. (params_write_idx + 1) - 1
            = (Drawing(r) .. params_write_idx - 1) \cup {params_write_idx}
      BY <1>4, <1>5
    <3>2. IsFiniteSet(Pending(r, c)) /\ Cardinality(Pending(r, c)) \in Nat
      BY <1>4, <1>5, HoldingCount DEF Pending
    <3>3. params_write_idx \notin Pending(r, c)
      BY <1>4, <1>5 DEF Pending, Holding
    <3>4. CASE tex_entry = c
      <4>1. Pending(r, c)' = Pending(r, c) \cup {params_write_idx}
        BY <1>6, <2>2, <3>1, <3>4 DEF Pending, Holding
      <4> QED BY <2>1, <3>2, <3>3, <3>4, <4>1, FS_AddElement
    <3>5. CASE tex_entry # c
      <4>1. Pending(r, c)' = Pending(r, c)
        BY <1>6, <2>2, <3>1, <3>5 DEF Pending, Holding
      <4> QED BY <2>1, <3>2, <3>5, <4>1
    <3> QED BY <3>4, <3>5
  <2>4. refcount[c] - refcount_r[c][r] = Cardinality(Pending(r, c)) + Held(c)
    BY DEF TexInv, Counted
  <2>5. Cardinality(Pending(r, c)) \in Nat BY <1>4, <1>5, HoldingCount DEF Pending
  <2> QED BY <2>1, <2>3, <2>4, <2>5
<1>10. Kept'
  <2> SUFFICES ASSUME NEW r \in Thread
               PROVE  /\ params_write_idx' - params_read_idx[r] <= PARAM_SIZE
                      /\ Len(owed'[r]) = params_write_idx' - Drawing(r)
                      /\ \A i \in Drawing(r) .. params_write_idx' - 1 :
                          data[params_buffer'[SlotOf(i, PARAM_SIZE)]] = owed'[r][i - Drawing(r) + 1]
    BY <1>1, <1>5 DEF Kept
  <2>1. Len(owed[r]) = params_write_idx - Drawing(r) BY DEF TexInv, Kept
  <2>2. /\ params_write_idx' - params_read_idx[r] <= PARAM_SIZE
        /\ Len(owed'[r]) = params_write_idx' - Drawing(r)
    BY <1>1, <1>3, <1>4, <1>5, <1>7, <2>1
  <2>3. ASSUME NEW i \in Drawing(r) .. params_write_idx - 1
        PROVE  data[params_buffer'[SlotOf(i, PARAM_SIZE)]] = owed'[r][i - Drawing(r) + 1]
    <3>1. i - Drawing(r) + 1 \in 1 .. Len(owed[r]) BY <1>4, <1>5, <2>1
    <3>2. data[params_buffer[SlotOf(i, PARAM_SIZE)]] = owed[r][i - Drawing(r) + 1]
      BY <2>3 DEF TexInv, Kept
    <3>3. params_buffer'[SlotOf(i, PARAM_SIZE)] = params_buffer[SlotOf(i, PARAM_SIZE)] BY <1>6, <2>3
    <3> QED BY <1>7, <3>1, <3>2, <3>3
  <2>4. data[params_buffer'[SlotOf(params_write_idx, PARAM_SIZE)]]
          = owed'[r][params_write_idx - Drawing(r) + 1]
    BY <1>2, <1>6, <1>7, <2>1
  <2>5. \A i \in Drawing(r) .. params_write_idx' - 1 :
          i \in Drawing(r) .. params_write_idx - 1 \/ i = params_write_idx
    BY <1>1, <1>4, <1>5
  <2> QED BY <2>2, <2>3, <2>4, <2>5
<1>11. Cached' BY <1>1 DEF TexInv, Cached
<1>12. Wanted' BY <1>1 DEF TexInv, Inv, RoomStays, Wanted
<1> QED BY <1>8, <1>9, <1>10, <1>11, <1>12 DEF TexInv

(* A thread that is past a triangle holds one reference less. *)
LEMMA DrawTex ==
  ASSUME TexInv, Inv', NEW r \in Thread, Triangled(r)
  PROVE  TexInv'
<1> DEFINE d == params_read_idx[r]
           c == params_buffer[SlotOf(d, PARAM_SIZE)]
<1>1. /\ pc[r] = "draw" /\ pc' = [pc EXCEPT ![r] = "drawn"]
      /\ refcount_r' = [refcount_r EXCEPT ![c][r] = @ + 1]
      /\ owed' = [owed EXCEPT ![r] = Tail(@)]
      /\ UNCHANGED <<client, after, want, tex_entry, tex_mem, base, data, refcount,
                     texture_last_removed, params_buffer, params_write_idx, params_read_idx>>
  BY DEF Triangled, Goto, mine, cache, ring, SlotOf
<1>2. /\ d \in Nat /\ params_write_idx \in Nat /\ d < params_write_idx
      /\ Drawing(r) = d /\ Drawing(r)' = d + 1
  BY <1>1 DEF TexInv, Inv, Behind, Drawing
<1>3. PARAM_SIZE \in Nat \ {0} /\ Slot = 0 .. PARAM_SIZE - 1
  BY RenderAssumption DEF Slot
<1>4. c \in Entry
  <2>1. SlotOf(d, PARAM_SIZE) \in Slot BY <1>2, <1>3, SlotInRing
  <2> QED BY <2>1 DEF TexInv, Types
<1>5. \A q \in Thread \ {r} : Drawing(q)' = Drawing(q) /\ owed'[q] = owed[q]
  BY <1>1 DEF Drawing, TexInv, Inv, Types
<1> HIDE DEF c, d
<1>6. /\ owed'[r] \in Seq(Textures \X Nat) /\ Len(owed'[r]) = Len(owed[r]) - 1
      /\ \A i \in 1 .. Len(owed'[r]) : owed'[r][i] = owed[r][i + 1]
      /\ Len(owed[r]) = params_write_idx - d
  <2>1. owed[r] \in Seq(Textures \X Nat) /\ owed'[r] = Tail(owed[r])
    BY <1>1 DEF TexInv, Types
  <2>2. Len(owed[r]) = params_write_idx - d BY <1>2 DEF TexInv, Kept
  <2>3. owed[r] # <<>> BY <1>2, <2>2
  <2> QED BY ONLY <2>1, <2>2, <2>3, HeadTailProperties
<1>7. Types'
  <2>1. owed' \in [Thread -> Seq(Textures \X Nat)] BY <1>1, <1>6 DEF TexInv, Types
  <2>2. refcount_r' \in [Entry -> [Thread -> Int]] BY <1>1, <1>4 DEF TexInv, Types
  <2> QED BY <1>1, <2>1, <2>2 DEF TexInv, Types
<1>8. Counted'
  <2> SUFFICES ASSUME NEW q \in Thread, NEW e \in Entry
               PROVE  refcount[e] - refcount_r'[e][q] = Cardinality(Pending(q, e)') + Held(e)
    BY <1>1 DEF Counted, Held
  <2>1. /\ refcount[e] - refcount_r[e][q] = Cardinality(Pending(q, e)) + Held(e)
        /\ refcount[e] \in Int /\ refcount_r[e][q] \in Int /\ Held(e) \in Int
    BY DEF TexInv, Counted, Types, Held
  <2>2. CASE q # r
    <3>1. refcount_r'[e][q] = refcount_r[e][q] BY <1>1, <1>4, <2>2 DEF TexInv, Types
    <3>2. Pending(q, e)' = Pending(q, e) BY <1>1, <1>5, <2>2 DEF Pending
    <3> QED BY <2>1, <3>1, <3>2
  <2>3. CASE q = r
    <3>1. refcount_r'[e][r] = refcount_r[e][r] + IF c = e THEN 1 ELSE 0
      <4>1. CASE c = e BY <1>1, <1>4, <4>1 DEF TexInv, Types
      <4>2. CASE c # e
        <5>1. refcount_r'[e][r] = refcount_r[e][r] BY <1>1, <1>4, <4>2 DEF TexInv, Types
        <5> QED BY <2>1, <2>3, <4>2, <5>1
      <4> QED BY <4>1, <4>2
    <3>2. /\ Pending(r, e) = Holding(params_buffer, PARAM_SIZE, e, d, params_write_idx)
          /\ Pending(r, e)' = Holding(params_buffer, PARAM_SIZE, e, d + 1, params_write_idx)
      BY <1>1, <1>2 DEF Pending
    <3>3. Cardinality(Pending(r, e)) = Cardinality(Pending(r, e)') + IF c = e THEN 1 ELSE 0
      BY <1>2, <3>2, DrawCount DEF c
    <3>4. Cardinality(Pending(r, e)') \in Nat
      <4>1. d + 1 \in Nat BY <1>2
      <4> QED BY <1>2, <3>2, <4>1, HoldingCount
    <3> QED BY <2>1, <2>3, <3>1, <3>3, <3>4
  <2> QED BY <2>2, <2>3
<1>9. Kept'
  <2> SUFFICES ASSUME NEW q \in Thread
               PROVE  /\ params_write_idx - params_read_idx[q] <= PARAM_SIZE
                      /\ Len(owed'[q]) = params_write_idx - Drawing(q)'
                      /\ \A i \in Drawing(q)' .. params_write_idx - 1 :
                          data[params_buffer[SlotOf(i, PARAM_SIZE)]] = owed'[q][i - Drawing(q)' + 1]
    BY <1>1 DEF Kept
  <2>1. CASE q # r BY <1>5, <2>1 DEF TexInv, Kept
  <2>2. CASE q = r
    <3>1. Len(owed'[r]) = params_write_idx - (d + 1) BY <1>2, <1>6
    <3>2. ASSUME NEW i \in d + 1 .. params_write_idx - 1
          PROVE  data[params_buffer[SlotOf(i, PARAM_SIZE)]] = owed'[r][i - (d + 1) + 1]
      <4>1. data[params_buffer[SlotOf(i, PARAM_SIZE)]] = owed[r][i - d + 1]
        <5>1. i \in d .. params_write_idx - 1 BY <1>2
        <5> QED BY <1>2, <5>1 DEF TexInv, Kept
      <4> DEFINE j == i - (d + 1) + 1
      <4>2. j \in 1 .. Len(owed'[r]) /\ j + 1 = i - d + 1
        BY <1>2, <3>1
      <4>3. owed'[r][j] = owed[r][j + 1]
        <5>1. \A k \in 1 .. Len(owed'[r]) : owed'[r][k] = owed[r][k + 1] BY <1>6
        <5> HIDE DEF j
        <5> QED BY ONLY <4>2, <5>1
      <4> QED BY <4>1, <4>2, <4>3
    <3>3. params_write_idx - params_read_idx[q] <= PARAM_SIZE BY DEF TexInv, Kept
    <3> QED BY <1>2, <2>2, <3>1, <3>2, <3>3
  <2> QED BY <2>1, <2>2
<1>10. Cached' BY <1>1 DEF TexInv, Cached
<1>11. Wanted' BY <1>1 DEF TexInv, Wanted
<1> QED BY <1>7, <1>8, <1>9, <1>10, <1>11 DEF TexInv

(* The entry that TextureMiss takes is in no slot that a thread has yet to *)
(* draw.                                                                   *)
LEMMA UnusedFree ==
  ASSUME TexInv, client = "texture", NEW c \in Entry, Unused(c), NEW r \in Thread,
         NEW i \in Drawing(r) .. params_write_idx - 1
  PROVE  params_buffer[SlotOf(i, PARAM_SIZE)] # c
<1>1. r \in Thread \cap {0, 1}
  BY RenderAssumption DEF Thread, TexInv
<1>2. refcount[c] = refcount_r[c][r] /\ refcount[c] \in Int
  BY <1>1 DEF Unused, TexInv, Types
<1>3. refcount[c] - refcount_r[c][r] = Cardinality(Pending(r, c)) + 0
  BY DEF TexInv, Counted, Held
<1>4. Drawing(r) \in Nat /\ params_write_idx \in Nat
  BY DrawingBounds DEF TexInv
<1>5. Cardinality(Pending(r, c)) \in Nat
  BY <1>4, HoldingCount DEF Pending
<1>6. Cardinality(Pending(r, c)) = 0
  BY <1>2, <1>3, <1>5
<1> QED BY <1>4, <1>6, HoldingCount DEF Pending

LEMMA MissTex ==
  ASSUME TexInv, Inv', TextureMiss
  PROVE  TexInv'
<1>1. PICK i \in 1 .. TEX_CACHE_MAX :
        /\ Unused(Candidates[i])
        /\ texture_last_removed' = Candidates[i] /\ tex_entry' = Candidates[i]
        /\ base' = [base EXCEPT ![Candidates[i]] = want]
        /\ data' = [data EXCEPT ![Candidates[i]] = <<want, tex_mem[want]>>]
        /\ refcount' = [refcount EXCEPT ![Candidates[i]] = @ + 1]
  BY DEF TextureMiss
<1>2. /\ client = "texture" /\ client' = "store"
      /\ UNCHANGED <<after, want, tex_mem, params_buffer, params_write_idx, params_read_idx,
                     pc, refcount_r, owed>>
  BY DEF TextureMiss, ring, their
<1> DEFINE c == Candidates[i]
<1>3. c \in Entry /\ c \in Nat
  <2>1. TEX_CACHE_MAX \in Nat \ {0} /\ texture_last_removed + i \in Nat
    BY RenderAssumption DEF TexInv, Types
  <2>2. c = (texture_last_removed + i) % TEX_CACHE_MAX BY DEF Candidates
  <2>3. c \in 0 .. TEX_CACHE_MAX - 1 BY <2>1, <2>2, DivMod
  <2> QED BY <2>1, <2>3 DEF Entry
<1> HIDE DEF c
<1>4. want \in Textures /\ want # NoBase /\ tex_mem[want] \in Nat
  BY <1>2, RenderAssumption DEF TexInv, Wanted, Types
<1>5. \A r \in Thread : Drawing(r)' = Drawing(r) BY <1>2 DEF Drawing
<1>6. Types' BY <1>1, <1>2, <1>3, <1>4 DEF TexInv, Types, c
<1>7. Counted'
  <2> SUFFICES ASSUME NEW r \in Thread, NEW e \in Entry
               PROVE  refcount'[e] - refcount_r[e][r] = Cardinality(Pending(r, e)) + Held(e)'
    BY <1>2, <1>5 DEF Counted, Pending
  <2>1. Held(e) = 0 /\ Held(e)' = IF c = e THEN 1 ELSE 0 BY <1>1, <1>2 DEF Held, c
  <2>2. /\ refcount[e] - refcount_r[e][r] = Cardinality(Pending(r, e)) + Held(e)
        /\ refcount[e] \in Int /\ refcount_r[e][r] \in Int
    BY DEF TexInv, Counted, Types
  <2>3. refcount'[e] = refcount[e] + IF c = e THEN 1 ELSE 0
    <3>1. CASE c = e BY <1>1, <1>3, <3>1 DEF TexInv, Types, c
    <3>2. CASE c # e
      <4>1. refcount'[e] = refcount[e] BY <1>1, <1>3, <3>2 DEF TexInv, Types, c
      <4> QED BY <2>2, <3>2, <4>1
    <3> QED BY <3>1, <3>2
  <2>4. Cardinality(Pending(r, e)) \in Nat
    BY DrawingBounds, HoldingCount DEF TexInv, Pending
  <2> QED BY <2>1, <2>2, <2>3, <2>4
<1>8. Kept'
  <2> SUFFICES ASSUME NEW r \in Thread, NEW j \in Drawing(r) .. params_write_idx - 1
               PROVE  data'[params_buffer[SlotOf(j, PARAM_SIZE)]]
                        = data[params_buffer[SlotOf(j, PARAM_SIZE)]]
    BY <1>2, <1>5 DEF TexInv, Kept
  <2>1. params_buffer[SlotOf(j, PARAM_SIZE)] # c BY <1>1, <1>2, <1>3, UnusedFree DEF c
  <2>2. params_buffer[SlotOf(j, PARAM_SIZE)] \in Entry
    <3>1. j \in Nat /\ PARAM_SIZE \in Nat \ {0} BY RenderAssumption, DrawingBounds DEF TexInv
    <3>2. SlotOf(j, PARAM_SIZE) \in Slot BY <3>1, SlotInRing DEF Slot
    <3> QED BY <3>2 DEF TexInv, Types
  <2> QED BY <1>1, <1>3, <2>1, <2>2 DEF TexInv, Types, c
<1>9. Cached' BY <1>1, <1>2, <1>3 DEF TexInv, Types, Cached, c
<1>10. Wanted' BY <1>1, <1>2, <1>3, <1>4 DEF TexInv, Inv, RoomStays, Types, Wanted, c
<1> QED BY <1>6, <1>7, <1>8, <1>9, <1>10 DEF TexInv

LEMMA HitTex ==
  ASSUME TexInv, Inv', TextureHit
  PROVE  TexInv'
<1>1. PICK c \in Entry :
        base[c] = want /\ tex_entry' = c /\ refcount' = [refcount EXCEPT ![c] = @ + 1]
  BY DEF TextureHit
<1>2. /\ client = "texture" /\ client' = "store"
      /\ UNCHANGED <<after, want, tex_mem, base, data, texture_last_removed, params_buffer,
                     params_write_idx, params_read_idx, pc, refcount_r, owed>>
  BY DEF TextureHit, ring, their
<1>3. \A r \in Thread : Drawing(r)' = Drawing(r) BY <1>2 DEF Drawing
<1>4. Types' BY <1>1, <1>2 DEF TexInv, Types
<1>5. Counted'
  <2> SUFFICES ASSUME NEW r \in Thread, NEW e \in Entry
               PROVE  refcount'[e] - refcount_r[e][r] = Cardinality(Pending(r, e)) + Held(e)'
    BY <1>2, <1>3 DEF Counted, Pending
  <2>1. Held(e) = 0 /\ Held(e)' = IF c = e THEN 1 ELSE 0 BY <1>1, <1>2 DEF Held
  <2>2. /\ refcount[e] - refcount_r[e][r] = Cardinality(Pending(r, e)) + Held(e)
        /\ refcount[e] \in Int /\ refcount_r[e][r] \in Int
    BY DEF TexInv, Counted, Types
  <2>3. refcount'[e] = refcount[e] + IF c = e THEN 1 ELSE 0
    <3>1. CASE c = e BY <1>1, <3>1 DEF TexInv, Types
    <3>2. CASE c # e
      <4>1. refcount'[e] = refcount[e] BY <1>1, <3>2 DEF TexInv, Types
      <4> QED BY <2>2, <3>2, <4>1
    <3> QED BY <3>1, <3>2
  <2>4. Cardinality(Pending(r, e)) \in Nat
    BY DrawingBounds, HoldingCount DEF TexInv, Pending
  <2> QED BY <2>1, <2>2, <2>3, <2>4
<1>6. Kept' BY <1>2, <1>3 DEF TexInv, Kept
<1>7. Cached' BY <1>2 DEF TexInv, Cached
<1>8. Wanted' BY <1>1, <1>2 DEF TexInv, Inv, RoomStays, Wanted
<1> QED BY <1>4, <1>5, <1>6, <1>7, <1>8 DEF TexInv

(* Writing a texture touches no copy: first it takes the entries that have *)
(* it from the cache, ...                                                  *)
LEMMA WriteTex ==
  ASSUME TexInv, Inv', NEW t \in Textures, WriteTexture(t)
  PROVE  TexInv'
<1>1. /\ client = "ready" /\ want' = t
      /\ base' = [c \in Entry |-> IF base[c] = t THEN NoBase ELSE base[c]]
      /\ \/ client' = "idle" /\ after' = "write"
         \/ client' = "write" /\ after' = after
      /\ UNCHANGED <<tex_entry, tex_mem, data, refcount, texture_last_removed, params_buffer,
                     params_write_idx, params_read_idx, pc, refcount_r, owed>>
  BY DEF WriteTexture, ring, their
<1>2. \A r \in Thread : Drawing(r)' = Drawing(r) BY <1>1 DEF Drawing
<1>3. Types' BY <1>1 DEF TexInv, Types
<1>4. Counted'
  <2>1. \A c \in Entry : Held(c)' = Held(c) BY <1>1 DEF Held
  <2>2. \A r \in Thread, c \in Entry : Pending(r, c)' = Pending(r, c) BY <1>1, <1>2 DEF Pending
  <2> QED BY <1>1, <2>1, <2>2 DEF TexInv, Counted
<1>5. Kept' BY <1>1, <1>2 DEF TexInv, Kept
<1>6. Cached' BY <1>1 DEF TexInv, Cached
<1>7. \A c \in Entry : base'[c] # t BY <1>1, RenderAssumption
<1>8. after \notin {"texture", "write"} BY <1>1 DEF TexInv, Inv, RoomStays, Wanted
<1>9. Wanted' BY <1>1, <1>7, <1>8 DEF Wanted
<1> QED BY <1>3, <1>4, <1>5, <1>6, <1>9 DEF TexInv

(* ... and then no entry has it. *)
LEMMA WriteDoneTex ==
  ASSUME TexInv, Inv', WriteDone
  PROVE  TexInv'
<1>1. /\ client = "write" /\ client' = "ready"
      /\ tex_mem' = [tex_mem EXCEPT ![want] = @ + 1]
      /\ UNCHANGED <<after, tex_entry, base, data, refcount, texture_last_removed,
                     params_buffer, params_write_idx, params_read_idx, pc, refcount_r, owed>>
  BY DEF WriteDone, cache, ring, their
<1>2. \A r \in Thread : Drawing(r)' = Drawing(r) BY <1>1 DEF Drawing
<1>3. want \in Textures /\ \A c \in Entry : base[c] # want BY <1>1 DEF TexInv, Wanted
<1>4. Types' BY <1>1, <1>3 DEF TexInv, Types
<1>5. Counted'
  <2>1. \A c \in Entry : Held(c)' = Held(c) BY <1>1 DEF Held
  <2>2. \A r \in Thread, c \in Entry : Pending(r, c)' = Pending(r, c) BY <1>1, <1>2 DEF Pending
  <2> QED BY <1>1, <2>1, <2>2 DEF TexInv, Counted
<1>6. Kept' BY <1>1, <1>2 DEF TexInv, Kept
<1>7. Cached' BY <1>1, <1>3 DEF TexInv, Types, Cached
<1>8. after \notin {"texture", "write"} BY <1>1 DEF TexInv, Inv, RoomStays, Wanted
<1>9. Wanted' BY <1>1, <1>8 DEF Wanted
<1> QED BY <1>4, <1>5, <1>6, <1>7, <1>9 DEF TexInv

(* The other steps of the FIFO thread. *)
LEMMA ClientTex ==
  ASSUME TexInv, Inv', ClientGoesOn \/ NeedIdle \/ Close \/ Gone
                       \/ \E t \in Textures : Triangle(t) \/ WriteTexture(t)
  PROVE  TexInv'
<1>1. ASSUME UNCHANGED <<cache, ring, tex_entry, tex_mem, their>>,
             client = "store" <=> client' = "store", Wanted'
      PROVE  TexInv'
  <2>1. UNCHANGED <<refcount_r, owed>> BY <1>1 DEF their
  <2>2. \A r \in Thread : Drawing(r)' = Drawing(r) /\ params_read_idx'[r] = params_read_idx[r]
    BY <1>1 DEF Drawing, their
  <2> QED BY <1>1, <2>1, <2>2, QuietStep
<1> USE DEF mine
<1>2. Wanted /\ after \in {"ready", "texture", "write"} /\ (after = "texture" => client = "idle")
  BY DEF TexInv, Inv, RoomStays
<1>3. CASE WaitIdle
  <2>1. UNCHANGED <<cache, ring, tex_entry, tex_mem, their, want>> BY <1>3 DEF WaitIdle
  <2>2. /\ client = "idle"
        /\ \/ client' = client /\ after' = after
           \/ client' = after /\ after' = "ready"
    BY <1>3 DEF WaitIdle
  <2>3. Wanted' BY <1>2, <2>1, <2>2 DEF Wanted, cache
  <2> QED BY <1>1, <1>2, <2>1, <2>2, <2>3
<1>4. CASE FullTest \/ RoomTest \/ RoomSleep \/ TextureWait
  <2>1. UNCHANGED <<cache, ring, tex_entry, tex_mem, their, want>>
    BY <1>4 DEF FullTest, RoomTest, RoomSleep, TextureWait
  <2>2. /\ client \in {"full", "room", "sleep", "texture"}
        /\ client' \in {"full", "room", "sleep", "texture", "idle"}
        /\ after' \in {after, "texture"}
        /\ after' = "texture" => client' = "idle"
    BY <1>4, <1>2 DEF FullTest, RoomTest, RoomSleep, TextureWait
  <2>3. Wanted' BY <1>2, <2>1, <2>2 DEF Wanted, cache
  <2> QED BY <1>1, <2>1, <2>2, <2>3
<1>5. CASE Wake \/ CloseThread \/ CloseJoin \/ NeedIdle \/ Close \/ Gone
  <2>1. UNCHANGED <<cache, ring, tex_entry, tex_mem, their, want, after>>
    BY <1>5 DEF Wake, CloseThread, CloseJoin, NeedIdle, Close, Gone, vars
  <2>2. /\ client \in {"wake", "close", "join", "ready", "closed"}
        /\ client' \in {"ready", "join", "closed", "close", "idle"}
    BY <1>5 DEF Wake, CloseThread, CloseJoin, NeedIdle, Close, Gone, vars
  <2>3. Wanted' BY <1>2, <2>1, <2>2 DEF Wanted, cache
  <2> QED BY <1>1, <2>1, <2>2, <2>3
<1>6. ASSUME NEW t \in Textures, Triangle(t) PROVE TexInv'
  <2>1. /\ UNCHANGED <<cache, ring, tex_entry, tex_mem, their, after>>
        /\ client = "ready" /\ client' = "full" /\ want' = t
    BY <1>6 DEF Triangle
  <2>2. Wanted' BY <1>2, <2>1 DEF Wanted
  <2> QED BY <1>1, <2>1, <2>2
<1> QED
  BY <1>3, <1>4, <1>5, <1>6, StoreTex, HitTex, MissTex, WriteTex, WriteDoneTex DEF ClientGoesOn

LEMMA RenderTex ==
  ASSUME TexInv, Inv', NEW r \in Thread, Render(r)
  PROVE  TexInv'
<1>1. CASE Triangled(r) BY <1>1, DrawTex
<1>2. CASE RenderTop(r) \/ RenderWoken(r) \/ RenderTest(r) \/ RenderRoom(r) \/ Advance(r)
  <2>1. UNCHANGED <<cache, ring, tex_entry, tex_mem, refcount_r, owed, client, after, want>>
    BY <1>2 DEF RenderTop, RenderWoken, RenderTest, RenderRoom, Advance, mine
  <2>2. Wanted' BY <2>1 DEF TexInv, Wanted, cache
  <2>3. \A q \in Thread : Drawing(q)' = Drawing(q)
          /\ params_read_idx'[q] \in {params_read_idx[q], params_read_idx[q] + 1}
    <3>1. CASE Advance(r)
      BY <3>1 DEF Advance, Goto, Drawing, TexInv, Inv
    <3>2. CASE ~ Advance(r)
      <4>1. PICK l \in {"top", "sleep", "test", "draw", "ended"} :
              pc' = [pc EXCEPT ![r] = l] /\ pc[r] # "drawn" /\ params_read_idx' = params_read_idx
        BY <1>2, <3>2 DEF RenderTop, RenderWoken, RenderTest, RenderRoom, Goto
      <4> QED BY <4>1 DEF Drawing, TexInv, Inv
    <3> QED BY <3>1, <3>2
  <2> QED BY <2>1, <2>2, <2>3, QuietStep
<1> QED BY <1>1, <1>2 DEF Render

LEMMA NextTex == TexInv /\ [Next]_vars => TexInv'
<1> SUFFICES ASSUME TexInv, [Next]_vars PROVE TexInv' OBVIOUS
<1>1. Inv' BY NextInv DEF TexInv
<1>2. CASE UNCHANGED vars
  <2>1. UNCHANGED <<cache, ring, tex_entry, tex_mem, refcount_r, owed, client, after, want,
                    params_read_idx, pc>>
    BY <1>2 DEF vars, mine, their
  <2>2. Wanted' BY <2>1 DEF TexInv, Wanted, cache
  <2>3. \A q \in Thread : Drawing(q)' = Drawing(q) /\ params_read_idx'[q] = params_read_idx[q]
    BY <2>1 DEF Drawing
  <2> QED BY <1>1, <2>1, <2>2, <2>3, QuietStep
<1> QED BY <1>1, <1>2, ClientTex, RenderTex DEF Next

(* With one or two render threads, every thread draws every triangle with  *)
(* the texture it was submitted with: the reference counts of the cache    *)
(* count the triangles yet to be drawn, and the room in the ring that was  *)
(* seen stays, so neither an entry nor a slot is given away too early.     *)
(* With four threads it fails, as voodoo_use_texture() looks at two.       *)
THEOREM RenderTextureKept == Spec /\ render_threads # 4 => []TextureKept
<1>1. TexInv => TextureKept
  <2> SUFFICES ASSUME TexInv, NEW r \in Thread, NEW i \in 1 .. Len(owed[r])
               PROVE  data[params_buffer[(Drawing(r) + i - 1) % PARAM_SIZE]] = owed[r][i]
    BY DEF TextureKept
  <2> DEFINE j == Drawing(r) + i - 1
  <2>1. Drawing(r) \in Nat /\ params_write_idx \in Nat BY DrawingBounds DEF TexInv
  <2>2. Len(owed[r]) = params_write_idx - Drawing(r) BY DEF TexInv, Kept
  <2>3. j \in Drawing(r) .. params_write_idx - 1 /\ j - Drawing(r) + 1 = i
    BY <2>1, <2>2
  <2> HIDE DEF j
  <2>4. data[params_buffer[SlotOf(j, PARAM_SIZE)]] = owed[r][j - Drawing(r) + 1]
    BY <2>3 DEF TexInv, Kept
  <2> QED BY <2>3, <2>4 DEF SlotOf, j
<1> QED BY <1>1, TexInit, NextTex, PTL DEF Spec

-----------------------------------------------------------------------------
(* Wake-ups.  Events are flags that a waiter resets, and the FIFO thread   *)
(* wakes the render threads only when one has little left; who waits may   *)
(* therefore rely on having been told, or on a thread that will tell.      *)

(* Render thread r is running, or about to wake. *)
Goes(r) == pc[r] # "ended" /\ (pc[r] = "sleep" => wake_render_thread[r])

Flags ==
    /\ wake_render_thread \in [Thread -> BOOLEAN]
    /\ render_not_full_event \in [Thread -> BOOLEAN]
    /\ render_thread_run \in [Thread -> BOOLEAN]

(* A thread that will sleep with triangles in its ring has been woken for  *)
(* them, or for the first of them the FIFO thread is about to wake it.     *)
Noticed ==
    \A r \in Thread : PARAM_ENTRIES(r) > 0 /\ pc[r] \in {"top", "sleep"} =>
        wake_render_thread[r] \/ (client = "wake" /\ PARAM_ENTRIES(r) = 1)

(* The FIFO thread waits for room only while the thread can tell it so. *)
RoomTold == client = "sleep" => render_not_full_event[at] \/ Goes(at)

(* A thread that is told to end is woken for it, and ends only then. *)
EndTold ==
    /\ client = "join" =>
        ~ render_thread_run[at] /\ (pc[at] = "sleep" => wake_render_thread[at])
    /\ \A r \in Thread :
        /\ pc[r] = "ended" => ~ render_thread_run[r]
        /\ ~ render_thread_run[r] => client \in {"close", "join", "closed"}

(* The thread that is looked at, and the ones that closing is done with. *)
Places ==
    /\ at \in 0 .. render_threads
    /\ client \in {"sleep", "close", "join"} => at < render_threads
    /\ client \notin {"room", "sleep", "close", "join", "closed"} => at = 0
    /\ client = "closed" => at = render_threads
    /\ client \in {"close", "join", "closed"} =>
        \A r \in Thread : r < at => pc[r] = "ended"

WakeInv == Inv /\ Flags /\ Noticed /\ RoomTold /\ EndTold /\ Places

NoWakeUpLost ==
    /\ \A r \in Thread : pc[r] = "sleep" /\ ~ wake_render_thread[r] =>
        PARAM_EMPTY(r) \/ (client = "wake" /\ PARAM_ENTRIES(r) < WakeBelow)
    /\ client = "sleep" => render_not_full_event[at] \/ Goes(at)
    /\ client = "join" => pc[at] = "ended" \/ Goes(at)
    /\ client = "closed" => \A r \in Thread : pc[r] = "ended"

LEMMA WakeInit == Init => WakeInv
<1> SUFFICES ASSUME Init PROVE WakeInv OBVIOUS
<1>1. Inv BY InitInv
<1>2. Flags BY DEF Init, Flags
<1>3. Noticed /\ RoomTold /\ EndTold BY DEF Init, Noticed, RoomTold, EndTold, PARAM_ENTRIES
<1>4. Places
  <2>1. client = "ready" /\ at = 0 BY DEF Init
  <2> QED BY <2>1, RenderAssumption DEF Places
<1> QED BY <1>1, <1>2, <1>3, <1>4 DEF WakeInv

(* Steps of the FIFO thread that only move it.  It may sleep when the      *)
(* thread that it looks at is full.                                        *)
LEMMA MoveWake ==
  ASSUME WakeInv, Inv', Places', client # "wake",
         UNCHANGED <<params_write_idx, params_read_idx, pc, render_thread_run>>,
         \A r \in Thread : wake_render_thread[r] => wake_render_thread'[r],
         wake_render_thread' \in [Thread -> BOOLEAN],
         render_not_full_event' \in [Thread -> BOOLEAN],
         client' = "sleep" =>
            \/ at' = at /\ client = "sleep" /\ render_not_full_event' = render_not_full_event
            \/ PARAM_FULL(at') /\ client \notin {"close", "join", "closed"},
         client' = "join" => client = "join" /\ at' = at,
         client \in {"close", "join", "closed"} => client' \in {"close", "join", "closed"}
  PROVE  WakeInv'
<1>1. Flags' BY DEF WakeInv, Flags
<1>2. Noticed' BY DEF WakeInv, Noticed, PARAM_ENTRIES
<1>3. EndTold'
  <2>1. client' = "join" => ~ render_thread_run'[at']
                            /\ (pc'[at'] = "sleep" => wake_render_thread'[at'])
    <3> SUFFICES ASSUME client' = "join"
                 PROVE  ~ render_thread_run'[at']
                        /\ (pc'[at'] = "sleep" => wake_render_thread'[at'])
      OBVIOUS
    <3>1. client = "join" /\ at' = at OBVIOUS
    <3>2. at \in Thread BY <3>1, RenderAssumption DEF WakeInv, Places, Thread
    <3> QED BY <3>1, <3>2 DEF WakeInv, EndTold
  <2>2. \A r \in Thread :
          /\ pc'[r] = "ended" => ~ render_thread_run'[r]
          /\ ~ render_thread_run'[r] => client' \in {"close", "join", "closed"}
    BY DEF WakeInv, EndTold
  <2> QED BY <2>1, <2>2 DEF EndTold
<1>4. RoomTold'
  <2> SUFFICES ASSUME client' = "sleep"
               PROVE  render_not_full_event'[at'] \/ Goes(at)'
    BY DEF RoomTold
  <2>1. at' \in Thread BY RenderAssumption DEF Places, Thread
  <2>2. CASE /\ at' = at /\ client = "sleep"
             /\ render_not_full_event' = render_not_full_event
    <3>1. render_not_full_event[at] \/ Goes(at) BY <2>2 DEF WakeInv, RoomTold
    <3> QED BY <2>1, <2>2, <3>1 DEF Goes
  <2>3. CASE PARAM_FULL(at') /\ client \notin {"close", "join", "closed"}
    <3>1. PARAM_ENTRIES(at') > 0
      BY <2>1, <2>3, RenderAssumption DEF PARAM_FULL, PARAM_ENTRIES, WakeInv, Inv
    <3>2. pc[at'] = "sleep" => wake_render_thread[at']
      BY <2>1, <3>1 DEF WakeInv, Noticed
    <3>3. pc[at'] # "ended" BY <2>1, <2>3 DEF WakeInv, EndTold
    <3> QED BY <2>1, <3>2, <3>3 DEF Goes
  <2> QED BY <2>2, <2>3
<1> QED BY <1>1, <1>2, <1>3, <1>4 DEF WakeInv

LEMMA ClientWake ==
  ASSUME WakeInv, ClientGoesOn \/ NeedIdle \/ Close \/ Gone
                  \/ \E t \in Textures : Triangle(t) \/ WriteTexture(t)
  PROVE  WakeInv'
<1> USE DEF their, ring, mine
<1>1. Inv' BY ClientStep DEF WakeInv
<1>2. /\ wake_render_thread \in [Thread -> BOOLEAN]
      /\ render_not_full_event \in [Thread -> BOOLEAN]
  BY DEF WakeInv, Flags
<1>3. CASE Store
  <2>1. /\ client = "store" /\ client' = "wake" /\ params_write_idx' = params_write_idx + 1
        /\ UNCHANGED <<at, pc, params_read_idx, wake_render_thread, render_not_full_event,
                       render_thread_run>>
    BY <1>3 DEF Store
  <2>2. Flags' BY <2>1 DEF WakeInv, Flags
  <2>3. EndTold' /\ RoomTold' /\ Places' BY <2>1 DEF WakeInv, EndTold, RoomTold, Places
  <2>4. Noticed'
    <3>1. ASSUME NEW r \in Thread, PARAM_ENTRIES(r)' > 0, pc[r] \in {"top", "sleep"}
          PROVE  wake_render_thread[r] \/ PARAM_ENTRIES(r)' = 1
      <4>1. /\ PARAM_ENTRIES(r)' = PARAM_ENTRIES(r) + 1 /\ PARAM_ENTRIES(r) \in Nat
        BY <2>1 DEF PARAM_ENTRIES, WakeInv, Inv, Behind
      <4>2. PARAM_ENTRIES(r) > 0 => wake_render_thread[r]
        BY <2>1, <3>1 DEF WakeInv, Noticed
      <4> QED BY <4>1, <4>2
    <3> QED BY <2>1, <3>1 DEF Noticed
  <2> QED BY <1>1, <2>2, <2>3, <2>4 DEF WakeInv
<1>4. CASE Wake
  <2>1. /\ client = "wake" /\ client' = "ready"
        /\ UNCHANGED <<at, pc, params_read_idx, params_write_idx, render_not_full_event,
                       render_thread_run>>
        /\ wake_render_thread' = IF \E r \in Thread : PARAM_ENTRIES(r) < WakeBelow
                                 THEN [r \in Thread |-> TRUE] ELSE wake_render_thread
    BY <1>4 DEF Wake
  <2>2. Flags' BY <2>1 DEF WakeInv, Flags
  <2>3. EndTold' /\ RoomTold' /\ Places' BY <2>1 DEF WakeInv, EndTold, RoomTold, Places
  <2>4. Noticed'
    <3>1. ASSUME NEW r \in Thread, PARAM_ENTRIES(r) > 0, pc[r] \in {"top", "sleep"}
          PROVE  wake_render_thread'[r]
      <4>1. CASE wake_render_thread[r] BY <2>1, <4>1
      <4>2. CASE PARAM_ENTRIES(r) = 1
        <5>1. PARAM_ENTRIES(r) < WakeBelow BY <4>2, RenderAssumption
        <5> QED BY <2>1, <5>1
      <4> QED BY <3>1, <4>1, <4>2 DEF WakeInv, Noticed
    <3>2. \A r \in Thread : PARAM_ENTRIES(r)' = PARAM_ENTRIES(r) BY <2>1 DEF PARAM_ENTRIES
    <3> QED BY <2>1, <3>1, <3>2 DEF Noticed
  <2> QED BY <1>1, <2>2, <2>3, <2>4 DEF WakeInv
<1>5. CASE CloseThread
  <2>1. /\ client = "close" /\ client' = "join" /\ at < render_threads
        /\ UNCHANGED <<at, pc, params_read_idx, params_write_idx, render_not_full_event>>
        /\ render_thread_run' = [render_thread_run EXCEPT ![at] = FALSE]
        /\ wake_render_thread' = [wake_render_thread EXCEPT ![at] = TRUE]
    BY <1>5 DEF CloseThread
  <2>2. at \in Thread BY <2>1, RenderAssumption DEF WakeInv, Places, Thread
  <2>3. Flags' BY <2>1 DEF WakeInv, Flags
  <2>4. EndTold'
    <3>1. ~ render_thread_run'[at] /\ wake_render_thread'[at]
      BY <2>1, <2>2 DEF WakeInv, Flags
    <3>2. \A r \in Thread : ~ render_thread_run[r] => ~ render_thread_run'[r]
      BY <2>1 DEF WakeInv, Flags
    <3> QED BY <2>1, <3>1, <3>2 DEF WakeInv, EndTold
  <2>5. Places' /\ RoomTold' BY <2>1 DEF WakeInv, Places, RoomTold
  <2>6. Noticed'
    <3>1. \A r \in Thread : wake_render_thread[r] => wake_render_thread'[r]
      BY <2>1 DEF WakeInv, Flags
    <3> QED BY <2>1, <3>1 DEF WakeInv, Noticed, PARAM_ENTRIES
  <2> QED BY <1>1, <2>3, <2>4, <2>5, <2>6 DEF WakeInv
<1>6. CASE WaitIdle
  <2>1. /\ client = "idle" /\ client' \in {"idle", "ready", "texture", "write"}
        /\ UNCHANGED <<at, pc, params_read_idx, params_write_idx, render_not_full_event,
                       render_thread_run>>
        /\ wake_render_thread' \in {wake_render_thread, [r \in Thread |-> TRUE]}
    BY <1>6 DEF WaitIdle, WakeInv, Inv, RoomStays
  <2>2. Places' BY <2>1 DEF WakeInv, Places
  <2>3. /\ wake_render_thread' \in [Thread -> BOOLEAN]
        /\ \A r \in Thread : wake_render_thread[r] => wake_render_thread'[r]
    BY <1>2, <2>1
  <2> QED BY <1>1, <1>2, <2>1, <2>2, <2>3, MoveWake
<1>7. CASE FullTest
  <2>1. /\ client = "full" /\ client' \in {"room", "texture"}
        /\ UNCHANGED <<at, pc, params_read_idx, params_write_idx, wake_render_thread,
                       render_thread_run>>
        /\ render_not_full_event' \in {render_not_full_event, [r \in Thread |-> FALSE]}
    BY <1>7 DEF FullTest
  <2>2. Places' BY <2>1 DEF WakeInv, Places
  <2>3. render_not_full_event' \in [Thread -> BOOLEAN] BY <1>2, <2>1
  <2> QED BY <1>1, <1>2, <2>1, <2>2, <2>3, MoveWake
<1>8. CASE RoomTest \/ RoomSleep
  <2>1. /\ client \in {"room", "sleep"}
        /\ UNCHANGED <<pc, params_read_idx, params_write_idx, wake_render_thread,
                       render_not_full_event, render_thread_run>>
        /\ \/ client' = "full" /\ at' = 0
           \/ client' = "sleep" /\ at' = at /\ PARAM_FULL(at) /\ at # render_threads
           \/ client' = "room" /\ at' = at + 1 /\ (at # render_threads \/ client = "sleep")
    BY <1>8 DEF RoomTest, RoomSleep
  <2>2. Places' BY <2>1, RenderAssumption DEF WakeInv, Places
  <2> QED BY <1>1, <1>2, <2>1, <2>2, MoveWake
<1>9. CASE CloseJoin
  <2>1. /\ client = "join" /\ pc[at] = "ended" /\ at' = at + 1
        /\ client' = IF at + 1 = render_threads THEN "closed" ELSE "close"
        /\ UNCHANGED <<pc, params_read_idx, params_write_idx, wake_render_thread,
                       render_not_full_event, render_thread_run>>
    BY <1>9 DEF CloseJoin
  <2>2. Places'
    <3>1. at \in Nat /\ at < render_threads /\ render_threads \in Nat
      BY <2>1, RenderAssumption DEF WakeInv, Places
    <3>2. \A r \in Thread : r < at + 1 => pc[r] = "ended"
      BY <2>1, <3>1 DEF WakeInv, Places, Thread
    <3> QED BY <2>1, <3>1, <3>2 DEF Places
  <2> QED BY <1>1, <1>2, <2>1, <2>2, MoveWake
<1>10. CASE \/ TextureHit \/ TextureMiss \/ TextureWait \/ WriteDone \/ NeedIdle \/ Close
            \/ \E t \in Textures : Triangle(t) \/ WriteTexture(t)
  <2>1. /\ client \in {"texture", "write", "ready"}
        /\ client' \in {"store", "idle", "ready", "close", "full", "write"}
        /\ UNCHANGED <<at, pc, params_read_idx, params_write_idx, wake_render_thread,
                       render_not_full_event, render_thread_run>>
    BY <1>10 DEF TextureHit, TextureMiss, TextureWait, WriteDone, NeedIdle, Close, Triangle,
                 WriteTexture
  <2>2. Places'
    <3>1. at = 0 BY <2>1 DEF WakeInv, Places
    <3> QED BY <2>1, <3>1, RenderAssumption DEF Places, Thread
  <2> QED BY <1>1, <1>2, <2>1, <2>2, MoveWake
<1>11. CASE Gone
  BY <1>1, <1>11 DEF Gone, vars, WakeInv, Flags, Noticed, RoomTold, EndTold, Places, Goes,
                     PARAM_ENTRIES
<1> QED BY <1>3, <1>4, <1>5, <1>6, <1>7, <1>8, <1>9, <1>10, <1>11 DEF ClientGoesOn

(* A render thread sleeps only after it has found its ring empty and has   *)
(* told that there is room.                                                *)
LEMMA RenderWake ==
  ASSUME WakeInv, NEW r \in Thread, Render(r)
  PROVE  WakeInv'
<1> USE DEF their, ring, mine
<1>1. Inv' BY RenderStep DEF WakeInv
<1>2. UNCHANGED <<client, at, render_thread_run, params_write_idx>>
  BY DEF Render, RenderTop, RenderWoken, RenderTest, Triangled, Advance, RenderRoom
<1>3. PICK l : pc' = [pc EXCEPT ![r] = l]
  BY DEF Render, RenderTop, RenderWoken, RenderTest, Triangled, Advance, RenderRoom, Goto
<1>4. pc \in [Thread -> {"top", "sleep", "test", "draw", "drawn", "room", "ended"}]
  BY DEF WakeInv, Inv
<1>5. /\ wake_render_thread \in [Thread -> BOOLEAN]
      /\ render_not_full_event \in [Thread -> BOOLEAN]
  BY DEF WakeInv, Flags
<1>6. pc[r] # "ended" /\ (pc'[r] = "ended" => ~ render_thread_run[r])
  BY <1>4 DEF Render, RenderTop, RenderWoken, RenderTest, Triangled, Advance, RenderRoom, Goto
<1>7. /\ wake_render_thread' \in [Thread -> BOOLEAN]
      /\ \A q \in Thread : wake_render_thread[q] =>
            wake_render_thread'[q] \/ (q = r /\ pc'[r] = "test")
  <2>1. CASE RenderWoken(r) BY <1>4, <1>5, <2>1 DEF RenderWoken, Goto
  <2>2. CASE ~ RenderWoken(r)
    <3>1. wake_render_thread' = wake_render_thread
      BY <2>2 DEF Render, RenderTop, RenderTest, Triangled, Advance, RenderRoom
    <3> QED BY <1>5, <3>1
  <2> QED BY <2>1, <2>2
<1>8. /\ render_not_full_event' \in [Thread -> BOOLEAN]
      /\ \A q \in Thread : render_not_full_event[q] => render_not_full_event'[q]
  <2>1. CASE RenderTop(r) BY <1>5, <2>1 DEF RenderTop
  <2>2. CASE RenderRoom(r) BY <1>5, <2>2 DEF RenderRoom
  <2>3. CASE ~ RenderTop(r) /\ ~ RenderRoom(r)
    <3>1. render_not_full_event' = render_not_full_event
      BY <2>3 DEF Render, RenderWoken, RenderTest, Triangled, Advance
    <3> QED BY <1>5, <3>1
  <2> QED BY <2>1, <2>2, <2>3
<1>9. Flags' BY <1>2, <1>7, <1>8 DEF WakeInv, Flags
<1>10. ASSUME pc'[r] = "sleep"
       PROVE  pc[r] = "top" /\ render_thread_run[r] /\ render_not_full_event'[r]
  BY <1>4, <1>5, <1>10 DEF Render, RenderTop, RenderWoken, RenderTest, Triangled, Advance,
                           RenderRoom, Goto
<1>11. ASSUME pc'[r] = "top" PROVE params_write_idx' - params_read_idx'[r] = 0
  BY <1>4, <1>11 DEF Render, RenderTop, RenderWoken, RenderTest, Triangled, Advance,
                     RenderRoom, Goto, PARAM_EMPTY, PARAM_ENTRIES
<1>12. ASSUME NEW q \in Thread, pc'[q] \in {"top", "sleep"} \/ q # r
       PROVE  params_read_idx'[q] = params_read_idx[q]
  BY <1>4, <1>12 DEF Render, RenderTop, RenderWoken, RenderTest, Triangled, Advance,
                     RenderRoom, Goto, WakeInv, Inv
<1>13. Noticed'
  <2> SUFFICES ASSUME NEW q \in Thread, PARAM_ENTRIES(q)' > 0, pc'[q] \in {"top", "sleep"}
               PROVE  wake_render_thread'[q] \/ (client = "wake" /\ PARAM_ENTRIES(q)' = 1)
    BY <1>2 DEF Noticed
  <2>1. PARAM_ENTRIES(q)' = PARAM_ENTRIES(q) BY <1>2, <1>12 DEF PARAM_ENTRIES
  <2>2. pc[q] \in {"top", "sleep"}
    <3>1. CASE q # r BY <1>3, <1>4, <3>1
    <3>2. CASE q = r BY <1>10, <1>11, <3>2 DEF PARAM_ENTRIES
    <3> QED BY <3>1, <3>2
  <2> QED BY <1>7, <2>1, <2>2 DEF WakeInv, Noticed
<1>14. RoomTold'
  <2> SUFFICES ASSUME client = "sleep", ~ render_not_full_event'[at] PROVE Goes(at)'
    BY <1>2 DEF RoomTold
  <2>1. at \in Thread /\ render_thread_run[at]
    BY RenderAssumption DEF WakeInv, Places, Thread, EndTold
  <2>2. Goes(at) BY <1>8, <2>1 DEF WakeInv, RoomTold
  <2>3. CASE at = r BY <1>2, <1>6, <1>10, <2>1, <2>3 DEF Goes
  <2>4. CASE at # r BY <1>2, <1>3, <1>4, <1>7, <2>1, <2>2, <2>4 DEF Goes
  <2> QED BY <2>3, <2>4
<1>15. EndTold'
  <2>1. ASSUME client = "join"
        PROVE  ~ render_thread_run[at] /\ (pc'[at] = "sleep" => wake_render_thread'[at])
    <3>1. at \in Thread BY <2>1, RenderAssumption DEF WakeInv, Places, Thread
    <3>2. ~ render_thread_run[at] /\ (pc[at] = "sleep" => wake_render_thread[at])
      BY <2>1 DEF WakeInv, EndTold
    <3>3. CASE at = r BY <1>10, <3>2, <3>3
    <3>4. CASE at # r BY <1>3, <1>4, <1>7, <3>1, <3>2, <3>4
    <3> QED BY <3>3, <3>4
  <2>2. ASSUME NEW q \in Thread
        PROVE  /\ pc'[q] = "ended" => ~ render_thread_run[q]
               /\ ~ render_thread_run[q] => client \in {"close", "join", "closed"}
    <3>1. CASE q = r BY <1>6, <3>1 DEF WakeInv, EndTold
    <3>2. CASE q # r BY <1>3, <1>4, <3>2 DEF WakeInv, EndTold
    <3> QED BY <3>1, <3>2
  <2> QED BY <1>2, <2>1, <2>2 DEF EndTold
<1>16. Places'
  <2>1. ASSUME NEW q \in Thread, pc[q] = "ended" PROVE pc'[q] = "ended"
    BY <1>3, <1>4, <1>6, <2>1
  <2> QED BY <1>2, <2>1 DEF WakeInv, Places
<1> QED BY <1>1, <1>9, <1>13, <1>14, <1>15, <1>16 DEF WakeInv

LEMMA NextWake == WakeInv /\ [Next]_vars => WakeInv'
<1> SUFFICES ASSUME WakeInv, [Next]_vars PROVE WakeInv' OBVIOUS
<1>1. CASE UNCHANGED vars
  <2>1. Inv' BY <1>1, Stutter DEF WakeInv
  <2> QED BY <1>1, <2>1 DEF vars, mine, their, ring, WakeInv, Flags, Noticed, RoomTold,
                            EndTold, Places, Goes, PARAM_ENTRIES
<1> QED BY <1>1, ClientWake, RenderWake DEF Next

(* No wake-up of the render threads or of the FIFO thread is lost: a       *)
(* render thread sleeps unwoken only with an empty ring, or while the FIFO *)
(* thread, which has just stored the triangle, is about to wake it; the    *)
(* FIFO thread waits for room, without a time limit, only while the event  *)
(* is set or the thread it waits for is running and will set it;           *)
(* voodoo_card_close() joins only threads that have been woken to end, and *)
(* goes on to free the card only when all have ended.                      *)
THEOREM RenderNoWakeUpLost == Spec => []NoWakeUpLost
<1>1. WakeInv => NoWakeUpLost
  <2> SUFFICES ASSUME WakeInv PROVE NoWakeUpLost OBVIOUS
  <2>1. ASSUME NEW r \in Thread, pc[r] = "sleep", ~ wake_render_thread[r]
        PROVE  PARAM_EMPTY(r) \/ (client = "wake" /\ PARAM_ENTRIES(r) < WakeBelow)
    <3>1. PARAM_ENTRIES(r) \in Nat BY DEF WakeInv, Inv, Behind, PARAM_ENTRIES
    <3>2. PARAM_ENTRIES(r) > 0 => client = "wake" /\ PARAM_ENTRIES(r) = 1
      BY <2>1 DEF WakeInv, Noticed
    <3> QED BY <3>1, <3>2, RenderAssumption DEF PARAM_EMPTY
  <2>2. client = "sleep" => render_not_full_event[at] \/ Goes(at) BY DEF WakeInv, RoomTold
  <2>3. client = "join" => pc[at] = "ended" \/ Goes(at) BY DEF WakeInv, EndTold, Goes
  <2>4. client = "closed" => \A r \in Thread : pc[r] = "ended"
    BY RenderAssumption DEF WakeInv, Places, Thread
  <2> QED BY <2>1, <2>2, <2>3, <2>4 DEF NoWakeUpLost
<1> QED BY <1>1, WakeInit, NextWake, PTL DEF Spec
=============================================================================
