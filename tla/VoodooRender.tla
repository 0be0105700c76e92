----------------------------- MODULE VoodooRender -----------------------------
(***************************************************************************)
(* The render threads of a 3dfx Voodoo card: src/video/vid_voodoo_render.c *)
(* and the texture cache of vid_voodoo_texture.c.                          *)
(*                                                                         *)
(* The FIFO thread puts triangles into a ring that one, two or four render *)
(* threads read, each at its own pace: every thread draws every triangle,  *)
(* in its own lines of the picture.  A triangle names its texture by an    *)
(* entry of a cache, which holds a copy of a part of texture memory.  The  *)
(* entry must not be given to another texture before all threads are past  *)
(* the triangle; refcount counts the triangles that were given the entry,  *)
(* refcount_r the ones each thread is past.                                *)
(***************************************************************************)
EXTENDS Integers, Sequences, FiniteSets, FiniteSetsExt

CONSTANTS
    render_threads,     \* 1, 2 or 4
    PARAM_SIZE,         \* triangles in the ring
    RoomMargin,         \* 10 of 1024: a fuller ring tells that it has room
    WakeBelow,          \* 4: a ring emptier than this wakes its threads
    TEX_CACHE_MAX,      \* entries of the texture cache
    Textures,           \* textures in texture memory, apart from each other
    MaxTris, MaxWrites  \* bounds: triangles, and writes to texture memory

NoBase == "-1"     \* the base of an entry that holds no texture

ASSUME RenderAssumption ==
    /\ render_threads \in {1, 2, 4}
    /\ PARAM_SIZE \in Nat \ {0} /\ TEX_CACHE_MAX \in Nat \ {0}
    /\ RoomMargin \in Nat /\ WakeBelow \in Nat \ {0, 1}
    /\ MaxTris \in Nat /\ MaxWrites \in Nat
    /\ NoBase \notin Textures

Thread == 0 .. render_threads - 1
Entry  == 0 .. TEX_CACHE_MAX - 1
Slot   == 0 .. PARAM_SIZE - 1
VARIABLES
    client,         \* where the FIFO thread is
    at,             \* the render thread it is looking at
    after,          \* what it does once the render threads are idle
    want,           \* the texture of the triangle, or the one it writes
    tex_entry,      \* the cache entry of the triangle
    tex_mem,        \* how often each texture was written
    base, data,     \* of every cache entry: whose texture, and the copy
    refcount, refcount_r,
    texture_last_removed,
    params_buffer,  \* the cache entry of the triangle in each slot
    params_write_idx, params_read_idx,
    pc,             \* where each render thread is
    wake_render_thread, render_not_full_event, render_voodoo_busy, render_thread_run,
    owed            \* history: the textures of the triangles each has to draw

cache == <<base, data, refcount, texture_last_removed>>
ring  == <<params_buffer, params_write_idx>>
mine  == <<at, after, want, tex_entry, tex_mem>>
their == <<pc, params_read_idx, refcount_r, render_voodoo_busy, owed>>
vars  == <<client, mine, cache, ring, their, wake_render_thread, render_not_full_event,
           render_thread_run>>

PARAM_ENTRIES(r) == params_write_idx - params_read_idx[r]
PARAM_FULL(r)    == PARAM_ENTRIES(r) >= PARAM_SIZE
PARAM_EMPTY(r)   == PARAM_ENTRIES(r) = 0

Init ==
    /\ client = "ready" /\ at = 0 /\ after = "ready" /\ want = NoBase /\ tex_entry = 0
    /\ tex_mem = [t \in Textures |-> 0]
    /\ base = [c \in Entry |-> NoBase] /\ data = [c \in Entry |-> <<NoBase, 0>>]
    /\ refcount = [c \in Entry |-> 0]
    /\ refcount_r = [c \in Entry |-> [r \in Thread |-> 0]]
    /\ texture_last_removed = 0
    /\ params_buffer = [s \in Slot |-> 0] /\ params_write_idx = 0
    /\ params_read_idx = [r \in Thread |-> 0]
    /\ pc = [r \in Thread |-> "top"] /\ owed = [r \in Thread |-> <<>>]
    /\ wake_render_thread = [r \in Thread |-> FALSE]
    /\ render_not_full_event = [r \in Thread |-> FALSE]
    /\ render_voodoo_busy = [r \in Thread |-> FALSE]
    /\ render_thread_run = [r \in Thread |-> TRUE]

-----------------------------------------------------------------------------
(* voodoo_wait_for_render_thread_idle(): test, wake all, wait for a        *)
(* millisecond, and again.  The waiting thread is the only one that        *)
(* submits, so a ring found empty stays empty.                             *)
Idle == \A r \in Thread : PARAM_EMPTY(r) /\ ~ render_voodoo_busy[r]

WaitIdle ==
    /\ client = "idle"
    /\ IF Idle
       THEN client' = after /\ after' = "ready" /\ UNCHANGED wake_render_thread
       ELSE UNCHANGED <<client, after>> /\ wake_render_thread' = [r \in Thread |-> TRUE]
    /\ UNCHANGED <<at, want, tex_entry, tex_mem, cache, ring, their, render_not_full_event,
                   render_thread_run>>

(* The FIFO thread needs the frame buffer. *)
NeedIdle ==
    /\ client = "ready"
    /\ client' = "idle"
    /\ UNCHANGED <<mine, cache, ring, their, wake_render_thread,
                   render_not_full_event, render_thread_run>>

-----------------------------------------------------------------------------
(* voodoo_queue_triangle(): while the ring of any thread is full ... *)
Triangle(t) ==
    /\ client = "ready" /\ params_write_idx < MaxTris
    /\ client' = "full" /\ want' = t
    /\ UNCHANGED <<at, after, tex_entry, tex_mem, cache, ring, their, wake_render_thread,
                   render_not_full_event, render_thread_run>>

(* Seeded fault: waits only if the rings of all threads are full. *)
FullTestAll ==
    /\ client = "full"
    /\ IF \A r \in Thread : PARAM_FULL(r)
       THEN /\ client' = "room"
            /\ render_not_full_event' = [r \in Thread |-> FALSE]
       ELSE client' = "texture" /\ UNCHANGED render_not_full_event
    /\ UNCHANGED <<mine, cache, ring, their, wake_render_thread,
                   render_thread_run>>

FullTest ==
    /\ client = "full"
    /\ IF \E r \in Thread : PARAM_FULL(r)
       THEN /\ client' = "room"
            /\ render_not_full_event' = [r \in Thread |-> FALSE]
       ELSE client' = "texture" /\ UNCHANGED render_not_full_event
    /\ UNCHANGED <<mine, cache, ring, their, wake_render_thread,
                   render_thread_run>>

(* ... wait, without a time limit, for each thread whose ring is full, ... *)
RoomTest ==
    /\ client = "room"
    /\ IF at = render_threads THEN client' = "full" /\ at' = 0
       ELSE IF PARAM_FULL(at) THEN client' = "sleep" /\ UNCHANGED at
       ELSE UNCHANGED client /\ at' = at + 1
    /\ UNCHANGED <<after, want, tex_entry, tex_mem, cache, ring, their, wake_render_thread,
                   render_not_full_event, render_thread_run>>

RoomSleep ==
    /\ client = "sleep" /\ render_not_full_event[at]
    /\ client' = "room" /\ at' = at + 1
    /\ UNCHANGED <<after, want, tex_entry, tex_mem, cache, ring, their, wake_render_thread,
                   render_not_full_event, render_thread_run>>

(* ... voodoo_use_texture(): the texture is in the cache, ... *)
TextureHit ==
    /\ client = "texture"
    /\ \E c \in Entry :
        /\ base[c] = want /\ \A d \in 0 .. c - 1 : base[d] # want
        /\ tex_entry' = c
        /\ refcount' = [refcount EXCEPT ![c] = @ + 1]
    /\ client' = "store"
    /\ UNCHANGED <<at, after, want, tex_mem, base, data, texture_last_removed, ring, their,
                   wake_render_thread, render_not_full_event, render_thread_run>>

(* ... or replaces the next one that is not in use ... *)
(* Seeded fault: looks at the first thread only. *)
UnusedByFirst(c) == refcount[c] = refcount_r[c][0]

Unused(c) == \A r \in Thread \cap {0, 1} : refcount[c] = refcount_r[c][r]

Candidates == [i \in 1 .. TEX_CACHE_MAX |-> (texture_last_removed + i) % TEX_CACHE_MAX]

TextureMiss ==
    /\ client = "texture" /\ \A c \in Entry : base[c] # want
    /\ \E i \in 1 .. TEX_CACHE_MAX :
        LET c == Candidates[i] IN
        /\ Unused(c) /\ \A j \in 1 .. i - 1 : ~ Unused(Candidates[j])
        /\ texture_last_removed' = c /\ tex_entry' = c
        /\ base' = [base EXCEPT ![c] = want]
        /\ data' = [data EXCEPT ![c] = <<want, tex_mem[want]>>]
        /\ refcount' = [refcount EXCEPT ![c] = @ + 1]
    /\ client' = "store"
    /\ UNCHANGED <<at, after, want, tex_mem, ring, their, wake_render_thread,
                   render_not_full_event, render_thread_run>>

(* ... once there is one ... *)
TextureWait ==
    /\ client = "texture" /\ \A c \in Entry : base[c] # want /\ ~ Unused(c)
    /\ client' = "idle" /\ after' = "texture"
    /\ UNCHANGED <<at, want, tex_entry, tex_mem, cache, ring, their, wake_render_thread,
                   render_not_full_event, render_thread_run>>

(* ... and the triangle goes into the ring, ... *)
Store ==
    /\ client = "store"
    /\ client' = "wake"
    /\ params_buffer' = [params_buffer EXCEPT ![params_write_idx % PARAM_SIZE] = tex_entry]
    /\ params_write_idx' = params_write_idx + 1
    /\ owed' = [r \in Thread |-> Append(owed[r], <<want, tex_mem[want]>>)]
    /\ want' = NoBase /\ tex_entry' = 0
    /\ UNCHANGED <<at, after, tex_mem, cache, pc, params_read_idx, refcount_r,
                   render_voodoo_busy, wake_render_thread, render_not_full_event,
                   render_thread_run>>

(* ... and the threads are woken if one of them has little left to do. *)
(* Seeded fault: the threads are only woken if all have little left. *)
WakeAll ==
    /\ client = "wake"
    /\ client' = "ready"
    /\ wake_render_thread' = IF \A r \in Thread : PARAM_ENTRIES(r) < WakeBelow
                             THEN [r \in Thread |-> TRUE] ELSE wake_render_thread
    /\ UNCHANGED <<mine, cache, ring, their, render_not_full_event, render_thread_run>>

Wake ==
    /\ client = "wake"
    /\ client' = "ready"
    /\ wake_render_thread' = IF \E r \in Thread : PARAM_ENTRIES(r) < WakeBelow
                             THEN [r \in Thread |-> TRUE] ELSE wake_render_thread
    /\ UNCHANGED <<mine, cache, ring, their, render_not_full_event, render_thread_run>>

-----------------------------------------------------------------------------
(* voodoo_tex_writel(): flush_texture_cache() takes the texture out of the *)
(* cache, and waits if it is in use.                                       *)
InUse(c) ==
    \E r \in IF render_threads = 2 THEN {0, 1} ELSE {0} : refcount[c] # refcount_r[c][r]

WriteTexture(t) ==
    /\ client = "ready" /\ MapThenSumSet(LAMBDA u : tex_mem[u], Textures) < MaxWrites
    /\ want' = t
    /\ base' = [c \in Entry |-> IF base[c] = t THEN NoBase ELSE base[c]]
    /\ IF \E c \in Entry : base[c] = t /\ InUse(c)
       THEN client' = "idle" /\ after' = "write"
       ELSE client' = "write" /\ UNCHANGED after
    /\ UNCHANGED <<at, tex_entry, tex_mem, data, refcount, texture_last_removed, ring, their,
                   wake_render_thread, render_not_full_event, render_thread_run>>

WriteDone ==
    /\ client = "write"
    /\ client' = "ready"
    /\ tex_mem' = [tex_mem EXCEPT ![want] = @ + 1] /\ want' = NoBase
    /\ UNCHANGED <<at, after, tex_entry, cache, ring, their, wake_render_thread,
                   render_not_full_event, render_thread_run>>

-----------------------------------------------------------------------------
(* voodoo_card_close(), when the FIFO thread has ended: each thread is     *)
(* told to end, woken and waited for.                                      *)
Close ==
    /\ client = "ready"
    /\ client' = "close"
    /\ UNCHANGED <<mine, cache, ring, their, wake_render_thread,
                   render_not_full_event, render_thread_run>>

CloseThread ==
    /\ client = "close" /\ at < render_threads
    /\ client' = "join"
    /\ render_thread_run' = [render_thread_run EXCEPT ![at] = FALSE]
    /\ wake_render_thread' = [wake_render_thread EXCEPT ![at] = TRUE]
    /\ UNCHANGED <<mine, cache, ring, their, render_not_full_event>>

CloseJoin ==
    /\ client = "join" /\ pc[at] = "ended"
    /\ client' = IF at + 1 = render_threads THEN "closed" ELSE "close"
    /\ at' = at + 1
    /\ UNCHANGED <<after, want, tex_entry, tex_mem, cache, ring, their, wake_render_thread,
                   render_not_full_event, render_thread_run>>

Gone == client = "closed" /\ UNCHANGED vars

-----------------------------------------------------------------------------
(* render_thread(). *)
Goto(r, l) == pc' = [pc EXCEPT ![r] = l]

RenderTop(r) ==
    /\ pc[r] = "top"
    /\ render_voodoo_busy' = [render_voodoo_busy EXCEPT ![r] = FALSE]
    /\ IF render_thread_run[r]
       THEN Goto(r, "sleep") /\ render_not_full_event' = [render_not_full_event EXCEPT ![r] = TRUE]
       ELSE Goto(r, "ended") /\ UNCHANGED render_not_full_event
    /\ UNCHANGED <<client, mine, cache, ring, params_read_idx, refcount_r, owed,
                   wake_render_thread, render_thread_run>>

(* The wait for the event, its reset, and the flag.  (Setting it between   *)
(* the end of the wait and the reset is as good as setting it before.)     *)
RenderWoken(r) ==
    /\ pc[r] = "sleep" /\ wake_render_thread[r]
    /\ Goto(r, "test")
    /\ wake_render_thread' = [wake_render_thread EXCEPT ![r] = FALSE]
    /\ render_voodoo_busy' = [render_voodoo_busy EXCEPT ![r] = TRUE]
    /\ UNCHANGED <<client, mine, cache, ring, params_read_idx, refcount_r, owed,
                   render_not_full_event, render_thread_run>>

RenderTest(r) ==
    /\ pc[r] = "test"
    /\ Goto(r, IF PARAM_EMPTY(r) THEN "top" ELSE "draw")
    /\ UNCHANGED <<client, mine, cache, ring, params_read_idx, refcount_r, owed, render_voodoo_busy,
                   wake_render_thread, render_not_full_event, render_thread_run>>

(* voodoo_triangle() is done with the texture when it returns ... *)
Triangled(r) ==
    /\ pc[r] = "draw"
    /\ Goto(r, "drawn")
    /\ LET c == params_buffer[params_read_idx[r] % PARAM_SIZE]
       IN refcount_r' = [refcount_r EXCEPT ![c][r] = @ + 1]
    /\ owed' = [owed EXCEPT ![r] = Tail(@)]
    /\ UNCHANGED <<client, mine, cache, ring, params_read_idx, render_voodoo_busy,
                   wake_render_thread, render_not_full_event, render_thread_run>>

(* ... and the slot is given back. *)
Advance(r) ==
    /\ pc[r] = "drawn"
    /\ Goto(r, "room")
    /\ params_read_idx' = [params_read_idx EXCEPT ![r] = @ + 1]
    /\ UNCHANGED <<client, mine, cache, ring, refcount_r, owed, render_voodoo_busy,
                   wake_render_thread, render_not_full_event, render_thread_run>>

RenderRoom(r) ==
    /\ pc[r] = "room"
    /\ Goto(r, "test")
    /\ render_not_full_event' =
        [render_not_full_event EXCEPT ![r] = @ \/ PARAM_ENTRIES(r) > PARAM_SIZE - RoomMargin]
    /\ UNCHANGED <<client, mine, cache, ring, params_read_idx, refcount_r, owed, render_voodoo_busy,
                   wake_render_thread, render_thread_run>>

Render(r) ==
    \/ RenderTop(r) \/ RenderWoken(r) \/ RenderTest(r)
    \/ Triangled(r) \/ Advance(r) \/ RenderRoom(r)

(* What the FIFO thread has begun. *)
ClientGoesOn ==
    \/ WaitIdle \/ FullTest \/ RoomTest \/ RoomSleep
    \/ TextureHit \/ TextureMiss \/ TextureWait \/ Store \/ Wake \/ WriteDone
    \/ CloseThread \/ CloseJoin

Next ==
    \/ NeedIdle \/ (\E t \in Textures : Triangle(t) \/ WriteTexture(t)) \/ Close
    \/ ClientGoesOn \/ Gone
    \/ \E r \in Thread : Render(r)

Spec == Init /\ [][Next]_vars

(* All threads are scheduled. *)
FairSpec == Spec /\ WF_vars(ClientGoesOn) /\ \A r \in Thread : WF_vars(Render(r))

-----------------------------------------------------------------------------
(* The next triangle that thread r has to draw, by its number. *)
Drawing(r) == IF pc[r] = "drawn" THEN params_read_idx[r] + 1 ELSE params_read_idx[r]

(* Every thread draws every triangle with the texture it was submitted     *)
(* with: neither its slot nor its cache entry is given away before, and    *)
(* a texture that was written to is not taken from an old copy.            *)
TextureKept ==
    \A r \in Thread : \A i \in 1 .. Len(owed[r]) :
        data[params_buffer[(Drawing(r) + i - 1) % PARAM_SIZE]] = owed[r][i]

(* The threads and the ring implement what VoodooFifo relies on: triangles *)
(* are submitted while every thread's ring has room, and one is drawn when *)
(* the last thread has drawn it, however far apart the threads are.        *)
Left == Max({PARAM_ENTRIES(r) : r \in Thread})
Triangles == INSTANCE VoodooTriangles WITH tris <- Left
ImplementsTriangles == Triangles!TrianglesSpec

(* No wake-up is lost and waiting ends: triangles are drawn, unless the    *)
(* card is closed first; there is room in the ring some time, though the   *)
(* wait for it has no time limit and the waiter itself resets the event;   *)
(* and the threads end.                                                    *)
WaitsEnd ==
    /\ Left > 0 ~> Left = 0 \/ client \in {"close", "join", "closed"}
    /\ client = "full" ~> client = "texture"
    /\ client = "close" ~> client = "closed"
==============================================================================
