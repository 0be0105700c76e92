------------------------------ MODULE VoodooFifo ------------------------------
(***************************************************************************)
(* The command FIFO of a 3dfx Voodoo card: src/video/vid_voodoo.c,         *)
(* vid_voodoo_fifo.c, vid_voodoo_reg.c and vid_voodoo_display.c.           *)
(*                                                                         *)
(* The CPU thread puts the guest's writes into a ring; the FIFO thread     *)
(* takes them out, hands triangles to the render threads (VoodooTriangles) *)
(* and swaps buffers.  It sleeps on an event that is set late, by a timer  *)
(* of the CPU thread, so that writes gather; a buffer swap sleeps on the   *)
(* same event until the retrace, another timer of the CPU thread, or until *)
(* the CPU thread waits for the FIFO itself.                               *)
(*                                                                         *)
(* A single card with its own FIFO; the guest draws into the back buffer.  *)
(***************************************************************************)
EXTENDS VoodooTriangles, Sequences

CONSTANTS
    FIFO_SIZE,      \* entries of the ring
    Margin,         \* entries that are kept free, 4 of 65536
    Level,          \* 0xe000 of 65536: fuller, and the other side is told
    TripleModes,    \* the values of TRIPLE_BUFFER
    Writes,         \* what the guest writes
    MaxWrites       \* bound: how often it writes

(* What the guest writes.  A swap waits for the retrace, a flip does not.  *)
(* A register or a pixel only goes into the ring; the others are counted   *)
(* as commands and get the FIFO thread going.                              *)
Swaps    == {"swap", "flip"}
Commands == {"triangle", "fill"} \cup Swaps
Kinds    == Commands \cup {"register", "pixel"}
None     == "none"

ASSUME FifoAssumption ==
    /\ FIFO_SIZE \in Nat /\ Margin \in 1 .. FIFO_SIZE - 2
    /\ Level \in 1 .. FIFO_SIZE - Margin
    /\ TripleModes \subseteq BOOLEAN /\ Writes \subseteq Kinds /\ MaxWrites \in Nat

(* FIFO_WRITEL_FB or FIFO_WRITEL_REG. *)
Type(w) == IF w = "pixel" THEN "FB" ELSE "REG"

VARIABLES
    fifo,           \* the entries from fifo_read_idx to fifo_write_idx
    writes,         \* how often the guest has written
    cpu, arg,       \* where the CPU thread is, and what it is writing
    thread,         \* where the FIFO thread is
    wake_fifo_thread, fifo_not_full_event,  \* events
    wake_timer,     \* the timer is enabled
    voodoo_busy, flush, fifo_thread_run,    \* flags
    uncounted,      \* cmd_written - cmd_read
    swap_count, swap_pending, swap_offset,
    front_offset,   \* the buffer on the screen
    disp_buffer, draw_buffer,   \* what the next swap shows; where is drawn
    triple,         \* TRIPLE_BUFFER
    target,         \* the buffer the triangles at hand are drawn into
    unswapped,      \* history: swaps the guest wrote that were not yet done
    overtaken,      \* history: a flip was done while a swap was pending
    twice           \* history: how often a swap was taken off swap_count again

idx    == <<fifo, uncounted, writes>>
events == <<wake_fifo_thread, fifo_not_full_event, wake_timer>>
flags  == <<voodoo_busy, flush, fifo_thread_run>>
swap   == <<swap_count, swap_pending, swap_offset, front_offset, unswapped, overtaken,
            twice>>
draw   == <<disp_buffer, draw_buffer, triple, tris, target>>
vars   == <<idx, cpu, arg, thread, events, flags, swap, draw>>

FIFO_FULL  == Len(fifo) >= FIFO_SIZE - Margin
FIFO_EMPTY == fifo = <<>>

Init ==
    /\ fifo = <<>> /\ uncounted = 0 /\ writes = 0
    /\ cpu = "run" /\ arg = None /\ thread = "top"
    /\ wake_fifo_thread = FALSE /\ fifo_not_full_event = FALSE /\ wake_timer = FALSE
    /\ voodoo_busy = FALSE /\ flush = FALSE /\ fifo_thread_run = TRUE
    /\ swap_count = 0 /\ swap_pending = FALSE /\ swap_offset = 0 /\ front_offset = 0
    /\ unswapped = 0 /\ overtaken = FALSE /\ twice = 0
    /\ disp_buffer = 0 /\ draw_buffer = 1 /\ triple \in TripleModes
    /\ NoneLeft /\ target = 1

-----------------------------------------------------------------------------
(* The CPU thread: voodoo_writel() and voodoo_writew().                    *)

Write(w) ==
    /\ cpu = "run" /\ writes < MaxWrites
    /\ cpu' = "queue" /\ arg' = w /\ writes' = writes + 1
    /\ uncounted' = IF w \in Commands THEN uncounted + 1 ELSE uncounted
    /\ IF w \in Swaps
       THEN swap_count' = swap_count + 1 /\ unswapped' = unswapped + 1
       ELSE UNCHANGED <<swap_count, unswapped>>
    /\ UNCHANGED <<fifo, thread, events, flags, swap_pending, swap_offset,
                   front_offset, overtaken, twice, draw>>

(* voodoo_queue_command(): "while (FIFO_FULL)" ... *)
QueueTest ==
    /\ cpu = "queue"
    /\ cpu' = IF FIFO_FULL THEN "reset" ELSE "store"
    /\ UNCHANGED <<idx, arg, thread, events, flags, swap, draw>>

QueueReset ==
    /\ cpu = "reset"
    /\ cpu' = "retest"
    /\ fifo_not_full_event' = FALSE
    /\ UNCHANGED <<idx, arg, thread, wake_fifo_thread, wake_timer, flags, swap, draw>>

QueueRetest ==
    /\ cpu = "retest"
    /\ cpu' = IF FIFO_FULL THEN "wait" ELSE "queue"
    /\ UNCHANGED <<idx, arg, thread, events, flags, swap, draw>>

(* ... waits for the event or for a millisecond ... *)
QueueWait ==
    /\ cpu = "wait"
    /\ cpu' = "queue"
    /\ wake_fifo_thread' = (wake_fifo_thread \/ FIFO_FULL)
    /\ UNCHANGED <<idx, arg, thread, fifo_not_full_event, wake_timer, flags, swap, draw>>

(* ... stores the entry and moves fifo_write_idx on ... *)
QueueStore ==
    /\ cpu = "store"
    /\ cpu' = "level"
    /\ fifo' = Append(fifo, arg)
    /\ UNCHANGED <<uncounted, writes, arg, thread, events, flags, swap, draw>>

(* ... and arms the timer if the ring is filling up, ... *)
QueueLevel ==
    /\ cpu = "level"
    /\ cpu' = IF arg \in Commands THEN "kick" ELSE "run"
    /\ arg' = IF arg \in Commands THEN arg ELSE None
    /\ wake_timer' = (wake_timer \/ Len(fifo) > Level)
    /\ UNCHANGED <<idx, thread, wake_fifo_thread, fifo_not_full_event, flags, swap, draw>>

(* ... and voodoo_writel() arms it for a command, if the thread is idle.   *)
WriteKick ==
    /\ cpu = "kick"
    /\ cpu' = "run" /\ arg' = None
    /\ wake_timer' = (wake_timer \/ ~ voodoo_busy)
    /\ UNCHANGED <<idx, thread, wake_fifo_thread, fifo_not_full_event, flags, swap, draw>>

(* Seeded fault: reading the status does not get the FIFO thread going. *)
ReadStatusOnly == cpu = "run" /\ UNCHANGED vars

(* voodoo_readl() of the status register. *)
ReadStatus ==
    /\ cpu = "run"
    /\ wake_timer' = (wake_timer \/ ~ voodoo_busy)
    /\ UNCHANGED <<idx, cpu, arg, thread, wake_fifo_thread, fifo_not_full_event, flags,
                   swap, draw>>

(* voodoo_readl() of another register or of the frame buffer:              *)
(* voodoo_flush(), and then the read.                                      *)
Flush ==
    /\ cpu = "run"
    /\ cpu' = "flush" /\ flush' = TRUE
    /\ UNCHANGED <<idx, arg, thread, events, voodoo_busy, fifo_thread_run, swap, draw>>

FlushTest ==
    /\ cpu = "flush"
    /\ cpu' = IF FIFO_EMPTY THEN "flush idle" ELSE "flush wake"
    /\ UNCHANGED <<idx, arg, thread, events, flags, swap, draw>>

FlushWake ==
    /\ cpu = "flush wake"
    /\ cpu' = "flush"
    /\ wake_fifo_thread' = TRUE
    /\ UNCHANGED <<idx, arg, thread, fifo_not_full_event, wake_timer, flags, swap, draw>>

FlushIdle ==
    /\ cpu = "flush idle" /\ NoneLeft
    /\ cpu' = "read" /\ flush' = FALSE
    /\ UNCHANGED <<idx, arg, thread, events, voodoo_busy, fifo_thread_run, swap, draw>>

Read ==
    /\ cpu = "read"
    /\ cpu' = "run"
    /\ UNCHANGED <<idx, arg, thread, events, flags, swap, draw>>

-----------------------------------------------------------------------------
(* Timers of the CPU thread, between two instructions. *)

voodoo_wake_timer ==
    /\ cpu = "run" /\ wake_timer
    /\ wake_timer' = FALSE /\ wake_fifo_thread' = TRUE
    /\ UNCHANGED <<idx, cpu, arg, thread, fifo_not_full_event, flags, swap, draw>>

(* "if (voodoo->swap_count > 0) voodoo->swap_count--" *)
SwapDone == swap_count' = IF swap_count > 0 THEN swap_count - 1 ELSE 0

(* voodoo_callback() in the last line, when swap_interval retraces have    *)
(* passed: the swap under swap_mutex, and the wake-up after it.            *)
Retrace ==
    /\ cpu = "run" /\ swap_pending
    /\ cpu' = "retrace"
    /\ front_offset' = swap_offset /\ swap_pending' = FALSE
    /\ SwapDone /\ unswapped' = unswapped - 1
    /\ UNCHANGED <<idx, arg, thread, events, flags, swap_offset, overtaken, twice, draw>>

RetraceWake ==
    /\ cpu = "retrace"
    /\ cpu' = "run"
    /\ wake_fifo_thread' = TRUE
    /\ UNCHANGED <<idx, arg, thread, fifo_not_full_event, wake_timer, flags, swap, draw>>

-----------------------------------------------------------------------------
(* voodoo_card_close(), after timer_close(): no timer runs any more. *)

voodoo_card_close ==
    /\ cpu = "run"
    /\ cpu' = "close" /\ fifo_thread_run' = FALSE
    /\ UNCHANGED <<idx, arg, thread, events, voodoo_busy, flush, swap, draw>>

CloseWake ==
    /\ cpu = "close"
    /\ cpu' = "join"
    /\ wake_fifo_thread' = TRUE
    /\ UNCHANGED <<idx, arg, thread, fifo_not_full_event, wake_timer, flags, swap, draw>>

CloseJoin ==
    /\ cpu = "join" /\ thread = "ended"
    /\ cpu' = "closed"
    /\ UNCHANGED <<idx, arg, thread, events, flags, swap, draw>>

-----------------------------------------------------------------------------
(* voodoo_fifo_thread(). *)

ThreadTop ==
    /\ thread = "top"
    /\ IF fifo_thread_run
       THEN thread' = "sleep" /\ fifo_not_full_event' = TRUE
       ELSE thread' = "ended" /\ UNCHANGED fifo_not_full_event
    /\ UNCHANGED <<idx, cpu, arg, wake_fifo_thread, wake_timer, flags, swap, draw>>

(* Two places wait for the event and then reset it: this loop, and         *)
(* voodoo_wait_for_swap_complete().                                        *)
ThreadSleep ==
    /\ wake_fifo_thread
    /\ \/ thread = "sleep" /\ thread' = "woken"
       \/ thread = "swap sleep" /\ thread' = "swap woken"
    /\ UNCHANGED <<idx, cpu, arg, events, flags, swap, draw>>

ThreadWoken ==
    /\ \/ thread = "woken" /\ thread' = "begin"
       \/ thread = "swap woken" /\ thread' = "swap lock"
    /\ wake_fifo_thread' = FALSE
    /\ UNCHANGED <<idx, cpu, arg, fifo_not_full_event, wake_timer, flags, swap, draw>>

ThreadBegin ==
    /\ thread = "begin"
    /\ thread' = "test"
    /\ voodoo_busy' = TRUE
    /\ UNCHANGED <<idx, cpu, arg, events, flush, fifo_thread_run, swap, draw>>

ThreadEnd ==
    /\ thread = "end"
    /\ thread' = "top"
    /\ voodoo_busy' = FALSE
    /\ UNCHANGED <<idx, cpu, arg, events, flush, fifo_thread_run, swap, draw>>

(* An entry is begun: a swap exchanges the buffers at once, and whoever    *)
(* needs the frame buffer waits for the render threads.                    *)
NextBuffer(b) == IF triple THEN (b + 1) % 3 ELSE 1 - b

(* Seeded fault: a swap does not wait for the render threads. *)
BeginAtOnce ==
    /\ thread' = IF Head(fifo) \in {"fill", "pixel"} THEN "idle" ELSE "exec"
    /\ IF Head(fifo) \in Swaps
       THEN /\ disp_buffer' = NextBuffer(disp_buffer)
            /\ draw_buffer' = NextBuffer(draw_buffer)
       ELSE UNCHANGED <<disp_buffer, draw_buffer>>

Begin ==
    /\ thread' = IF Head(fifo) \in {"triangle", "register"} THEN "exec" ELSE "idle"
    /\ IF Head(fifo) \in Swaps
       THEN /\ disp_buffer' = NextBuffer(disp_buffer)
            /\ draw_buffer' = NextBuffer(draw_buffer)
       ELSE UNCHANGED <<disp_buffer, draw_buffer>>

(* "while (!FIFO_EMPTY)" *)
ThreadTest ==
    /\ thread = "test"
    /\ IF FIFO_EMPTY
       THEN thread' = "end" /\ UNCHANGED <<disp_buffer, draw_buffer>>
       ELSE Begin
    /\ UNCHANGED <<idx, cpu, arg, events, flags, swap, triple, tris, target>>

WaitIdle ==
    /\ thread = "idle" /\ NoneLeft
    /\ thread' = "exec"
    /\ UNCHANGED <<idx, cpu, arg, events, flags, swap, draw>>

(* voodoo_queue_triangle(). *)
ExecTriangle ==
    /\ thread = "exec" /\ Head(fifo) = "triangle"
    /\ thread' = "count"
    /\ Submit /\ target' = draw_buffer
    /\ UNCHANGED <<idx, cpu, arg, events, flags, swap, disp_buffer, draw_buffer, triple>>

(* The FIFO thread draws into the frame buffer itself, or sets a register. *)
ExecOther ==
    /\ thread = "exec" /\ Head(fifo) \in {"fill", "pixel", "register"}
    /\ thread' = IF Head(fifo) = "fill" THEN "count" ELSE "pop"
    /\ UNCHANGED <<idx, cpu, arg, events, flags, swap, draw>>

ExecFlip ==
    /\ thread = "exec" /\ Head(fifo) = "flip"
    /\ thread' = "count"
    /\ front_offset' = disp_buffer
    /\ SwapDone /\ unswapped' = unswapped - 1
    /\ overtaken' = (overtaken \/ swap_pending)
    /\ UNCHANGED <<idx, cpu, arg, events, flags, swap_pending, swap_offset, twice, draw>>

(* Seeded fault: with three buffers no swap waits. *)
ExecSwapAtOnce ==
    /\ thread = "exec" /\ Head(fifo) = "swap"
    /\ thread' = IF triple THEN "swap set" ELSE "swap test"
    /\ IF triple
       THEN UNCHANGED <<swap_offset, swap_pending>>
       ELSE swap_offset' = disp_buffer /\ swap_pending' = TRUE
    /\ UNCHANGED <<idx, cpu, arg, events, flags, swap_count, front_offset, unswapped,
                   overtaken, twice, draw>>

(* With three buffers only a second swap waits for the first one. *)
ExecSwap ==
    /\ thread = "exec" /\ Head(fifo) = "swap"
    /\ thread' = IF triple /\ ~ swap_pending THEN "swap set" ELSE "swap test"
    /\ IF triple
       THEN UNCHANGED <<swap_offset, swap_pending>>
       ELSE swap_offset' = disp_buffer /\ swap_pending' = TRUE
    /\ UNCHANGED <<idx, cpu, arg, events, flags, swap_count, front_offset, unswapped,
                   overtaken, twice, draw>>

(* voodoo_wait_for_swap_complete(). *)
AfterSwap == IF triple THEN "swap set" ELSE "count"

SwapTest ==
    /\ thread = "swap test"
    /\ thread' = IF swap_pending THEN "swap sleep" ELSE AfterSwap
    /\ UNCHANGED <<idx, cpu, arg, events, flags, swap, draw>>

(* Seeded fault: a full ring does not end the wait for the retrace. *)
SkipsVsyncForFlush == swap_pending /\ flush

(* "Main thread is waiting for FIFO to empty, so skip vsync wait and just  *)
(* swap", under swap_mutex.                                                *)
SkipsVsync == (swap_pending /\ flush) \/ FIFO_FULL

(* Under a full ring that is done even if the retrace came in between and  *)
(* has done the swap: then it is taken off swap_count a second time.       *)
TakenOffAgain == ~ swap_pending /\ swap_count > 0

(* Seeded fault: a swap that is done early is not taken off swap_count. *)
SwapSkipUncounted ==
    /\ thread = "swap lock" /\ SkipsVsync
    /\ thread' = AfterSwap
    /\ front_offset' = disp_buffer /\ swap_pending' = FALSE
    /\ unswapped' = IF swap_pending THEN unswapped - 1 ELSE unswapped
    /\ UNCHANGED <<idx, cpu, arg, events, flags, swap_count, swap_offset, overtaken, twice,
                   draw>>

SwapSkip ==
    /\ thread = "swap lock" /\ SkipsVsync
    /\ thread' = AfterSwap
    /\ front_offset' = disp_buffer /\ swap_pending' = FALSE
    /\ SwapDone /\ unswapped' = IF swap_pending THEN unswapped - 1 ELSE unswapped
    /\ twice' = IF TakenOffAgain THEN twice + 1 ELSE twice
    /\ UNCHANGED <<idx, cpu, arg, events, flags, swap_offset, overtaken, draw>>

SwapAgain ==
    /\ thread = "swap lock" /\ ~ SkipsVsync
    /\ thread' = "swap test"
    /\ UNCHANGED <<idx, cpu, arg, events, flags, swap, draw>>

SwapSet ==
    /\ thread = "swap set"
    /\ thread' = "count"
    /\ swap_offset' = disp_buffer /\ swap_pending' = TRUE
    /\ UNCHANGED <<idx, cpu, arg, events, flags, swap_count, front_offset, unswapped,
                   overtaken, twice, draw>>

(* "voodoo->cmd_read++" *)
Count ==
    /\ thread = "count"
    /\ thread' = "pop"
    /\ uncounted' = uncounted - 1
    /\ UNCHANGED <<fifo, writes, cpu, arg, events, flags, swap, draw>>

(* The entry is done: fifo_read_idx moves on.  Entries of the same type    *)
(* follow at once; after them the CPU thread is told of room if the ring   *)
(* is still rather full.                                                   *)
Pop ==
    /\ thread = "pop"
    /\ fifo' = Tail(fifo)
    /\ IF Len(fifo) > 1 /\ Type(fifo[1]) = Type(fifo[2])
       THEN /\ thread' = IF Type(fifo[1]) = "FB" THEN "exec" ELSE "next"
            /\ UNCHANGED fifo_not_full_event
       ELSE /\ thread' = "test"
            /\ fifo_not_full_event' = (fifo_not_full_event \/ Len(fifo') > Level)
    /\ UNCHANGED <<uncounted, writes, cpu, arg, wake_fifo_thread, wake_timer, flags, swap, draw>>

NextRegister ==
    /\ thread = "next"
    /\ Begin
    /\ UNCHANGED <<idx, cpu, arg, events, flags, swap, triple, tris, target>>

-----------------------------------------------------------------------------
(* The render threads. *)
Render ==
    /\ Draw
    /\ UNCHANGED <<idx, cpu, arg, thread, events, flags, swap, disp_buffer, draw_buffer,
                   triple, target>>

Guest ==
    \/ \E w \in Writes : Write(w)
    \/ ReadStatus \/ Flush \/ voodoo_card_close

CpuGoesOn ==
    \/ QueueTest \/ QueueReset \/ QueueRetest \/ QueueWait \/ QueueStore
    \/ QueueLevel \/ WriteKick
    \/ FlushTest \/ FlushWake \/ FlushIdle \/ Read
    \/ RetraceWake \/ CloseWake \/ CloseJoin

FifoThread ==
    \/ ThreadTop \/ ThreadSleep \/ ThreadWoken \/ ThreadBegin \/ ThreadTest \/ ThreadEnd
    \/ WaitIdle \/ ExecTriangle \/ ExecOther \/ ExecFlip \/ ExecSwap
    \/ SwapTest \/ SwapSkip \/ SwapAgain \/ SwapSet \/ Count \/ Pop \/ NextRegister

Next == Guest \/ CpuGoesOn \/ voodoo_wake_timer \/ Retrace \/ FifoThread \/ Render

Spec == Init /\ [][Next]_vars

(* All threads are scheduled, and the timers of the CPU thread fire as     *)
(* long as it executes instructions.                                       *)
FairSpec ==
    /\ Spec
    /\ WF_vars(CpuGoesOn) /\ WF_vars(FifoThread) /\ WF_vars(Render)
    /\ SF_vars(voodoo_wake_timer) /\ SF_vars(Retrace)

-----------------------------------------------------------------------------
(* Nobody touches the frame buffer while triangles are drawn into it, and  *)
(* what the guest reads is what all it wrote before has made of it: when   *)
(* voodoo_flush() returns, the ring is empty, the FIFO thread is not in    *)
(* the middle of an entry, and no render thread is.                        *)
FramebufferQuiet ==
    /\ thread = "exec" /\ Head(fifo) \in {"fill", "pixel"} \cup Swaps => tris = 0
    /\ cpu = "read" =>
        /\ fifo = <<>> /\ tris = 0
        /\ thread \in {"top", "sleep", "woken", "begin", "test", "end", "ended"}

(* Triangles are never drawn into the buffer that is on the screen: not    *)
(* while a swap waits, not when a waiting swap is done early, and not if   *)
(* it is done twice.  (With three buffers, a flip that overtakes a swap    *)
(* upsets this.)                                                           *)
DrawnHidden == tris > 0 /\ ~ overtaken => target # front_offset

(* How far the guest can rely on the status register.  swap_count, which   *)
(* it polls before it draws the next frame, never counts a swap that is    *)
(* not coming; and it is too low only because swaps were taken off twice,  *)
(* by no more than one for each time that happened.  Without the busy bits *)
(* no command the guest wrote is left in the ring or on its way into it,   *)
(* but for one that was carried out and only has to be taken out.  (A      *)
(* triangle is carried out once it is handed to the render threads: they   *)
(* may still be drawing it.)                                               *)
StatusCounts ==
    /\ swap_count <= unswapped /\ unswapped <= swap_count + twice
    /\ uncounted = 0 =>
        /\ arg \notin Commands \/ cpu \in {"level", "kick"}
        /\ \A i \in 1 .. Len(fifo) :
            fifo[i] \in Commands => i = 1 /\ thread = "pop"

(* No access of the guest waits for ever: neither for room in the ring nor *)
(* for the FIFO to drain, though no retrace comes while the CPU thread     *)
(* waits and the FIFO thread may be waiting for one.                       *)
GuestGoesOn ==
    cpu \notin {"run", "close", "join", "closed"} ~> cpu = "run"

(* What is in the ring is worked off, for a guest that reads the status    *)
(* again and again, or closes the card: the wake-up that is lost when the  *)
(* FIFO thread is just leaving its loop is made good by the next read.     *)
PolledWorkDone ==
    SF_vars(ReadStatus) => (fifo # <<>> ~> thread = "pop" \/ ~ fifo_thread_run)

(* Closing the card ends. *)
CloseEnds == cpu = "close" ~> cpu = "closed"
==============================================================================
