------------------------------ MODULE VideoBlit ------------------------------
(***************************************************************************)
(* How a frame gets from an emulated video card to the window: the blit    *)
(* thread of src/video/video.c, on the events of src/thread.cpp, and the   *)
(* image buffers of the Qt front end (src/qt/qt_rendererstack.cpp).        *)
(*                                                                         *)
(* Three threads pass a frame on.  The CPU thread runs the card, which     *)
(* draws into the monitor's target buffer and asks for a blit.  The blit   *)
(* thread copies the target into a free image buffer, and skips the frame  *)
(* if there is none.  The window's thread hands the image to the host's    *)
(* graphics and frees it.  Events are manual-reset flags; busy and         *)
(* buffer_in_use are plain variables read by one thread and written by     *)
(* both.  The buffers are those of the hardware renderer.                  *)
(***************************************************************************)
EXTENDS Integers, Sequences

CONSTANTS
    Bufs,       \* image buffers of the renderer
    MaxFrames   \* bound: frames the card draws

ASSUME BlitAssumption == Bufs \in Nat \ {0} /\ MaxFrames \in Nat

Buf == 0 .. Bufs - 1
None == -1
Torn == 0       \* the contents of a buffer that is being written

VARIABLES
    busy, buffer_in_use, thread_run,        \* of blit_data_t
    sized,      \* whether its rectangle was ever set, w > 0 and h > 0
    wake_blit_thread, blit_complete, buffer_not_in_use, \* its events
    target,     \* the frame in the target buffer
    card,       \* where the CPU thread is
    frames,     \* frames the card has drawn
    blitter,    \* where the blit thread is
    used,       \* buf_usage: image buffers taken
    image,      \* the frame in each image buffer
    currentBuf, \* the image buffer to copy to next
    posted,     \* blitToRenderer() calls that the window has not handled
    onBlit,     \* the buffer the window is reading, or None
    shown       \* history: the frame the window shows

flags == <<busy, buffer_in_use, thread_run, sized>>
events == <<wake_blit_thread, blit_complete, buffer_not_in_use>>
cardVars == <<card, target, frames>>
images == <<used, image, currentBuf, posted>>
window == <<onBlit, shown>>
vars == <<flags, events, cardVars, blitter, images, window>>

Init ==
    /\ busy = FALSE /\ buffer_in_use = FALSE /\ thread_run = TRUE /\ sized = FALSE
    /\ wake_blit_thread = FALSE /\ blit_complete = FALSE /\ buffer_not_in_use = FALSE
    /\ target = Torn /\ card = "run" /\ frames = 0
    /\ blitter = "test"
    /\ used = {} /\ image = [b \in Buf |-> Torn] /\ currentBuf = 0 /\ posted = <<>>
    /\ onBlit = None /\ shown = 0

-----------------------------------------------------------------------------
(* The card, on the CPU thread. *)

(* video_wait_for_buffer_monitor(), before the first line of a frame. *)
WaitForBuffer ==
    /\ card \in {"run", "draw"} /\ frames < MaxFrames
    /\ card' = "wait buffer"
    /\ UNCHANGED <<flags, events, target, frames, blitter, images, window>>

BufferTest ==
    /\ card = "wait buffer"
    /\ card' = IF buffer_in_use THEN "sleep buffer" ELSE "reset buffer"
    /\ UNCHANGED <<flags, events, target, frames, blitter, images, window>>

BufferSleep ==
    /\ card = "sleep buffer" /\ buffer_not_in_use
    /\ card' = "wait buffer"
    /\ UNCHANGED <<flags, events, target, frames, blitter, images, window>>

BufferReset ==
    /\ card = "reset buffer"
    /\ card' = "draw"
    /\ buffer_not_in_use' = FALSE
    /\ target' = Torn /\ frames' = frames + 1
    /\ UNCHANGED <<flags, wake_blit_thread, blit_complete, blitter, images, window>>

(* video_blit_memtoscreen_monitor(), when a frame is drawn; some cards     *)
(* ask for the same frame again.                                           *)
Blit ==
    /\ card \in {"run", "draw"} /\ frames > 0
    /\ card' = "wait blit"
    /\ target' = frames
    /\ UNCHANGED <<flags, events, frames, blitter, images, window>>

BlitTest ==
    /\ card = "wait blit"
    /\ card' = IF busy THEN "sleep blit" ELSE "reset blit"
    /\ UNCHANGED <<flags, events, target, frames, blitter, images, window>>

BlitSleep ==
    /\ card = "sleep blit" /\ blit_complete
    /\ card' = "wait blit"
    /\ UNCHANGED <<flags, events, target, frames, blitter, images, window>>

BlitReset ==
    /\ card = "reset blit"
    /\ card' = "request"
    /\ blit_complete' = FALSE
    /\ UNCHANGED <<flags, wake_blit_thread, buffer_not_in_use, target, frames,
                   blitter, images, window>>

(* Seeded fault: the target buffer is not reserved for the blit. *)
RequestBusy ==
    /\ card = "request"
    /\ card' = "wake"
    /\ busy' = TRUE /\ sized' = TRUE
    /\ UNCHANGED <<buffer_in_use, thread_run, events, target, frames, blitter,
                   images, window>>

Request ==
    /\ card = "request"
    /\ card' = "wake"
    /\ busy' = TRUE /\ buffer_in_use' = TRUE /\ sized' = TRUE
    /\ UNCHANGED <<thread_run, events, target, frames, blitter, images, window>>

Wake ==
    /\ card = "wake"
    /\ card' = "run"
    /\ wake_blit_thread' = TRUE
    /\ UNCHANGED <<flags, blit_complete, buffer_not_in_use, target, frames,
                   blitter, images, window>>

(* video_monitor_close(), between two instructions; it waits for the blit  *)
(* thread before it frees anything.                                        *)
video_monitor_close ==
    /\ card \in {"run", "draw"}
    /\ card' = "close"
    /\ thread_run' = FALSE
    /\ UNCHANGED <<busy, buffer_in_use, sized, events, target, frames, blitter,
                   images, window>>

(* Seeded fault: the blit thread is not told. *)
CloseSilently ==
    /\ card = "close" /\ card' = "join"
    /\ UNCHANGED <<flags, events, target, frames, blitter, images, window>>

CloseWake ==
    /\ card = "close" /\ card' = "join"
    /\ wake_blit_thread' = TRUE
    /\ UNCHANGED <<flags, blit_complete, buffer_not_in_use, target, frames,
                   blitter, images, window>>

CloseJoin ==
    /\ card = "join" /\ blitter = "ended"
    /\ card' = "closed"
    /\ UNCHANGED <<flags, events, target, frames, blitter, images, window>>

-----------------------------------------------------------------------------
(* blit_thread(). *)

ThreadTest ==
    /\ blitter = "test"
    /\ blitter' = IF thread_run THEN "wait" ELSE "ended"
    /\ UNCHANGED <<flags, events, cardVars, images, window>>

ThreadWait ==
    /\ blitter = "wait" /\ wake_blit_thread
    /\ blitter' = "reset"
    /\ UNCHANGED <<flags, events, cardVars, images, window>>

ThreadReset ==
    /\ blitter = "reset"
    /\ blitter' = "blit"
    /\ wake_blit_thread' = FALSE
    /\ UNCHANGED <<flags, blit_complete, buffer_not_in_use, cardVars, images,
                   window>>

(* RendererStack::blit() gives up: the picture does not fit, the window is *)
(* hidden or its renderer is being changed, or the image is still taken.   *)
BlitSkip ==
    /\ blitter = "blit"
    /\ blitter' = "release"
    /\ UNCHANGED <<flags, events, cardVars, images, window>>

(* Seeded fault: the image is used though it is taken. *)
BlitAnyway ==
    /\ blitter = "blit" /\ sized
    /\ blitter' = "copy"
    /\ used' = used \cup {currentBuf}
    /\ image' = [image EXCEPT ![currentBuf] = Torn]
    /\ UNCHANGED <<flags, events, cardVars, currentBuf, posted, window>>

(* test_and_set(), and the copying begins ... *)
BlitBegin ==
    /\ blitter = "blit" /\ sized /\ currentBuf \notin used
    /\ blitter' = "copy"
    /\ used' = used \cup {currentBuf}
    /\ image' = [image EXCEPT ![currentBuf] = Torn]
    /\ UNCHANGED <<flags, events, cardVars, currentBuf, posted, window>>

(* ... and ends. *)
BlitCopied ==
    /\ blitter = "copy"
    /\ blitter' = "release copied"
    /\ image' = [image EXCEPT ![currentBuf] = target]
    /\ UNCHANGED <<flags, events, cardVars, used, currentBuf, posted, window>>

(* Seeded fault: a skipped frame keeps the target buffer. *)
ReleaseCopied ==
    /\ \/ blitter = "release" /\ blitter' = "notify" /\ UNCHANGED buffer_in_use
       \/ blitter = "release copied" /\ blitter' = "notify copied" /\ buffer_in_use' = FALSE
    /\ UNCHANGED <<busy, thread_run, sized, events, cardVars, images, window>>

(* video_blit_complete_monitor(). *)
Release ==
    /\ \/ blitter = "release" /\ blitter' = "notify"
       \/ blitter = "release copied" /\ blitter' = "notify copied"
    /\ buffer_in_use' = FALSE
    /\ UNCHANGED <<busy, thread_run, sized, events, cardVars, images, window>>

Notify ==
    /\ \/ blitter = "notify" /\ blitter' = "finish"
       \/ blitter = "notify copied" /\ blitter' = "post"
    /\ buffer_not_in_use' = TRUE
    /\ UNCHANGED <<flags, wake_blit_thread, blit_complete, cardVars, images,
                   window>>

NextBuf == (currentBuf + 1) % Bufs

(* "emit blitToRenderer(...)", a queued connection. *)
Post ==
    /\ blitter = "post"
    /\ blitter' = "finish"
    /\ posted' = Append(posted, currentBuf)
    /\ currentBuf' = NextBuf
    /\ UNCHANGED <<flags, events, cardVars, used, image, window>>

Finish ==
    /\ blitter = "finish"
    /\ blitter' = "complete"
    /\ busy' = FALSE
    /\ UNCHANGED <<buffer_in_use, thread_run, sized, events, cardVars, images,
                   window>>

(* Seeded fault: the wake-up is reset after the work, not before it. *)
CompleteResets ==
    /\ blitter = "complete"
    /\ blitter' = "test"
    /\ blit_complete' = TRUE /\ wake_blit_thread' = FALSE
    /\ UNCHANGED <<flags, buffer_not_in_use, cardVars, images, window>>

Complete ==
    /\ blitter = "complete"
    /\ blitter' = "test"
    /\ blit_complete' = TRUE
    /\ UNCHANGED <<flags, wake_blit_thread, buffer_not_in_use, cardVars, images,
                   window>>

-----------------------------------------------------------------------------
(* The window's thread: HardwareRenderer::onBlit() uploads the image ...   *)

(* Seeded fault: the image is freed before it was read. *)
UploadFrees ==
    /\ onBlit = None /\ posted # <<>>
    /\ onBlit' = Head(posted) /\ posted' = Tail(posted)
    /\ used' = used \ {Head(posted)}
    /\ UNCHANGED <<flags, events, cardVars, blitter, image, currentBuf, shown>>

Upload ==
    /\ onBlit = None /\ posted # <<>>
    /\ onBlit' = Head(posted) /\ posted' = Tail(posted)
    /\ UNCHANGED <<flags, events, cardVars, blitter, used, image, currentBuf,
                   shown>>

(* ... and frees it. *)
Uploaded ==
    /\ onBlit # None
    /\ onBlit' = None
    /\ used' = used \ {onBlit}
    /\ shown' = image[onBlit]
    /\ UNCHANGED <<flags, events, cardVars, blitter, image, currentBuf, posted>>

-----------------------------------------------------------------------------
Waiting ==
    \/ BufferTest \/ BufferSleep \/ BufferReset
    \/ BlitTest \/ BlitSleep \/ BlitReset \/ Request \/ Wake
    \/ CloseWake \/ CloseJoin

Thread ==
    \/ ThreadTest \/ ThreadWait \/ ThreadReset \/ BlitSkip \/ BlitBegin \/ BlitCopied
    \/ Release \/ Notify \/ Post \/ Finish \/ Complete

Window == Upload \/ Uploaded

(* The monitor is gone. *)
Gone == card = "closed" /\ UNCHANGED vars

Next ==
    \/ WaitForBuffer \/ Blit \/ video_monitor_close \/ Waiting
    \/ Thread
    \/ Window
    \/ Gone

Spec == Init /\ [][Next]_vars

(* The three threads are scheduled.  The card may stop drawing at any time *)
(* and the window need not be served for the card to go on.                *)
FairSpec == Spec /\ WF_vars(Waiting) /\ WF_vars(Thread)

-----------------------------------------------------------------------------
(* Every variable has its type. *)
TypeOK ==
    /\ busy \in BOOLEAN /\ buffer_in_use \in BOOLEAN /\ thread_run \in BOOLEAN
    /\ sized \in BOOLEAN
    /\ wake_blit_thread \in BOOLEAN /\ blit_complete \in BOOLEAN
    /\ buffer_not_in_use \in BOOLEAN
    /\ card \in {"run", "draw", "wait buffer", "sleep buffer", "reset buffer", "wait blit",
                 "sleep blit", "reset blit", "request", "wake", "close", "join", "closed"}
    /\ target \in 0 .. MaxFrames /\ frames \in 0 .. MaxFrames
    /\ blitter \in {"test", "wait", "reset", "blit", "copy", "release", "release copied",
                    "notify", "notify copied", "post", "finish", "complete", "ended"}
    /\ used \subseteq Buf /\ image \in [Buf -> 0 .. MaxFrames] /\ currentBuf \in Buf
    /\ posted \in Seq(Buf) /\ onBlit \in Buf \cup {None} /\ shown \in 0 .. MaxFrames

(* The card never draws into the target buffer while the blit thread       *)
(* copies it, whatever events were left set by an earlier frame.           *)
TargetStable == card = "draw" => blitter # "copy"

(* No request is lost: until the frame asked for was copied or skipped,    *)
(* the blit thread is at it, is about to be woken, or is woken already.    *)
RequestNoticed ==
    busy => \/ wake_blit_thread \/ card = "wake"
            \/ blitter \notin {"test", "wait", "complete", "ended"}

(* The blit thread never writes the image that the window reads.           *)
ImageStable == onBlit # None => ~ (blitter = "copy" /\ currentBuf = onBlit)

(* The window never shows half a frame, and never goes back to an earlier  *)
(* frame: skipping frames does not mix up the images.  (To end the blit    *)
(* thread, video_monitor_close() wakes it for a last blit of whatever is   *)
(* in the target buffer.)                                                  *)
ShownInOrder ==
    [][Uploaded /\ thread_run => shown' # Torn /\ shown' >= shown]_vars

(* The CPU thread is never stuck in the card: whoever waits for the target *)
(* buffer or for the last blit goes on, even if the window never answers.  *)
CardGoesOn ==
    card \in {"wait buffer", "wait blit"} ~> card \in {"run", "draw"}

(* Closing a monitor ends: the blit thread is woken and sees thread_run.   *)
CloseEnds == card = "close" ~> card = "closed"
==============================================================================
