--------------------------- MODULE VideoBlitProofs ---------------------------
(***************************************************************************)
(* Proofs about VideoBlit, for any number of image buffers and of frames.  *)
(***************************************************************************)
EXTENDS VideoBlit, TLAPS

Closing == card \in {"close", "join", "closed"}

(* The blit thread has taken a request on, and has not finished it.        *)
AtWork == blitter \notin {"test", "wait", "complete", "ended"}

(* ... and has not released the target buffer.                             *)
AtTarget == blitter \in {"reset", "blit", "copy", "release", "release copied"}

(* ... and holds the image it copied to.                                   *)
HasImage == blitter \in {"copy", "release copied", "notify copied", "post"}

(* Who owns the target buffer and whose turn it is, between the plain      *)
(* variables and the events.  After the monitor was closed the blit thread *)
(* may work on its own account.                                            *)
Handshake ==
    /\ card \in {"reset buffer", "draw"} => ~ buffer_in_use
    /\ card \in {"reset blit", "request"} => ~ busy
    /\ card = "wake" => busy /\ buffer_in_use /\ ~ wake_blit_thread /\ ~ AtWork
    /\ thread_run <=> ~ Closing
    /\ ~ Closing /\ wake_blit_thread => busy /\ buffer_in_use
    /\ ~ Closing /\ AtWork => busy
    /\ ~ Closing /\ AtTarget => buffer_in_use
    /\ ~ Closing /\ AtWork /\ blitter # "reset" => ~ wake_blit_thread
    /\ RequestNoticed

(* Who owns an image: a taken image is being copied to, posted once, or    *)
(* being read.                                                             *)
Images ==
    /\ \A i \in DOMAIN posted : posted[i] \in used
    /\ \A i, j \in DOMAIN posted : i # j => posted[i] # posted[j]
    /\ onBlit # None => onBlit \in used /\ \A i \in DOMAIN posted : posted[i] # onBlit
    /\ HasImage => /\ currentBuf \in used
                   /\ onBlit # None => currentBuf # onBlit
                   /\ \A i \in DOMAIN posted : posted[i] # currentBuf

(* The target buffer holds the whole of the latest frame from the moment a *)
(* blit is asked for until the blit thread releases it.                    *)
Whole ==
    /\ card \in {"wait blit", "sleep blit", "reset blit", "request", "wake"} =>
          target = frames /\ frames # 0
    /\ thread_run /\ (buffer_in_use \/ AtTarget) => target = frames /\ frames # 0

(* No frame is newer than the latest. *)
Bounded ==
    /\ target <= frames /\ shown <= frames
    /\ \A b \in Buf : image[b] <= frames

(* The frames on their way to the window, in the order they will be shown. *)
Good(b) == image[b] # Torn /\ shown <= image[b]
Copied == HasImage /\ blitter # "copy"

InOrder ==
    thread_run =>
        /\ \A i \in DOMAIN posted : Good(posted[i])
        /\ \A i, j \in DOMAIN posted : i < j => image[posted[i]] <= image[posted[j]]
        /\ onBlit # None =>
              Good(onBlit) /\ \A i \in DOMAIN posted : image[onBlit] <= image[posted[i]]
        /\ Copied =>
              /\ Good(currentBuf)
              /\ \A i \in DOMAIN posted : image[posted[i]] <= image[currentBuf]
              /\ onBlit # None => image[onBlit] <= image[currentBuf]

-----------------------------------------------------------------------------
(* The type invariant in parts: of the flags and events, of the two        *)
(* threads' places, and of the frames and images.                          *)
FlagTypes ==
    /\ busy \in BOOLEAN /\ buffer_in_use \in BOOLEAN /\ thread_run \in BOOLEAN
    /\ sized \in BOOLEAN
    /\ wake_blit_thread \in BOOLEAN /\ blit_complete \in BOOLEAN
    /\ buffer_not_in_use \in BOOLEAN

PlaceTypes ==
    /\ card \in {"run", "draw", "wait buffer", "sleep buffer", "reset buffer", "wait blit",
                 "sleep blit", "reset blit", "request", "wake", "close", "join", "closed"}
    /\ blitter \in {"test", "wait", "reset", "blit", "copy", "release", "release copied",
                    "notify", "notify copied", "post", "finish", "complete", "ended"}

ImageTypes ==
    /\ target \in 0 .. MaxFrames /\ frames \in 0 .. MaxFrames
    /\ used \subseteq Buf /\ image \in [Buf -> 0 .. MaxFrames] /\ currentBuf \in Buf
    /\ posted \in Seq(Buf) /\ onBlit \in Buf \cup {None} /\ shown \in 0 .. MaxFrames
    /\ card \in {"wait buffer", "sleep buffer", "reset buffer"} => frames < MaxFrames

(* The inductive invariant. *)
IInv ==
    /\ FlagTypes /\ PlaceTypes /\ ImageTypes
    /\ Handshake /\ Images /\ Whole /\ Bounded /\ InOrder

(* The parts are preserved one by one. *)
LEMMA FlagStep ==
    FlagTypes /\ [Next]_vars => FlagTypes'
<1> SUFFICES ASSUME FlagTypes, [Next]_vars PROVE FlagTypes'
  OBVIOUS
<1> USE DEF FlagTypes, flags, events, cardVars, images, window
<1>1. CASE WaitForBuffer
  BY <1>1 DEF WaitForBuffer
<1>2. CASE BufferTest
  BY <1>2 DEF BufferTest
<1>3. CASE BufferSleep
  BY <1>3 DEF BufferSleep
<1>4. CASE BufferReset
  BY <1>4 DEF BufferReset
<1>5. CASE Blit
  BY <1>5 DEF Blit
<1>6. CASE BlitTest
  BY <1>6 DEF BlitTest
<1>7. CASE BlitSleep
  BY <1>7 DEF BlitSleep
<1>8. CASE BlitReset
  BY <1>8 DEF BlitReset
<1>9. CASE Request
  BY <1>9 DEF Request
<1>10. CASE Wake
  BY <1>10 DEF Wake
<1>11. CASE video_monitor_close
  BY <1>11 DEF video_monitor_close
<1>12. CASE CloseWake
  BY <1>12 DEF CloseWake
<1>13. CASE CloseJoin
  BY <1>13 DEF CloseJoin
<1>14. CASE ThreadTest
  BY <1>14 DEF ThreadTest
<1>15. CASE ThreadWait
  BY <1>15 DEF ThreadWait
<1>16. CASE ThreadReset
  BY <1>16 DEF ThreadReset
<1>17. CASE BlitSkip
  BY <1>17 DEF BlitSkip
<1>18. CASE BlitBegin
  BY <1>18 DEF BlitBegin
<1>19. CASE BlitCopied
  BY <1>19 DEF BlitCopied
<1>20. CASE Release
  BY <1>20 DEF Release
<1>21. CASE Notify
  BY <1>21 DEF Notify
<1>22. CASE Post
  BY <1>22 DEF Post
<1>23. CASE Finish
  BY <1>23 DEF Finish
<1>24. CASE Complete
  BY <1>24 DEF Complete
<1>25. CASE Upload
  BY <1>25 DEF Upload
<1>26. CASE Uploaded
  BY <1>26 DEF Uploaded
<1>27. CASE UNCHANGED vars
  BY <1>27 DEF vars
<1>28. QED
  BY <1>1, <1>2, <1>3, <1>4, <1>5, <1>6, <1>7, <1>8, <1>9, <1>10, <1>11,
     <1>12, <1>13, <1>14, <1>15, <1>16, <1>17, <1>18, <1>19, <1>20, <1>21,
     <1>22, <1>23, <1>24, <1>25, <1>26, <1>27
     DEF Next, Waiting, Thread, Window, Gone

LEMMA PlaceStep ==
    PlaceTypes /\ [Next]_vars => PlaceTypes'
<1> SUFFICES ASSUME PlaceTypes, [Next]_vars PROVE PlaceTypes'
  OBVIOUS
<1> USE DEF PlaceTypes, flags, events, cardVars, images, window
<1>1. CASE WaitForBuffer
  BY <1>1 DEF WaitForBuffer
<1>2. CASE BufferTest
  BY <1>2 DEF BufferTest
<1>3. CASE BufferSleep
  BY <1>3 DEF BufferSleep
<1>4. CASE BufferReset
  BY <1>4 DEF BufferReset
<1>5. CASE Blit
  BY <1>5 DEF Blit
<1>6. CASE BlitTest
  BY <1>6 DEF BlitTest
<1>7. CASE BlitSleep
  BY <1>7 DEF BlitSleep
<1>8. CASE BlitReset
  BY <1>8 DEF BlitReset
<1>9. CASE Request
  BY <1>9 DEF Request
<1>10. CASE Wake
  BY <1>10 DEF Wake
<1>11. CASE video_monitor_close
  BY <1>11 DEF video_monitor_close
<1>12. CASE CloseWake
  BY <1>12 DEF CloseWake
<1>13. CASE CloseJoin
  BY <1>13 DEF CloseJoin
<1>14. CASE ThreadTest
  BY <1>14 DEF ThreadTest
<1>15. CASE ThreadWait
  BY <1>15 DEF ThreadWait
<1>16. CASE ThreadReset
  BY <1>16 DEF ThreadReset
<1>17. CASE BlitSkip
  BY <1>17 DEF BlitSkip
<1>18. CASE BlitBegin
  BY <1>18 DEF BlitBegin
<1>19. CASE BlitCopied
  BY <1>19 DEF BlitCopied
<1>20. CASE Release
  BY <1>20 DEF Release
<1>21. CASE Notify
  BY <1>21 DEF Notify
<1>22. CASE Post
  BY <1>22 DEF Post
<1>23. CASE Finish
  BY <1>23 DEF Finish
<1>24. CASE Complete
  BY <1>24 DEF Complete
<1>25. CASE Upload
  BY <1>25 DEF Upload
<1>26. CASE Uploaded
  BY <1>26 DEF Uploaded
<1>27. CASE UNCHANGED vars
  BY <1>27 DEF vars
<1>28. QED
  BY <1>1, <1>2, <1>3, <1>4, <1>5, <1>6, <1>7, <1>8, <1>9, <1>10, <1>11,
     <1>12, <1>13, <1>14, <1>15, <1>16, <1>17, <1>18, <1>19, <1>20, <1>21,
     <1>22, <1>23, <1>24, <1>25, <1>26, <1>27
     DEF Next, Waiting, Thread, Window, Gone

LEMMA ImageStep ==
    ImageTypes /\ [Next]_vars => ImageTypes'
<1> SUFFICES ASSUME ImageTypes, [Next]_vars PROVE ImageTypes'
  OBVIOUS
<1> USE DEF ImageTypes, flags, events, cardVars, images, window
<1>1. CASE WaitForBuffer
  BY <1>1 DEF WaitForBuffer
<1>2. CASE BufferTest
  BY <1>2 DEF BufferTest
<1>3. CASE BufferSleep
  BY <1>3 DEF BufferSleep
<1>4. CASE BufferReset
  <2>1. frames \in 0 .. MaxFrames /\ frames < MaxFrames
    BY <1>4 DEF BufferReset
  <2>2. frames + 1 \in 0 .. MaxFrames /\ 0 \in 0 .. MaxFrames
    BY ONLY <2>1, BlitAssumption
  <2> QED
    BY <1>4, <2>2 DEF BufferReset, Torn
<1>5. CASE Blit
  BY <1>5 DEF Blit
<1>6. CASE BlitTest
  BY <1>6 DEF BlitTest
<1>7. CASE BlitSleep
  BY <1>7 DEF BlitSleep
<1>8. CASE BlitReset
  BY <1>8 DEF BlitReset
<1>9. CASE Request
  BY <1>9 DEF Request
<1>10. CASE Wake
  BY <1>10 DEF Wake
<1>11. CASE video_monitor_close
  BY <1>11 DEF video_monitor_close
<1>12. CASE CloseWake
  BY <1>12 DEF CloseWake
<1>13. CASE CloseJoin
  BY <1>13 DEF CloseJoin
<1>14. CASE ThreadTest
  BY <1>14 DEF ThreadTest
<1>15. CASE ThreadWait
  BY <1>15 DEF ThreadWait
<1>16. CASE ThreadReset
  BY <1>16 DEF ThreadReset
<1>17. CASE BlitSkip
  BY <1>17 DEF BlitSkip
<1>18. CASE BlitBegin
  <2>1. Torn \in 0 .. MaxFrames
    BY ONLY BlitAssumption DEF Torn
  <2> QED
    BY <1>18, <2>1 DEF BlitBegin
<1>19. CASE BlitCopied
  BY <1>19 DEF BlitCopied
<1>20. CASE Release
  BY <1>20 DEF Release
<1>21. CASE Notify
  BY <1>21 DEF Notify
<1>22. CASE Post
  <2>1. currentBuf \in 0 .. Bufs - 1 /\ posted \in Seq(Buf) /\ currentBuf \in Buf
    BY DEF Buf
  <2>2. NextBuf \in Buf
    BY ONLY <2>1, BlitAssumption DEF NextBuf, Buf
  <2>3. Append(posted, currentBuf) \in Seq(Buf)
    BY ONLY <2>1
  <2> QED
    BY <1>22, <2>2, <2>3 DEF Post
<1>23. CASE Finish
  BY <1>23 DEF Finish
<1>24. CASE Complete
  BY <1>24 DEF Complete
<1>25. CASE Upload
  <2>1. posted # <<>> /\ posted \in Seq(Buf)
    BY <1>25 DEF Upload
  <2>2. Head(posted) \in Buf /\ Tail(posted) \in Seq(Buf)
    BY ONLY <2>1
  <2> QED
    BY <1>25, <2>2 DEF Upload
<1>26. CASE Uploaded
  BY <1>26 DEF Uploaded
<1>27. CASE UNCHANGED vars
  BY <1>27 DEF vars
<1>28. QED
  BY <1>1, <1>2, <1>3, <1>4, <1>5, <1>6, <1>7, <1>8, <1>9, <1>10, <1>11,
     <1>12, <1>13, <1>14, <1>15, <1>16, <1>17, <1>18, <1>19, <1>20, <1>21,
     <1>22, <1>23, <1>24, <1>25, <1>26, <1>27
     DEF Next, Waiting, Thread, Window, Gone

(* The handshake is preserved. *)
LEMMA HandshakeStep ==
    PlaceTypes /\ Handshake /\ [Next]_vars => Handshake'
<1> SUFFICES ASSUME PlaceTypes, Handshake, [Next]_vars PROVE Handshake'
  OBVIOUS
<1> USE DEF PlaceTypes, Handshake, Closing, AtWork, AtTarget, RequestNoticed,
            flags, events, cardVars, images, window
<1>1. CASE WaitForBuffer
  BY <1>1 DEF WaitForBuffer
<1>2. CASE BufferTest
  BY <1>2 DEF BufferTest
<1>3. CASE BufferSleep
  BY <1>3 DEF BufferSleep
<1>4. CASE BufferReset
  BY <1>4 DEF BufferReset
<1>5. CASE Blit
  BY <1>5 DEF Blit
<1>6. CASE BlitTest
  BY <1>6 DEF BlitTest
<1>7. CASE BlitSleep
  BY <1>7 DEF BlitSleep
<1>8. CASE BlitReset
  BY <1>8 DEF BlitReset
<1>9. CASE Request
  BY <1>9 DEF Request
<1>10. CASE Wake
  BY <1>10 DEF Wake
<1>11. CASE video_monitor_close
  BY <1>11 DEF video_monitor_close
<1>12. CASE CloseWake
  BY <1>12 DEF CloseWake
<1>13. CASE CloseJoin
  BY <1>13 DEF CloseJoin
<1>14. CASE ThreadTest
  BY <1>14 DEF ThreadTest
<1>15. CASE ThreadWait
  BY <1>15 DEF ThreadWait
<1>16. CASE ThreadReset
  BY <1>16 DEF ThreadReset
<1>17. CASE BlitSkip
  BY <1>17 DEF BlitSkip
<1>18. CASE BlitBegin
  BY <1>18 DEF BlitBegin
<1>19. CASE BlitCopied
  BY <1>19 DEF BlitCopied
<1>20. CASE Release
  BY <1>20 DEF Release
<1>21. CASE Notify
  BY <1>21 DEF Notify
<1>22. CASE Post
  BY <1>22 DEF Post
<1>23. CASE Finish
  BY <1>23 DEF Finish
<1>24. CASE Complete
  BY <1>24 DEF Complete
<1>25. CASE Upload
  BY <1>25 DEF Upload
<1>26. CASE Uploaded
  BY <1>26 DEF Uploaded
<1>27. CASE UNCHANGED vars
  BY <1>27 DEF vars
<1>28. QED
  BY <1>1, <1>2, <1>3, <1>4, <1>5, <1>6, <1>7, <1>8, <1>9, <1>10, <1>11,
     <1>12, <1>13, <1>14, <1>15, <1>16, <1>17, <1>18, <1>19, <1>20, <1>21,
     <1>22, <1>23, <1>24, <1>25, <1>26, <1>27
     DEF Next, Waiting, Thread, Window, Gone

(* What Append, Head and Tail do to the posted images. *)
LEMMA Appended ==
    ASSUME NEW S, NEW s \in Seq(S), NEW b \in S
    PROVE  \A i \in DOMAIN Append(s, b) :
              \/ i \in DOMAIN s /\ Append(s, b)[i] = s[i]
              \/ i = Len(s) + 1 /\ i \notin DOMAIN s /\ Append(s, b)[i] = b
  OBVIOUS

LEMMA Shifted ==
    ASSUME NEW S, NEW s \in Seq(S), s # <<>>
    PROVE  /\ 1 \in DOMAIN s /\ Head(s) = s[1]
           /\ \A i \in DOMAIN Tail(s) :
                 i \in Nat \ {0} /\ i + 1 \in DOMAIN s /\ Tail(s)[i] = s[i + 1]
  OBVIOUS

(* No image has two owners, step by step. *)
LEMMA ImagesStep ==
    PlaceTypes /\ ImageTypes /\ Images /\ [Next]_vars => Images'
<1> SUFFICES ASSUME PlaceTypes, ImageTypes, Images, [Next]_vars PROVE Images'
  OBVIOUS
<1> USE DEF PlaceTypes, ImageTypes, Images, HasImage, flags, events, cardVars,
            images, window
<1>1. CASE WaitForBuffer
  BY <1>1 DEF WaitForBuffer
<1>2. CASE BufferTest
  BY <1>2 DEF BufferTest
<1>3. CASE BufferSleep
  BY <1>3 DEF BufferSleep
<1>4. CASE BufferReset
  BY <1>4 DEF BufferReset
<1>5. CASE Blit
  BY <1>5 DEF Blit
<1>6. CASE BlitTest
  BY <1>6 DEF BlitTest
<1>7. CASE BlitSleep
  BY <1>7 DEF BlitSleep
<1>8. CASE BlitReset
  BY <1>8 DEF BlitReset
<1>9. CASE Request
  BY <1>9 DEF Request
<1>10. CASE Wake
  BY <1>10 DEF Wake
<1>11. CASE video_monitor_close
  BY <1>11 DEF video_monitor_close
<1>12. CASE CloseWake
  BY <1>12 DEF CloseWake
<1>13. CASE CloseJoin
  BY <1>13 DEF CloseJoin
<1>14. CASE ThreadTest
  BY <1>14 DEF ThreadTest
<1>15. CASE ThreadWait
  BY <1>15 DEF ThreadWait
<1>16. CASE ThreadReset
  BY <1>16 DEF ThreadReset
<1>17. CASE BlitSkip
  BY <1>17 DEF BlitSkip
<1>18. CASE BlitBegin
  BY <1>18 DEF BlitBegin
<1>19. CASE BlitCopied
  BY <1>19 DEF BlitCopied
<1>20. CASE Release
  BY <1>20 DEF Release
<1>21. CASE Notify
  BY <1>21 DEF Notify
<1>22. CASE Post
  <2>1. /\ posted' = Append(posted, currentBuf)
        /\ posted \in Seq(Buf) /\ currentBuf \in Buf
    BY <1>22 DEF Post
  <2>2. \A i \in DOMAIN posted' :
            \/ i \in DOMAIN posted /\ posted'[i] = posted[i]
            \/ i = Len(posted) + 1 /\ i \notin DOMAIN posted /\ posted'[i] = currentBuf
    BY ONLY <2>1, Appended
  <2>3. blitter = "post" /\ blitter' = "finish" /\ UNCHANGED <<used, onBlit>>
    BY <1>22 DEF Post
  <2> QED
    BY ONLY <2>2, <2>3, Images
<1>23. CASE Finish
  BY <1>23 DEF Finish
<1>24. CASE Complete
  BY <1>24 DEF Complete
<1>25. CASE Upload
  <2>1. /\ posted \in Seq(Buf) /\ posted # <<>> /\ posted' = Tail(posted)
        /\ onBlit = None /\ onBlit' = Head(posted)
        /\ UNCHANGED <<used, currentBuf, blitter>>
    BY <1>25 DEF Upload
  <2>2. /\ 1 \in DOMAIN posted /\ onBlit' = posted[1]
        /\ \A i \in DOMAIN posted' :
              i \in Nat \ {0} /\ i + 1 \in DOMAIN posted /\ posted'[i] = posted[i + 1]
    BY ONLY <2>1, Shifted
  <2>3. \A i, j \in DOMAIN posted' : i + 1 # 1 /\ (i # j => i + 1 # j + 1)
    BY ONLY <2>2
  <2>4. Images
    OBVIOUS
  <2>5. /\ \A i \in DOMAIN posted' : posted'[i] \in used' /\ posted'[i] # onBlit'
        /\ \A i, j \in DOMAIN posted' : i # j => posted'[i] # posted'[j]
        /\ onBlit' \in used'
    <3>1. onBlit' \in used'
      BY ONLY <2>1, <2>2, <2>4
    <3>2. ASSUME NEW i \in DOMAIN posted'
          PROVE  posted'[i] \in used' /\ posted'[i] # onBlit'
      <4>1. i + 1 # 1 /\ i + 1 \in DOMAIN posted /\ posted'[i] = posted[i + 1]
        BY ONLY <2>2, <2>3, <3>2
      <4>2. posted[i + 1] \in used /\ posted[i + 1] # posted[1]
        BY ONLY <4>1, <2>2, <2>4
      <4> QED
        BY ONLY <4>1, <4>2, <2>1, <2>2
    <3>3. ASSUME NEW i \in DOMAIN posted', NEW j \in DOMAIN posted', i # j
          PROVE  posted'[i] # posted'[j]
      <4>1. /\ i + 1 # j + 1
            /\ i + 1 \in DOMAIN posted /\ posted'[i] = posted[i + 1]
            /\ j + 1 \in DOMAIN posted /\ posted'[j] = posted[j + 1]
        BY ONLY <2>2, <2>3, <3>3
      <4> QED
        BY ONLY <4>1, <2>4
    <3> QED
      BY ONLY <3>1, <3>2, <3>3
  <2>6. HasImage' => /\ currentBuf' \in used' /\ currentBuf' # onBlit'
                     /\ \A i \in DOMAIN posted' : posted'[i] # currentBuf'
    BY ONLY <2>1, <2>2, <2>4
  <2> QED
    BY ONLY <2>5, <2>6
<1>26. CASE Uploaded
  BY <1>26 DEF Uploaded
<1>27. CASE UNCHANGED vars
  BY <1>27 DEF vars
<1>28. QED
  BY <1>1, <1>2, <1>3, <1>4, <1>5, <1>6, <1>7, <1>8, <1>9, <1>10, <1>11,
     <1>12, <1>13, <1>14, <1>15, <1>16, <1>17, <1>18, <1>19, <1>20, <1>21,
     <1>22, <1>23, <1>24, <1>25, <1>26, <1>27
     DEF Next, Waiting, Thread, Window, Gone

(* Frames are numbers. *)
LEMMA Numbers ==
    ASSUME ImageTypes
    PROVE  /\ frames \in Nat /\ target \in Nat /\ shown \in Nat
           /\ DOMAIN image = Buf /\ \A b \in Buf : image[b] \in Nat
<1>1. MaxFrames \in Nat /\ 0 .. MaxFrames \subseteq Nat
  BY BlitAssumption
<1>2. frames \in Nat /\ target \in Nat /\ shown \in Nat
  BY <1>1 DEF ImageTypes
<1>3. DOMAIN image = Buf /\ \A b \in Buf : image[b] \in Nat
  BY <1>1 DEF ImageTypes
<1> QED
  BY <1>2, <1>3

(* The parts about frames are preserved. *)
LEMMA WholeStep ==
    PlaceTypes /\ ImageTypes /\ Handshake /\ Whole /\ [Next]_vars => Whole'
<1> SUFFICES ASSUME PlaceTypes, ImageTypes, Handshake, Whole, [Next]_vars PROVE Whole'
  OBVIOUS
<1> USE DEF PlaceTypes, Handshake, Closing, AtWork, AtTarget, Whole, flags,
            events, cardVars, images, window
<1>1. CASE WaitForBuffer
  BY <1>1 DEF WaitForBuffer
<1>2. CASE BufferTest
  BY <1>2 DEF BufferTest
<1>3. CASE BufferSleep
  BY <1>3 DEF BufferSleep
<1>4. CASE BufferReset
  BY <1>4 DEF BufferReset
<1>5. CASE Blit
  <2>1. frames > 0 /\ frames \in Nat
    BY <1>5, Numbers DEF Blit
  <2>2. frames # 0
    BY ONLY <2>1
  <2> QED
    BY <1>5, <2>2 DEF Blit
<1>6. CASE BlitTest
  BY <1>6 DEF BlitTest
<1>7. CASE BlitSleep
  BY <1>7 DEF BlitSleep
<1>8. CASE BlitReset
  BY <1>8 DEF BlitReset
<1>9. CASE Request
  BY <1>9 DEF Request
<1>10. CASE Wake
  BY <1>10 DEF Wake
<1>11. CASE video_monitor_close
  BY <1>11 DEF video_monitor_close
<1>12. CASE CloseWake
  BY <1>12 DEF CloseWake
<1>13. CASE CloseJoin
  BY <1>13 DEF CloseJoin
<1>14. CASE ThreadTest
  BY <1>14 DEF ThreadTest
<1>15. CASE ThreadWait
  BY <1>15 DEF ThreadWait
<1>16. CASE ThreadReset
  BY <1>16 DEF ThreadReset
<1>17. CASE BlitSkip
  BY <1>17 DEF BlitSkip
<1>18. CASE BlitBegin
  BY <1>18 DEF BlitBegin
<1>19. CASE BlitCopied
  BY <1>19 DEF BlitCopied
<1>20. CASE Release
  BY <1>20 DEF Release
<1>21. CASE Notify
  BY <1>21 DEF Notify
<1>22. CASE Post
  BY <1>22 DEF Post
<1>23. CASE Finish
  BY <1>23 DEF Finish
<1>24. CASE Complete
  BY <1>24 DEF Complete
<1>25. CASE Upload
  BY <1>25 DEF Upload
<1>26. CASE Uploaded
  BY <1>26 DEF Uploaded
<1>27. CASE UNCHANGED vars
  BY <1>27 DEF vars
<1>28. QED
  BY <1>1, <1>2, <1>3, <1>4, <1>5, <1>6, <1>7, <1>8, <1>9, <1>10, <1>11,
     <1>12, <1>13, <1>14, <1>15, <1>16, <1>17, <1>18, <1>19, <1>20, <1>21,
     <1>22, <1>23, <1>24, <1>25, <1>26, <1>27
     DEF Next, Waiting, Thread, Window, Gone

LEMMA BoundedStep ==
    ImageTypes /\ Bounded /\ [Next]_vars => Bounded'
<1> SUFFICES ASSUME ImageTypes, Bounded, [Next]_vars PROVE Bounded'
  OBVIOUS
<1> USE DEF Bounded, flags, events, cardVars, images, window
<1>1. CASE WaitForBuffer
  BY <1>1 DEF WaitForBuffer
<1>2. CASE BufferTest
  BY <1>2 DEF BufferTest
<1>3. CASE BufferSleep
  BY <1>3 DEF BufferSleep
<1>4. CASE BufferReset
  <2>0. /\ frames \in Nat /\ target \in Nat /\ shown \in Nat
        /\ DOMAIN image = Buf /\ \A b \in Buf : image[b] \in Nat
    BY Numbers
  <2>1. /\ frames' = frames + 1 /\ target' = 0
        /\ UNCHANGED <<image, shown>>
    BY <1>4 DEF BufferReset, Torn
  <2> QED
    BY ONLY <2>0, <2>1, Bounded
<1>5. CASE Blit
  <2>0. /\ frames \in Nat /\ target \in Nat /\ shown \in Nat
        /\ DOMAIN image = Buf /\ \A b \in Buf : image[b] \in Nat
    BY Numbers
  <2>1. target' = frames /\ UNCHANGED <<frames, image, shown>>
    BY <1>5 DEF Blit
  <2> QED
    BY ONLY <2>0, <2>1, Bounded
<1>6. CASE BlitTest
  BY <1>6 DEF BlitTest
<1>7. CASE BlitSleep
  BY <1>7 DEF BlitSleep
<1>8. CASE BlitReset
  BY <1>8 DEF BlitReset
<1>9. CASE Request
  BY <1>9 DEF Request
<1>10. CASE Wake
  BY <1>10 DEF Wake
<1>11. CASE video_monitor_close
  BY <1>11 DEF video_monitor_close
<1>12. CASE CloseWake
  BY <1>12 DEF CloseWake
<1>13. CASE CloseJoin
  BY <1>13 DEF CloseJoin
<1>14. CASE ThreadTest
  BY <1>14 DEF ThreadTest
<1>15. CASE ThreadWait
  BY <1>15 DEF ThreadWait
<1>16. CASE ThreadReset
  BY <1>16 DEF ThreadReset
<1>17. CASE BlitSkip
  BY <1>17 DEF BlitSkip
<1>18. CASE BlitBegin
  <2>0. /\ frames \in Nat /\ target \in Nat /\ shown \in Nat
        /\ DOMAIN image = Buf /\ \A b \in Buf : image[b] \in Nat
    BY Numbers
  <2>1. /\ image' = [image EXCEPT ![currentBuf] = 0]
        /\ UNCHANGED <<frames, target, shown>>
    BY <1>18 DEF BlitBegin, Torn
  <2> QED
    BY ONLY <2>0, <2>1, Bounded
<1>19. CASE BlitCopied
  <2>0. /\ frames \in Nat /\ target \in Nat /\ shown \in Nat
        /\ DOMAIN image = Buf /\ \A b \in Buf : image[b] \in Nat
    BY Numbers
  <2>1. /\ image' = [image EXCEPT ![currentBuf] = target]
        /\ UNCHANGED <<frames, target, shown>>
    BY <1>19 DEF BlitCopied
  <2> QED
    BY ONLY <2>0, <2>1, Bounded
<1>20. CASE Release
  BY <1>20 DEF Release
<1>21. CASE Notify
  BY <1>21 DEF Notify
<1>22. CASE Post
  BY <1>22 DEF Post
<1>23. CASE Finish
  BY <1>23 DEF Finish
<1>24. CASE Complete
  BY <1>24 DEF Complete
<1>25. CASE Upload
  BY <1>25 DEF Upload
<1>26. CASE Uploaded
  <2>1. onBlit \in Buf /\ shown' = image[onBlit] /\ UNCHANGED <<frames, target, image>>
    BY <1>26 DEF Uploaded, ImageTypes
  <2> QED
    BY ONLY <2>1, Bounded
<1>27. CASE UNCHANGED vars
  BY <1>27 DEF vars
<1>28. QED
  BY <1>1, <1>2, <1>3, <1>4, <1>5, <1>6, <1>7, <1>8, <1>9, <1>10, <1>11,
     <1>12, <1>13, <1>14, <1>15, <1>16, <1>17, <1>18, <1>19, <1>20, <1>21,
     <1>22, <1>23, <1>24, <1>25, <1>26, <1>27
     DEF Next, Waiting, Thread, Window, Gone

(* The order is kept by a step that leaves images and window alone, unless *)
(* an image becomes copied.                                                *)
LEMMA InOrderKept ==
    ASSUME InOrder, UNCHANGED <<posted, image, onBlit, currentBuf, shown>>,
           Copied' => Copied, thread_run' => thread_run
    PROVE  InOrder'
  BY DEF InOrder, Good

LEMMA InOrderStep ==
    /\ PlaceTypes /\ ImageTypes /\ Handshake /\ Images /\ Whole /\ Bounded /\ InOrder
    /\ [Next]_vars
    => InOrder'
<1> SUFFICES ASSUME PlaceTypes, ImageTypes, Handshake, Images, Whole, Bounded, InOrder,
                    [Next]_vars
             PROVE  InOrder'
  OBVIOUS
<1> USE DEF InOrder, Good, flags, events, cardVars, images, window
<1>1. CASE WaitForBuffer
  BY <1>1, InOrderKept DEF WaitForBuffer, Copied, HasImage
<1>2. CASE BufferTest
  BY <1>2, InOrderKept DEF BufferTest, Copied, HasImage
<1>3. CASE BufferSleep
  BY <1>3, InOrderKept DEF BufferSleep, Copied, HasImage
<1>4. CASE BufferReset
  BY <1>4, InOrderKept DEF BufferReset, Copied, HasImage
<1>5. CASE Blit
  BY <1>5, InOrderKept DEF Blit, Copied, HasImage
<1>6. CASE BlitTest
  BY <1>6, InOrderKept DEF BlitTest, Copied, HasImage
<1>7. CASE BlitSleep
  BY <1>7, InOrderKept DEF BlitSleep, Copied, HasImage
<1>8. CASE BlitReset
  BY <1>8, InOrderKept DEF BlitReset, Copied, HasImage
<1>9. CASE Request
  BY <1>9, InOrderKept DEF Request, Copied, HasImage
<1>10. CASE Wake
  BY <1>10, InOrderKept DEF Wake, Copied, HasImage
<1>11. CASE video_monitor_close
  BY <1>11, InOrderKept DEF video_monitor_close, Copied, HasImage
<1>12. CASE CloseWake
  BY <1>12, InOrderKept DEF CloseWake, Copied, HasImage
<1>13. CASE CloseJoin
  BY <1>13, InOrderKept DEF CloseJoin, Copied, HasImage
<1>14. CASE ThreadTest
  BY <1>14, InOrderKept DEF ThreadTest, Copied, HasImage
<1>15. CASE ThreadWait
  BY <1>15, InOrderKept DEF ThreadWait, Copied, HasImage
<1>16. CASE ThreadReset
  BY <1>16, InOrderKept DEF ThreadReset, Copied, HasImage
<1>17. CASE BlitSkip
  BY <1>17, InOrderKept DEF BlitSkip, Copied, HasImage
<1>18. CASE BlitBegin
  <2>0. /\ frames \in Nat /\ target \in Nat /\ shown \in Nat
        /\ DOMAIN image = Buf /\ \A b \in Buf : image[b] \in Nat
    BY Numbers
  <2>1. /\ image' = [image EXCEPT ![currentBuf] = 0] /\ ~ Copied'
        /\ UNCHANGED <<thread_run, posted, onBlit, shown>>
    BY <1>18 DEF BlitBegin, Torn, Copied
  <2>2. /\ \A i \in DOMAIN posted : posted[i] # currentBuf /\ posted[i] \in Buf
        /\ onBlit # None => onBlit # currentBuf /\ onBlit \in Buf
    BY <1>18 DEF BlitBegin, Images, ImageTypes
  <2>3. \A b \in Buf : b # currentBuf => image'[b] = image[b]
    BY ONLY <2>0, <2>1
  <2>4. InOrder
    OBVIOUS
  <2> QED
    BY ONLY <2>1, <2>2, <2>3, <2>4
<1>19. CASE BlitCopied
  <2>0. /\ frames \in Nat /\ target \in Nat /\ shown \in Nat
        /\ DOMAIN image = Buf /\ \A b \in Buf : image[b] \in Nat
    BY Numbers
  <2>1. /\ image' = [image EXCEPT ![currentBuf] = target] /\ currentBuf \in Buf
        /\ thread_run => target = frames /\ frames # 0
        /\ UNCHANGED <<thread_run, posted, onBlit, currentBuf, shown>>
    BY <1>19 DEF BlitCopied, Whole, AtTarget, ImageTypes
  <2>2. /\ \A i \in DOMAIN posted : posted[i] # currentBuf /\ posted[i] \in Buf
        /\ onBlit # None => onBlit # currentBuf /\ onBlit \in Buf
    BY <1>19 DEF BlitCopied, Images, HasImage, ImageTypes
  <2>3. /\ \A b \in Buf : b # currentBuf => image'[b] = image[b]
        /\ image'[currentBuf] = target
    BY ONLY <2>0, <2>1
  <2>4. InOrder
    OBVIOUS
  <2>5. thread_run => /\ Good(currentBuf)' /\ shown <= image'[currentBuf]
                      /\ \A b \in Buf : image[b] <= image'[currentBuf]
    BY <2>0, <2>1, <2>3 DEF Bounded, Torn
  <2> QED
    BY ONLY <2>1, <2>2, <2>3, <2>4, <2>5
<1>20. CASE Release
  BY <1>20, InOrderKept DEF Release, Copied, HasImage
<1>21. CASE Notify
  BY <1>21, InOrderKept DEF Notify, Copied, HasImage
<1>22. CASE Post
  <2>1. /\ posted' = Append(posted, currentBuf) /\ Copied /\ ~ Copied'
        /\ posted \in Seq(Buf) /\ currentBuf \in Buf
        /\ UNCHANGED <<thread_run, onBlit, image, shown>>
    BY <1>22 DEF Post, Copied, HasImage, ImageTypes
  <2>2. \A i \in DOMAIN posted' :
            \/ i \in DOMAIN posted /\ posted'[i] = posted[i]
            \/ i = Len(posted) + 1 /\ i \notin DOMAIN posted /\ posted'[i] = currentBuf
    BY ONLY <2>1, Appended
  <2>3. \A i \in DOMAIN posted : i \in Nat /\ i < Len(posted) + 1 /\ ~ (Len(posted) + 1 < i)
    BY ONLY <2>1
  <2>4. InOrder
    OBVIOUS
  <2>5. ~ (Len(posted) + 1 < Len(posted) + 1)
    BY ONLY <2>1
  <2> QED
    BY ONLY <2>1, <2>2, <2>3, <2>4, <2>5
<1>23. CASE Finish
  BY <1>23, InOrderKept DEF Finish, Copied, HasImage
<1>24. CASE Complete
  BY <1>24, InOrderKept DEF Complete, Copied, HasImage
<1>25. CASE Upload
  <2>1. /\ posted \in Seq(Buf) /\ posted # <<>> /\ posted' = Tail(posted)
        /\ onBlit = None /\ onBlit' = Head(posted) /\ Copied' = Copied
        /\ UNCHANGED <<thread_run, image, currentBuf, shown>>
    BY <1>25 DEF Upload, ImageTypes, Copied, HasImage
  <2>2. /\ 1 \in DOMAIN posted /\ onBlit' = posted[1]
        /\ \A i \in DOMAIN posted' :
              i \in Nat \ {0} /\ i + 1 \in DOMAIN posted /\ posted'[i] = posted[i + 1]
    BY ONLY <2>1, Shifted
  <2>3. \A i, j \in DOMAIN posted' : 1 < i + 1 /\ (i < j => i + 1 < j + 1)
    BY ONLY <2>2
  <2>4. InOrder
    OBVIOUS
  <2> QED
    BY ONLY <2>1, <2>2, <2>3, <2>4
<1>26. CASE Uploaded
  <2>1. /\ onBlit # None /\ shown' = image[onBlit] /\ onBlit' = None /\ Copied' = Copied
        /\ UNCHANGED <<thread_run, posted, image, currentBuf>>
    BY <1>26 DEF Uploaded, Copied, HasImage
  <2>2. InOrder
    OBVIOUS
  <2> QED
    BY ONLY <2>1, <2>2
<1>27. CASE UNCHANGED vars
  BY <1>27, InOrderKept DEF vars, Copied, HasImage
<1>28. QED
  BY <1>1, <1>2, <1>3, <1>4, <1>5, <1>6, <1>7, <1>8, <1>9, <1>10, <1>11,
     <1>12, <1>13, <1>14, <1>15, <1>16, <1>17, <1>18, <1>19, <1>20, <1>21,
     <1>22, <1>23, <1>24, <1>25, <1>26, <1>27
     DEF Next, Waiting, Thread, Window, Gone

-----------------------------------------------------------------------------
(* The invariant holds in the first state: no thread has begun.            *)
LEMMA InitInvariant == Init => IInv
<1> SUFFICES ASSUME Init PROVE IInv
  OBVIOUS
<1>1. 0 \in Buf /\ 0 \in 0 .. MaxFrames /\ 0 <= 0
  BY BlitAssumption DEF Buf
<1>2. posted = <<>> /\ posted \in Seq(Buf) /\ DOMAIN posted = {}
  BY DEF Init
<1>3. FlagTypes /\ PlaceTypes
  BY DEF Init, FlagTypes, PlaceTypes
<1>4. ImageTypes
  BY <1>1, <1>2 DEF Init, ImageTypes, Torn
<1>5. Handshake
  BY DEF Init, Handshake, Closing, AtWork, AtTarget, RequestNoticed
<1>6. Images
  BY <1>2 DEF Init, Images, HasImage
<1>7. Whole
  BY DEF Init, Whole, AtTarget
<1>8. Bounded
  BY <1>1 DEF Init, Bounded, Torn
<1>9. InOrder
  BY <1>2 DEF Init, InOrder, Copied, HasImage
<1> QED
  BY <1>3, <1>4, <1>5, <1>6, <1>7, <1>8, <1>9 DEF IInv

(* The handshake of src/video/video.c and the ownership of the image       *)
(* buffers of RendererStack::blit() hold in every reachable state.         *)
THEOREM VideoInvariant == Spec => []IInv
<1>1. IInv /\ [Next]_vars => IInv'
  BY FlagStep, PlaceStep, ImageStep, HandshakeStep, ImagesStep, WholeStep,
     BoundedStep, InOrderStep DEF IInv
<1> QED
  BY InitInvariant, <1>1, PTL DEF Spec

(* Every variable of the blit_data_t handshake keeps its type, so the      *)
(* image index stays within the renderer's buffers.                        *)
THEOREM VideoTypeCorrect == Spec => []TypeOK
<1>1. IInv => TypeOK
  BY DEF IInv, FlagTypes, PlaceTypes, ImageTypes, TypeOK
<1> QED
  BY VideoInvariant, <1>1, PTL

(* video_wait_for_buffer_monitor() keeps the card out of the target buffer *)
(* while blit_thread() copies it.                                          *)
THEOREM VideoTargetStable == Spec => []TargetStable
<1>1. IInv => TargetStable
  BY DEF IInv, Handshake, Closing, AtTarget, TargetStable
<1> QED
  BY VideoInvariant, <1>1, PTL

(* No request of video_blit_memtoscreen_monitor() is lost between the      *)
(* wake-up event, its reset and the busy flag.                             *)
THEOREM VideoRequestNoticed == Spec => []RequestNoticed
<1>1. IInv => RequestNoticed
  BY DEF IInv, Handshake
<1> QED
  BY VideoInvariant, <1>1, PTL

(* RendererStack::blit() never writes the image onBlit() reads.            *)
THEOREM VideoImageStable == Spec => []ImageStable
<1>1. IInv => ImageStable
  BY DEF IInv, Images, HasImage, ImageStable
<1> QED
  BY VideoInvariant, <1>1, PTL

(* onBlit() shows whole frames, and never an earlier one after a later.    *)
THEOREM VideoShownInOrder == Spec => ShownInOrder
<1>1. IInv => (Uploaded /\ thread_run => shown' # Torn /\ shown' >= shown)
  <2> SUFFICES ASSUME IInv, Uploaded, thread_run
               PROVE  shown' # Torn /\ shown' >= shown
    OBVIOUS
  <2>1. shown' = image[onBlit] /\ Good(onBlit) /\ onBlit \in Buf
    BY DEF IInv, InOrder, ImageTypes, Uploaded
  <2>2. shown \in Nat /\ image[onBlit] \in Nat
    BY <2>1, Numbers DEF IInv
  <2> QED
    BY ONLY <2>1, <2>2 DEF Good
<1>2. IInv /\ [Next]_vars =>
          [Uploaded /\ thread_run => shown' # Torn /\ shown' >= shown]_vars
  BY <1>1
<1> QED
  BY VideoInvariant, <1>2, PTL DEF Spec, ShownInOrder

-----------------------------------------------------------------------------
(* Wake-ups, in both directions. *)

(* Who waits for the target buffer, for the last blit or for the end of    *)
(* the blit thread has been told, is being told, or waits for a blit       *)
(* thread that is awake.                                                   *)
NoWakeUpLost ==
    /\ card = "sleep buffer" =>
        \/ buffer_not_in_use \/ blitter \in {"notify", "notify copied"}
        \/ buffer_in_use /\ (wake_blit_thread \/ AtTarget)
    /\ card = "sleep blit" =>
        \/ blit_complete \/ blitter = "complete"
        \/ busy /\ (wake_blit_thread \/ AtWork)
    /\ card = "join" /\ blitter = "wait" => wake_blit_thread
    /\ card = "closed" => blitter = "ended"

(* The target buffer is in use only for a blit that is noticed. *)
Told ==
    /\ NoWakeUpLost
    /\ buffer_in_use => wake_blit_thread \/ card = "wake" \/ AtTarget
    /\ blitter = "ended" => ~ thread_run

LEMMA ToldStep ==
    FlagTypes /\ PlaceTypes /\ Handshake /\ Told /\ [Next]_vars => Told'
<1> SUFFICES ASSUME FlagTypes, PlaceTypes, Handshake, Told, [Next]_vars PROVE Told'
  OBVIOUS
<1> USE DEF FlagTypes, PlaceTypes, Handshake, Told, NoWakeUpLost, RequestNoticed, AtWork, AtTarget,
        Closing, flags, events, cardVars, images, window
<1>1. CASE WaitForBuffer
  BY <1>1 DEF WaitForBuffer
<1>2. CASE BufferTest
  BY <1>2 DEF BufferTest
<1>3. CASE BufferSleep
  BY <1>3 DEF BufferSleep
<1>4. CASE BufferReset
  BY <1>4 DEF BufferReset
<1>5. CASE Blit
  BY <1>5 DEF Blit
<1>6. CASE BlitTest
  BY <1>6 DEF BlitTest
<1>7. CASE BlitSleep
  BY <1>7 DEF BlitSleep
<1>8. CASE BlitReset
  BY <1>8 DEF BlitReset
<1>9. CASE Request
  BY <1>9 DEF Request
<1>10. CASE Wake
  BY <1>10 DEF Wake
<1>11. CASE video_monitor_close
  BY <1>11 DEF video_monitor_close
<1>12. CASE CloseWake
  BY <1>12 DEF CloseWake
<1>13. CASE CloseJoin
  BY <1>13 DEF CloseJoin
<1>14. CASE ThreadTest
  BY <1>14 DEF ThreadTest
<1>15. CASE ThreadWait
  BY <1>15 DEF ThreadWait
<1>16. CASE ThreadReset
  BY <1>16 DEF ThreadReset
<1>17. CASE BlitSkip
  BY <1>17 DEF BlitSkip
<1>18. CASE BlitBegin
  BY <1>18 DEF BlitBegin
<1>19. CASE BlitCopied
  BY <1>19 DEF BlitCopied
<1>20. CASE Release
  BY <1>20 DEF Release
<1>21. CASE Notify
  BY <1>21 DEF Notify
<1>22. CASE Post
  BY <1>22 DEF Post
<1>23. CASE Finish
  BY <1>23 DEF Finish
<1>24. CASE Complete
  BY <1>24 DEF Complete
<1>25. CASE Upload
  BY <1>25 DEF Upload
<1>26. CASE Uploaded
  BY <1>26 DEF Uploaded
<1>27. CASE Gone
  BY <1>27 DEF Gone, vars
<1>28. CASE UNCHANGED vars
  BY <1>28 DEF vars
<1> QED
  BY <1>1, <1>2, <1>3, <1>4, <1>5, <1>6, <1>7, <1>8, <1>9, <1>10, <1>11, <1>12, <1>13,
     <1>14, <1>15, <1>16, <1>17, <1>18, <1>19, <1>20, <1>21, <1>22, <1>23, <1>24,
     <1>25, <1>26, <1>27, <1>28
     DEF Next, Waiting, Thread, Window

(* No wake-up of the card or of the blit thread is lost: the CPU thread    *)
(* sleeps for the target buffer, for the last blit or for the end of the   *)
(* blit thread only while the event is set, is about to be set, or the     *)
(* blit thread is awake or woken and will get there, although each side    *)
(* resets its event itself and tests a plain flag outside any lock; and    *)
(* the monitor is freed only after the blit thread has ended.              *)
THEOREM VideoNoWakeUpLost == Spec => []NoWakeUpLost
<1>1. Init => Told
  BY DEF Init, Told, NoWakeUpLost
<1>2. IInv /\ Told /\ [Next]_vars => Told'
  BY ToldStep DEF IInv
<1>3. Told => NoWakeUpLost
  BY DEF Told
<1> QED
  BY VideoInvariant, <1>1, <1>2, <1>3, PTL DEF Spec
=============================================================================
