----------------------------- MODULE TimerQueue -----------------------------
(***************************************************************************)
(* What the linked list of src/timer.c stands for: a queue of timers in    *)
(* the order of their deadlines, with the first to expire at the head.  A  *)
(* timer goes in front of the timers that have its deadline already.       *)
(***************************************************************************)
EXTENDS Naturals, TimerList

CONSTANTS Timers, Keys

VARIABLES queue, key

Init == queue = <<>> /\ key \in [Timers -> Keys]

Insert(t, k) ==
    LET rest == Without(queue, t)
    IN  \E i \in 1 .. Len(rest) + 1 :
            /\ \A j \in 1 .. i - 1 : key[rest[j]] < k
            /\ i <= Len(rest) => k <= key[rest[i]]
            /\ queue' = InsertAt(rest, i, t)
            /\ key' = [key EXCEPT ![t] = k]

Delete(t) == queue' = Without(queue, t) /\ UNCHANGED key

Expire == queue # <<>> /\ queue' = Tail(queue) /\ UNCHANGED key

(* A timer outside the queue is set up anew. *)
Renew(t) ==
    /\ t \notin ToSet(queue)
    /\ \E k \in Keys : key' = [key EXCEPT ![t] = k]
    /\ UNCHANGED queue

Clear == queue' = <<>> /\ UNCHANGED key

Next ==
    \/ \E t \in Timers, k \in Keys : Insert(t, k)
    \/ \E t \in Timers : Delete(t) \/ Renew(t)
    \/ Expire
    \/ Clear

Spec == Init /\ [][Next]_<<queue, key>>
=============================================================================
