---------------------------- MODULE MCTimerLinks ----------------------------
(* Four timers, which are interchangeable. *)
EXTENDS TimerLinks, TLC

CONSTANTS t1, t2, t3, t4

Symmetry == Permutations({t1, t2, t3, t4})
=============================================================================
