------------------------------- MODULE MCTimer -------------------------------
(* A small instance of Timer: a counter of ten or twelve values, two       *)
(* fractions of a cycle, and doubles of two significant bits.              *)
EXTENDS Timer

CONSTANTS t0, t1, t2, t3, t4

MCDelays == {[integer |-> 2, frac |-> 1]}
MCOnesecDelay == [integer |-> 1, frac |-> 0]
MCDoubles == {0, 1} \cup {m * 2^e : m \in {2, 3}, e \in 0 .. 4}
==============================================================================
