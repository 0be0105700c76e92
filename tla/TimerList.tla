----------------------------- MODULE TimerList ------------------------------
(***************************************************************************)
(* The list of enabled timers, head first, as a sequence: what is left of  *)
(* it when a timer is taken out.                                           *)
(***************************************************************************)
EXTENDS Sequences, SequencesExt

(* Seeded fault: an enabled timer that is enabled again is not taken out. *)
StillWith(q, t) == q

Without(q, t) ==
    IF t \in ToSet(q)
    THEN RemoveAt(q, CHOOSE i \in DOMAIN q : q[i] = t)
    ELSE q
=============================================================================
