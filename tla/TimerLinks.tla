----------------------------- MODULE TimerLinks -----------------------------
(***************************************************************************)
(* The doubly linked list of src/timer.c, pointer by pointer: what         *)
(* timer_enable(), timer_disable() and timer_process() assign, and the     *)
(* hard reset that closes the list and starts again with it.  Deadlines    *)
(* are plain keys here; module Timer has their arithmetic.                 *)
(***************************************************************************)
EXTENDS Naturals, FiniteSets, Sequences, SequencesExt

CONSTANTS
    Timers,     \* all pc_timer_t objects
    NULL,       \* the null pointer
    Keys        \* deadlines

ASSUME LinksAssumption ==
    NULL \notin Timers /\ IsFiniteSet(Timers) /\ Keys \subseteq Nat /\ 0 \in Keys

VARIABLES
    head,       \* timer_head
    next, prev, \* the links of every timer
    enabled,    \* timers with TIMER_ENABLED set
    key,        \* their deadlines
    inited,     \* timer_inited
    added       \* timers set up by timer_add() since timer_init()

links == <<head, next, prev>>
vars == <<head, next, prev, enabled, key, inited, added>>

List == [head |-> head, next |-> next, prev |-> prev]

SetLinks(l) == head' = l.head /\ next' = l.next /\ prev' = l.prev

(* The timers reached from h along the next links nx.  One step more than  *)
(* there are timers: a walk that has not ended by then is in a cycle.      *)
Walk(h, nx) ==
    LET node[i \in 1 .. Cardinality(Timers) + 1] ==
            IF i = 1 THEN h
            ELSE IF node[i - 1] = NULL THEN NULL ELSE nx[node[i - 1]]
    IN  [i \in 1 .. Cardinality({j \in DOMAIN node : node[j] # NULL}) |-> node[i]]

-----------------------------------------------------------------------------
(* Seeded fault: the timer behind keeps its prev link. *)
UnlinkedForward(l, t) ==
    [head |-> IF l.prev[t] = NULL THEN l.next[t] ELSE l.head,
     next |-> [u \in Timers |-> IF u = t THEN NULL
                                ELSE IF u = l.prev[t] THEN l.next[t] ELSE l.next[u]],
     prev |-> [l.prev EXCEPT ![t] = NULL]]

(* timer_disable(): the neighbours of t are linked to each other. *)
Unlinked(l, t) ==
    [head |-> IF l.prev[t] = NULL THEN l.next[t] ELSE l.head,
     next |-> [u \in Timers |-> IF u = t THEN NULL
                                ELSE IF u = l.prev[t] THEN l.next[t] ELSE l.next[u]],
     prev |-> [u \in Timers |-> IF u = t THEN NULL
                                ELSE IF u = l.next[t] THEN l.prev[t] ELSE l.prev[u]]]

(* Seeded fault: a timer goes behind those that have its deadline. *)
LastNotLater(l, k) ==
    LET walk == Walk(l.head, l.next)
        ahead == {i \in DOMAIN walk : k < key[walk[i]]}
    IN  IF ahead = {} THEN NULL
        ELSE walk[CHOOSE i \in ahead : \A j \in ahead : i <= j]

(* The search of timer_enable(): the first timer not due before k. *)
FirstNotBefore(l, k) ==
    LET walk == Walk(l.head, l.next)
        later == {i \in DOMAIN walk : k <= key[walk[i]]}
    IN  IF later = {} THEN NULL
        ELSE walk[CHOOSE i \in later : \A j \in later : i <= j]

(* timer_enable(): into an empty list, in front of the head, in front of a *)
(* timer behind the head, or at the end (which leaves timer->next alone).  *)
Linked(l, t, k) ==
    LET node == FirstNotBefore(l, k)
        before == IF node = NULL THEN Last(Walk(l.head, l.next)) ELSE l.prev[node]
    IN  IF l.head = NULL
        THEN [head |-> t, next |-> [l.next EXCEPT ![t] = NULL],
                          prev |-> [l.prev EXCEPT ![t] = NULL]]
        ELSE IF node = l.head
        THEN [head |-> t, next |-> [l.next EXCEPT ![t] = node],
                          prev |-> [l.prev EXCEPT ![t] = NULL, ![node] = t]]
        ELSE IF node # NULL
        THEN [head |-> l.head,
              next |-> [l.next EXCEPT ![t] = node, ![before] = t],
              prev |-> [l.prev EXCEPT ![t] = before, ![node] = t]]
        ELSE [head |-> l.head, next |-> [l.next EXCEPT ![before] = t],
                               prev |-> [l.prev EXCEPT ![t] = before]]

(* The fatal() of timer_disable() and the one of timer_enable(). *)
IsolatedButEnabled(t) ==
    t \in enabled /\ next[t] = NULL /\ prev[t] = NULL /\ t # head
LinkedButDisabled(t) ==
    t \notin enabled /\ (next[t] # NULL \/ prev[t] # NULL)

Fatal(t) == IsolatedButEnabled(t) \/ LinkedButDisabled(t)

-----------------------------------------------------------------------------
Init ==
    /\ head = NULL
    /\ next = [t \in Timers |-> NULL] /\ prev = [t \in Timers |-> NULL]
    /\ enabled = {} /\ key = [t \in Timers |-> 0]
    /\ inited = FALSE /\ added = {}

timer_init ==
    /\ ~ inited
    /\ inited' = TRUE /\ added' = {}
    /\ UNCHANGED <<links, enabled, key>>

(* A device sets its timer up, and may start it at once. *)
timer_add(t) ==
    /\ inited /\ t \notin added
    /\ next' = [next EXCEPT ![t] = NULL] /\ prev' = [prev EXCEPT ![t] = NULL]
    /\ enabled' = enabled \ {t}
    /\ key' = [key EXCEPT ![t] = 0]
    /\ added' = added \cup {t}
    /\ UNCHANGED <<head, inited>>

TimerAddStarted(t, k) ==
    /\ inited /\ t \notin added
    /\ SetLinks(Linked([List EXCEPT !.next[t] = NULL, !.prev[t] = NULL], t, k))
    /\ enabled' = enabled \cup {t}
    /\ key' = [key EXCEPT ![t] = k]
    /\ added' = added \cup {t}
    /\ UNCHANGED inited

timer_enable(t, k) ==
    /\ inited /\ t \in added /\ ~ Fatal(t)
    /\ SetLinks(Linked(IF t \in enabled THEN Unlinked(List, t) ELSE List, t, k))
    /\ enabled' = enabled \cup {t}
    /\ key' = [key EXCEPT ![t] = k]
    /\ UNCHANGED <<inited, added>>

timer_disable(t) ==
    /\ inited /\ t \in added \cap enabled /\ ~ Fatal(t)
    /\ SetLinks(Unlinked(List, t))
    /\ enabled' = enabled \ {t}
    /\ UNCHANGED <<key, inited, added>>

(* timer_process() takes the head off the list. *)
timer_process ==
    /\ inited /\ head # NULL
    /\ head' = next[head]
    /\ prev' = [t \in Timers |-> IF t \in {next[head], head} THEN NULL ELSE prev[t]]
    /\ next' = [next EXCEPT ![head] = NULL]
    /\ enabled' = enabled \ {head}
    /\ UNCHANGED <<key, inited, added>>

(* The hard reset.  The loop clears the links of a timer before it follows *)
(* them, so it ends with the head.                                         *)
timer_close ==
    /\ inited
    /\ next' = [t \in Timers |-> IF t = head THEN NULL ELSE next[t]]
    /\ prev' = [t \in Timers |-> IF t = head THEN NULL ELSE prev[t]]
    /\ head' = NULL /\ inited' = FALSE
    /\ UNCHANGED <<enabled, key, added>>

Next ==
    \/ timer_init
    \/ timer_process
    \/ timer_close
    \/ \E t \in Timers : timer_add(t) \/ timer_disable(t)
    \/ \E t \in Timers, k \in Keys : TimerAddStarted(t, k) \/ timer_enable(t, k)

Spec == Init /\ [][Next]_vars

-----------------------------------------------------------------------------
(* The list reached from the head is free of cycles, its prev links run    *)
(* back along its next links, and it holds exactly the timers of this      *)
(* session that are flagged TIMER_ENABLED - also after a hard reset that   *)
(* left links and flags of the last session behind.  So neither fatal() of *)
(* timer_enable() and timer_disable() can be reached by a timer that       *)
(* timer_add() has set up in this session.                                 *)
WellLinked ==
    LET walk == Walk(head, next)
    IN  inited =>
          /\ Len(walk) <= Cardinality(Timers)
          /\ ToSet(walk) = enabled \cap added
          /\ \A i \in DOMAIN walk :
                prev[walk[i]] = IF i = 1 THEN NULL ELSE walk[i - 1]
          /\ \A t \in added : ~ Fatal(t)

(* The pointers implement the queue of timers in the order of deadlines.   *)
Queue == INSTANCE TimerQueue WITH queue <- Walk(head, next)
ImplementsQueue == Queue!Spec
=============================================================================
