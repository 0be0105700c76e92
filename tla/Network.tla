------------------------------- MODULE Network -------------------------------
(***************************************************************************)
(* The packet queues between an emulated network card and the host:        *)
(* src/network/network.c, with SLiRP (src/network/net_slirp.c) as the host *)
(* provider.                                                               *)
(*                                                                         *)
(* The CPU thread runs the card: it queues packets to transmit at any time *)
(* and polls the queues from a timer.  The provider's thread sleeps on two *)
(* events.  Queues and threads pass packets on by swapping buffers, never  *)
(* by copying them, under one mutex for each direction.  What is done      *)
(* under a mutex is one action.                                            *)
(***************************************************************************)
EXTENDS Integers, Sequences, SequencesExt, FiniteSetsExt

CONSTANTS
    QueueLen,   \* NET_QUEUE_LEN, a power of two; also SLIRP_PKT_BATCH
    PipeCap,    \* notifications the TX event's pipe holds
    LinkStates, \* states of the link the user can choose
    MaxTx,      \* bound: packets the guest transmits
    MaxRx       \* bound: packets the network sends

ASSUME NetworkAssumption ==
    /\ QueueLen \in Nat \ {0, 1} /\ PipeCap \in Nat \ {0}
    /\ MaxTx \in Nat /\ MaxRx \in Nat /\ LinkStates # {}

Index == 0 .. QueueLen - 1

(* A slot is a netpkt_t: one of a queue, card->queued_pkt, slirp->pkt or   *)
(* one of slirp->pkt_tx_v.  Every slot starts with a buffer of its own,    *)
(* which is named after it.                                                *)
Queues  == {"RX", "TX_VM", "TX_HOST", "RX_ON_TX"}
Slots   == ((Queues \cup {"pkt_tx_v"}) \X Index) \cup ({"queued_pkt", "pkt"} \X {0})
Buffers == Slots

queued_pkt == <<"queued_pkt", 0>>
pkt        == <<"pkt", 0>>

VARIABLES
    data,       \* slot -> its buffer
    len,        \* slot -> 0, or 1 for a packet
    mem,        \* buffer -> the packet in it, a number
    head, tail, \* queue -> its indices
    cpu,        \* where the CPU thread is
    turn,       \* turns of the receive loop taken
    link,       \* [conf, card]: the state chosen, the state the card knows
    tx_event,   \* notifications pending
    stop_event, \* told to stop
    seen,       \* [stop, tx]: the events poll() found pending, slirp->pfd
    host,       \* where the provider's thread is
    got, at,    \* packets in pkt_tx_v, and the next of them
    recv_on_tx, \* slirp->recv_on_tx
    made,       \* packets the network has sent
    accepted, sent,     \* history: transmitted by the guest, out on the network
    received, delivered \* history: put on the RX queue, taken by the card

slots == <<data, len, mem>>
cpuVars == <<cpu, turn, link>>
hostVars == <<tx_event, stop_event, seen, host, got, at, recv_on_tx, made>>
history == <<accepted, sent, received, delivered>>
vars == <<slots, head, tail, cpuVars, hostVars, history>>

-----------------------------------------------------------------------------
(* The queue operations. *)

(* "& NET_QUEUE_LEN_MASK"; no index gets as far as 2 * QueueLen. *)
Wrap(i) == IF i >= QueueLen THEN i - QueueLen ELSE i
Count(q) == Wrap(head[q] - tail[q] + QueueLen)

(* Seeded fault: a queue takes a packet more than it can hold. *)
NeverFull(q) == FALSE

network_queue_full(q)  == Wrap(head[q] + 1) = tail[q]
network_queue_empty(q) == head[q] = tail[q]

(* The packets in queue q, oldest first. *)
Contents(q) == [i \in 1 .. Count(q) |-> mem[data[<<q, Wrap(tail[q] + i - 1)>>]]]

(* Seeded fault: a packet's buffer is handed on, and none handed back. *)
HandedOver(partner) ==
    /\ data' = [s \in Slots |-> IF len[partner[s]] = 1 THEN data[partner[s]] ELSE data[s]]
    /\ len' = [s \in Slots |-> len[partner[s]]]

(* network_swap_packet(): every slot changes places with its partner. *)
Swapped(partner) ==
    /\ data' = [s \in Slots |-> data[partner[s]]]
    /\ len' = [s \in Slots |-> len[partner[s]]]

(* n slots of a queue from an index on, of pkt_tx_v, and a slot alone. *)
Run(q, first, n) == [i \in 0 .. n - 1 |-> <<q, Wrap(first + i)>>]
Batch(n)         == [i \in 0 .. n - 1 |-> <<"pkt_tx_v", i>>]
Alone(s)         == [i \in 0 .. 0 |-> s]

(* Slot f[i] and slot g[i] are partners for every i. *)
Partners(f, g) ==
    [s \in Slots |->
        IF \E i \in DOMAIN f : s = f[i] THEN g[CHOOSE i \in DOMAIN f : s = f[i]]
        ELSE IF \E i \in DOMAIN g : s = g[i] THEN f[CHOOSE i \in DOMAIN g : s = g[i]]
        ELSE s]

Put(q, n) == head' = [head EXCEPT ![q] = Wrap(@ + n)]
Get(q, n) == tail' = [tail EXCEPT ![q] = Wrap(@ + n)]

(* network_queue_put_swap() of a slot that holds a packet. *)
network_queue_put_swap(q, s) ==
    /\ Swapped(Partners(Run(q, head[q], 1), Alone(s)))
    /\ Put(q, 1)

(* network_tx_popv(), network_rx_on_tx_popv(): all the packets there are,  *)
(* as many as the vector holds.                                            *)
PopV(q) ==
    /\ Swapped(Partners(Run(q, tail[q], Count(q)), Batch(Count(q))))
    /\ Get(q, Count(q))
    /\ got' = Count(q) /\ at' = 0

(* A packet is copied into the buffer of slot s. *)
Fill(s, packet) == mem' = [mem EXCEPT ![data[s]] = packet]

-----------------------------------------------------------------------------
Init ==
    /\ data = [s \in Slots |-> s] /\ len = [s \in Slots |-> 0]
    /\ mem = [b \in Buffers |-> 0]
    /\ head = [q \in Queues |-> 0] /\ tail = [q \in Queues |-> 0]
    /\ cpu = "run" /\ turn = 0
    /\ \E l \in LinkStates : link = [conf |-> l, card |-> l]
    /\ tx_event = 0 /\ stop_event = FALSE /\ seen = [stop |-> FALSE, tx |-> FALSE]
    /\ host = "poll" /\ got = 0 /\ at = 0 /\ recv_on_tx = FALSE /\ made = 0
    /\ accepted = <<>> /\ sent = <<>> /\ received = <<>> /\ delivered = <<>>

(* The card transmits: network_queue_put(), or the packet is dropped. *)
network_tx ==
    /\ cpu = "run" /\ Len(accepted) < MaxTx
    /\ ~ network_queue_full("TX_VM")
    /\ LET s == <<"TX_VM", head["TX_VM"]>>
       IN  /\ Fill(s, Len(accepted) + 1)
           /\ len' = [len EXCEPT ![s] = 1]
    /\ Put("TX_VM", 1)
    /\ accepted' = Append(accepted, Len(accepted) + 1)
    /\ UNCHANGED <<data, tail, cpuVars, hostVars, sent, received, delivered>>

(* The user plugs the cable in or out. *)
network_connect ==
    /\ \E l \in LinkStates \ {link.conf} : link' = [link EXCEPT !.conf = l]
    /\ UNCHANGED <<slots, head, tail, cpu, turn, hostVars, history>>

(* Seeded fault: the poll does not look at the link. *)
PollOnly ==
    /\ cpu = "run"
    /\ cpu' = "receive" /\ turn' = 0
    /\ UNCHANGED <<slots, head, tail, link, hostVars, history>>

(* The timer: network_rx_queue() begins, and tells the card its link. *)
network_rx_queue ==
    /\ cpu = "run"
    /\ cpu' = "receive" /\ turn' = 0
    /\ link' = [link EXCEPT !.card = link.conf]
    /\ UNCHANGED <<slots, head, tail, hostVars, history>>

(* A turn of its receive loop: a packet the card refused is still there.   *)
ReceiveHeld ==
    /\ cpu = "receive" /\ len[queued_pkt] # 0
    /\ cpu' = "card"
    /\ UNCHANGED <<slots, head, tail, turn, link, hostVars, history>>

ReceiveNext ==
    /\ cpu = "receive" /\ len[queued_pkt] = 0
    /\ IF network_queue_empty("RX")
       THEN /\ cpu' = "transmit"
            /\ UNCHANGED <<data, len, tail>>
       ELSE /\ Swapped(Partners(Run("RX", tail["RX"], 1), Alone(queued_pkt)))
            /\ Get("RX", 1)
            /\ cpu' = "card"
    /\ UNCHANGED <<mem, head, turn, link, hostVars, history>>

(* card->rx() takes the packet, or has no room for it. *)
CardTakes ==
    /\ cpu = "card"
    /\ len' = [len EXCEPT ![queued_pkt] = 0]
    /\ delivered' = Append(delivered, mem[data[queued_pkt]])
    /\ turn' = turn + 1
    /\ cpu' = IF turn + 1 < QueueLen THEN "receive" ELSE "transmit"
    /\ UNCHANGED <<data, mem, head, tail, link, hostVars, accepted, sent, received>>

(* Seeded fault: a packet the card has no room for is forgotten. *)
CardDrops ==
    /\ cpu = "card"
    /\ cpu' = "transmit"
    /\ len' = [len EXCEPT ![queued_pkt] = 0]
    /\ UNCHANGED <<data, mem, head, tail, turn, link, hostVars, history>>

CardRefuses ==
    /\ cpu = "card"
    /\ cpu' = "transmit"
    /\ UNCHANGED <<slots, head, tail, turn, link, hostVars, history>>

(* network_queue_move() from TX_VM to TX_HOST, as far as there is room. *)
Transmit ==
    LET n == Min({Count("TX_VM"), QueueLen - 1 - Count("TX_HOST")})
    IN  /\ cpu = "transmit"
        /\ Swapped(Partners(Run("TX_VM", tail["TX_VM"], n),
                            Run("TX_HOST", head["TX_HOST"], n)))
        /\ Get("TX_VM", n) /\ Put("TX_HOST", n)
        /\ cpu' = IF n > 0 THEN "notify" ELSE "run"
        /\ UNCHANGED <<mem, turn, link, hostVars, history>>

(* host_drv.notify_in(): net_event_set(). *)
net_slirp_in_available ==
    /\ cpu = "notify" /\ cpu' = "run"
    /\ tx_event' = Min({tx_event + 1, PipeCap})
    /\ UNCHANGED <<slots, head, tail, turn, link, stop_event, seen, host, got, at,
                   recv_on_tx, made, history>>

(* netcard_close() stops the timer and the thread, and waits for it. *)
netcard_close ==
    /\ cpu = "run"
    /\ cpu' = "close" /\ stop_event' = TRUE
    /\ UNCHANGED <<slots, head, tail, turn, link, tx_event, seen, host, got, at,
                   recv_on_tx, made, history>>

NetcardClosed ==
    /\ cpu = "close" /\ host = "done"
    /\ cpu' = "closed"
    /\ UNCHANGED <<slots, head, tail, turn, link, hostVars, history>>

(* The card is gone. *)
Gone == cpu = "closed" /\ UNCHANGED vars

-----------------------------------------------------------------------------
(* The provider's thread. *)

(* poll() returns: an event is pending, or a socket has something to read. *)
HostPoll ==
    /\ host = "poll" /\ (stop_event \/ tx_event > 0 \/ made < MaxRx)
    /\ host' = "polled"
    /\ seen' = [stop |-> stop_event, tx |-> tx_event > 0]
    /\ UNCHANGED <<slots, head, tail, cpuVars, tx_event, stop_event, got, at,
                   recv_on_tx, made, history>>

(* slirp_pollfds_poll(): libslirp has a packet for the guest, which        *)
(* net_slirp_send_packet() copies into slirp->pkt ...                      *)
HostReceive ==
    /\ host = "polled" /\ made < MaxRx
    /\ Fill(pkt, made + 1)
    /\ len' = [len EXCEPT ![pkt] = 1]
    /\ made' = made + 1
    /\ host' = "put"
    /\ UNCHANGED <<data, head, tail, cpuVars, tx_event, stop_event, seen, got, at,
                   recv_on_tx, history>>

(* ... and puts on the RX queue, if there is room. *)
network_rx_put_pkt(s) ==
    IF network_queue_full("RX")
    THEN UNCHANGED <<data, len, head, received>>
    ELSE /\ network_queue_put_swap("RX", s)
         /\ received' = Append(received, mem[data[s]])

HostPut ==
    /\ host = "put" /\ host' = "polled"
    /\ network_rx_put_pkt(pkt)
    /\ UNCHANGED <<mem, tail, cpuVars, tx_event, stop_event, seen, got, at, recv_on_tx,
                   made, accepted, sent, delivered>>

HostStop ==
    /\ host = "polled" /\ seen.stop
    /\ stop_event' = FALSE /\ host' = "done"
    /\ UNCHANGED <<slots, head, tail, cpuVars, tx_event, seen, got, at, recv_on_tx, made,
                   history>>

(* Only sockets were ready. *)
HostIdle ==
    /\ host = "polled" /\ ~ seen.stop /\ ~ seen.tx
    /\ host' = "poll"
    /\ UNCHANGED <<slots, head, tail, cpuVars, tx_event, stop_event, seen, got, at,
                   recv_on_tx, made, history>>

(* net_event_clear(), then network_tx_popv(). *)
HostWake ==
    /\ host = "polled" /\ ~ seen.stop /\ seen.tx
    /\ tx_event' = tx_event - 1
    /\ host' = "pop"
    /\ UNCHANGED <<slots, head, tail, cpuVars, stop_event, seen, got, at, recv_on_tx, made,
                   history>>

HostPop ==
    /\ host = "pop" /\ host' = "send"
    /\ PopV("TX_HOST")
    /\ UNCHANGED <<mem, head, cpuVars, tx_event, stop_event, seen, recv_on_tx, made,
                   history>>

(* net_slirp_in(): a packet goes out ... *)
HostSend ==
    /\ host = "send" /\ at < got
    /\ sent' = Append(sent, mem[data[<<"pkt_tx_v", at>>]])
    /\ at' = at + 1
    /\ UNCHANGED <<slots, head, tail, cpuVars, tx_event, stop_event, seen, host, got,
                   recv_on_tx, made, accepted, received, delivered>>

(* ... and libslirp may answer it at once: net_slirp_send_packet() keeps   *)
(* the answers on the RX_ON_TX queue, as many as it has room for.          *)
HostAnswer ==
    /\ host = "send" /\ at > 0 /\ made < MaxRx
    /\ made' = made + 1 /\ recv_on_tx' = TRUE
    /\ Fill(pkt, made + 1)
    /\ IF network_queue_full("RX_ON_TX")
       THEN len' = [len EXCEPT ![pkt] = 1] /\ UNCHANGED <<data, head>>
       ELSE LET partner == Partners(Run("RX_ON_TX", head["RX_ON_TX"], 1), Alone(pkt))
            IN  /\ data' = [s \in Slots |-> data[partner[s]]]
                /\ len' = [s \in Slots |->
                              IF partner[s] = pkt THEN 1 ELSE len[partner[s]]]
                /\ Put("RX_ON_TX", 1)
    /\ UNCHANGED <<tail, cpuVars, tx_event, stop_event, seen, host, got, at, history>>

(* Seeded fault: the event is cleared after the packets were taken. *)
HostSentClears ==
    /\ host = "send" /\ at = got
    /\ host' = IF recv_on_tx THEN "deferred" ELSE "poll"
    /\ tx_event' = 0
    /\ UNCHANGED <<slots, head, tail, cpuVars, stop_event, seen, got, at, recv_on_tx, made,
                   history>>

HostSent ==
    /\ host = "send" /\ at = got
    /\ host' = IF recv_on_tx THEN "deferred" ELSE "poll"
    /\ UNCHANGED <<slots, head, tail, cpuVars, tx_event, stop_event, seen, got, at,
                   recv_on_tx, made, history>>

(* Seeded fault: the loop does not look at what it popped. *)
HostDeferredAgain ==
    /\ host = "deferred"
    /\ PopV("RX_ON_TX")
    /\ host' = "forward"
    /\ UNCHANGED <<mem, head, cpuVars, tx_event, stop_event, seen, recv_on_tx, made,
                   history>>

(* net_slirp_rx_deferred_packets(). *)
HostDeferred ==
    /\ host = "deferred"
    /\ PopV("RX_ON_TX")
    /\ IF network_queue_empty("RX_ON_TX")
       THEN host' = "poll" /\ recv_on_tx' = FALSE
       ELSE host' = "forward" /\ UNCHANGED recv_on_tx
    /\ UNCHANGED <<mem, head, cpuVars, tx_event, stop_event, seen, made, history>>

HostForward ==
    /\ host = "forward" /\ at < got
    /\ network_rx_put_pkt(<<"pkt_tx_v", at>>)
    /\ at' = at + 1
    /\ UNCHANGED <<mem, tail, cpuVars, tx_event, stop_event, seen, host, got, recv_on_tx,
                   made, accepted, sent, delivered>>

HostForwarded ==
    /\ host = "forward" /\ at = got
    /\ host' = "deferred"
    /\ UNCHANGED <<slots, head, tail, cpuVars, tx_event, stop_event, seen, got, at,
                   recv_on_tx, made, history>>

-----------------------------------------------------------------------------
Poll ==
    \/ network_rx_queue \/ ReceiveHeld \/ ReceiveNext \/ CardTakes \/ CardRefuses
    \/ Transmit \/ net_slirp_in_available

Host ==
    \/ HostPoll \/ HostPut \/ HostStop \/ HostIdle \/ HostWake \/ HostPop \/ HostSend
    \/ HostSent
    \/ HostDeferred \/ HostForward \/ HostForwarded

Next ==
    \/ Poll
    \/ network_tx \/ network_connect \/ netcard_close \/ NetcardClosed \/ Gone
    \/ Host \/ HostReceive \/ HostAnswer

Spec == Init /\ [][Next]_vars

(* The timer is re-armed by every poll, both threads are scheduled, and a  *)
(* card that is offered a packet again and again takes it some time.       *)
FairSpec ==
    /\ Spec
    /\ WF_vars(Poll) /\ WF_vars(NetcardClosed) /\ WF_vars(Host)
    /\ SF_vars(CardTakes)

-----------------------------------------------------------------------------
(* Every variable has its type. *)
TypeOK ==
    /\ data \in [Slots -> Buffers] /\ len \in [Slots -> {0, 1}]
    /\ mem \in [Buffers -> 0 .. MaxTx + MaxRx]
    /\ head \in [Queues -> Index] /\ tail \in [Queues -> Index]
    /\ cpu \in {"run", "receive", "card", "transmit", "notify", "close", "closed"}
    /\ turn \in 0 .. QueueLen
    /\ link \in [conf : LinkStates, card : LinkStates]
    /\ tx_event \in 0 .. PipeCap /\ stop_event \in BOOLEAN
    /\ seen \in [stop : BOOLEAN, tx : BOOLEAN]
    /\ host \in {"poll", "polled", "put", "pop", "send", "deferred", "forward", "done"}
    /\ got \in Index /\ at \in Index /\ recv_on_tx \in BOOLEAN /\ made \in 0 .. MaxRx

(* No two slots share a buffer, whatever was swapped with whatever: a      *)
(* packet is never overwritten by another thread that holds its buffer,    *)
(* and netcard_close() frees every buffer once.                            *)
BuffersDistinct == \A r, s \in Slots : data[r] = data[s] => r = s

(* The packets on their way out, in the order they will go. *)
InBatch ==
    IF host = "send"
    THEN [i \in 1 .. got - at |-> mem[data[<<"pkt_tx_v", at + i - 1>>]]]
    ELSE <<>>

(* The packet that the card refused. *)
Held == IF len[queued_pkt] = 0 THEN <<>> ELSE <<mem[data[queued_pkt]]>>

(* Packets keep their order and their contents, and go once.  Every packet *)
(* network_tx() accepted is out or in one place on the way; every packet   *)
(* put on the RX queue is with the card or in one place on the way, also   *)
(* when the card refuses it and is offered it again.                       *)
PacketsInOrder ==
    /\ accepted = sent \o InBatch \o Contents("TX_HOST") \o Contents("TX_VM")
    /\ received = delivered \o Held \o Contents("RX")

(* No notification is lost: while packets wait for the provider its thread *)
(* is awake, about to be notified, or notified already.                    *)
NotifiedOfPackets ==
    ~ network_queue_empty("TX_HOST") =>
        cpu = "notify" \/ tx_event > 0 \/ host = "pop"

(* Every packet the guest transmits goes out and every packet on the RX    *)
(* queue reaches the card, unless it is closed.  (As MaxTx and MaxRx bound *)
(* the packets, all have arrived some time.)                               *)
Closing == cpu \in {"close", "closed"}

PacketsArrive ==
    /\ []<>(sent = accepted \/ Closing)
    /\ []<>(delivered = received \/ Closing)

(* The card learns the state of its link, however the user changes it.     *)
LinkSettles == []<>(link.card = link.conf \/ Closing)

(* Closing a card ends: the thread it waits for is never stuck.            *)
CloseEnds == cpu = "close" ~> cpu = "closed"
==============================================================================
