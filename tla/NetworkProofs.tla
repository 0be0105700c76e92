---------------------------- MODULE NetworkProofs ----------------------------
(***************************************************************************)
(* The packets of Network, for every queue length and any number of        *)
(* packets: whatever the two threads swap, every slot keeps a buffer of    *)
(* its own, packets keep their order and none is lost or sent twice, and   *)
(* no notification of packets to transmit is lost.                         *)
(***************************************************************************)
EXTENDS Network, SequenceTheorems, TLAPS

Injective(p) == \A r, s \in Slots : p[r] = p[s] => r = s

(* The invariant: slots hold distinct buffers, and the indices from which  *)
(* slots are named stay within their arrays.                               *)
Inv ==
    /\ data \in [Slots -> Buffers] /\ BuffersDistinct
    /\ len \in [Slots -> {0, 1}]
    /\ head \in [Queues -> Index] /\ tail \in [Queues -> Index]
    /\ got \in Index /\ at \in 0 .. got

-----------------------------------------------------------------------------
(* Slots and their names. *)

LEMMA Lengths == QueueLen \in Nat /\ QueueLen >= 2 /\ 0 \in Index
BY NetworkAssumption DEF Index

LEMMA SlotNames ==
  /\ \A q \in Queues, i \in Index : <<q, i>> \in Slots
  /\ \A i \in Index : <<"pkt_tx_v", i>> \in Slots
  /\ queued_pkt \in Slots /\ pkt \in Slots
BY DEF Slots, queued_pkt, pkt

LEMMA WrapIndex ==
  ASSUME NEW i \in Index, NEW n \in 0 .. QueueLen
  PROVE  Wrap(i + n) \in Index
BY Lengths DEF Wrap, Index

LEMMA CountRange ==
  ASSUME NEW q \in Queues, head[q] \in Index, tail[q] \in Index
  PROVE  Count(q) \in Index
BY Lengths DEF Count, Wrap, Index

(* A run of at most QueueLen slots of a queue names each of them once. *)
LEMMA RunNames ==
  ASSUME NEW q \in Queues, NEW first \in Index, NEW n \in 0 .. QueueLen
  PROVE  /\ Run(q, first, n) \in [0 .. n - 1 -> Slots]
         /\ \A i, j \in 0 .. n - 1 : Run(q, first, n)[i] = Run(q, first, n)[j] => i = j
         /\ \A i \in 0 .. n - 1 : Run(q, first, n)[i][1] = q
<1>1. \A i \in 0 .. n - 1 : Wrap(first + i) \in Index
  BY Lengths DEF Wrap, Index
<1>2. \A i \in 0 .. n - 1 : <<q, Wrap(first + i)>> \in Slots
  BY <1>1, SlotNames
<1>3. \A i, j \in 0 .. n - 1 : Wrap(first + i) = Wrap(first + j) => i = j
  BY Lengths DEF Wrap, Index
<1> QED BY <1>2, <1>3 DEF Run

LEMMA BatchNames ==
  ASSUME NEW n \in 0 .. QueueLen
  PROVE  /\ Batch(n) \in [0 .. n - 1 -> Slots]
         /\ \A i, j \in 0 .. n - 1 : Batch(n)[i] = Batch(n)[j] => i = j
         /\ \A i \in 0 .. n - 1 : Batch(n)[i][1] = "pkt_tx_v"
<1>1. \A i \in 0 .. n - 1 : i \in Index BY Lengths DEF Index
<1> QED BY <1>1, SlotNames DEF Batch

LEMMA AloneNames ==
  ASSUME NEW s \in Slots
  PROVE  /\ Alone(s) \in [0 .. 0 -> Slots]
         /\ \A i, j \in 0 .. 0 : Alone(s)[i] = Alone(s)[j] => i = j
         /\ \A i \in 0 .. 0 : Alone(s)[i] = s
BY DEF Alone

-----------------------------------------------------------------------------
(* Swapping. *)

(* Slots that pair up without overlap change places: doing it twice undoes *)
(* it, so no two slots get the same partner.                               *)
LEMMA PartnersInjective ==
  ASSUME NEW D, NEW f \in [D -> Slots], NEW g \in [D -> Slots],
         \A i, j \in D : f[i] = f[j] => i = j,
         \A i, j \in D : g[i] = g[j] => i = j,
         \A i, j \in D : f[i] # g[j]
  PROVE  /\ Partners(f, g) \in [Slots -> Slots] /\ Injective(Partners(f, g))
         /\ \A i \in D : Partners(f, g)[f[i]] = g[i] /\ Partners(f, g)[g[i]] = f[i]
         /\ \A s \in Slots : (\A i \in D : s # f[i] /\ s # g[i]) => Partners(f, g)[s] = s
<1> DEFINE p == Partners(f, g)
<1>1. DOMAIN f = D /\ DOMAIN g = D OBVIOUS
<1>2. \A i \in D : p[f[i]] = g[i]
  <2> TAKE i \in D
  <2>1. \E k \in D : f[i] = f[k] OBVIOUS
  <2>2. (CHOOSE k \in D : f[i] = f[k]) = i BY <2>1
  <2>3. f[i] \in Slots OBVIOUS
  <2> QED BY <1>1, <2>1, <2>2, <2>3 DEF Partners
<1>3. \A i \in D : p[g[i]] = f[i]
  <2> TAKE i \in D
  <2>1. ~ \E k \in D : g[i] = f[k] OBVIOUS
  <2>2. \E k \in D : g[i] = g[k] OBVIOUS
  <2>3. (CHOOSE k \in D : g[i] = g[k]) = i BY <2>2
  <2>4. g[i] \in Slots OBVIOUS
  <2> QED BY <1>1, <2>1, <2>2, <2>3, <2>4 DEF Partners
<1>4. \A s \in Slots : (~ \E i \in D : s = f[i]) /\ (~ \E i \in D : s = g[i]) => p[s] = s
  BY <1>1 DEF Partners
<1>5. DOMAIN p = Slots /\ p = [s \in Slots |-> p[s]] BY DEF Partners
<1> HIDE DEF p
<1>6. \A s \in Slots : p[s] \in Slots /\ p[p[s]] = s
  <2> TAKE s \in Slots
  <2>1. CASE \E i \in D : s = f[i] BY <2>1, <1>2, <1>3
  <2>2. CASE \E i \in D : s = g[i] BY <2>2, <1>2, <1>3
  <2>3. CASE (~ \E i \in D : s = f[i]) /\ (~ \E i \in D : s = g[i]) BY <2>3, <1>4
  <2> QED BY <2>1, <2>2, <2>3
<1>7. p \in [Slots -> Slots] BY <1>5, <1>6
<1>8. Injective(p) BY <1>6 DEF Injective
<1>9. \A s \in Slots : (\A i \in D : s # f[i] /\ s # g[i]) => p[s] = s BY <1>4
<1> QED BY <1>2, <1>3, <1>7, <1>8, <1>9 DEF p

(* Swapping along such a pairing keeps the buffers apart. *)
LEMMA SwapKeepsBuffers ==
  ASSUME data \in [Slots -> Buffers], BuffersDistinct, len \in [Slots -> {0, 1}],
         NEW p \in [Slots -> Slots], Injective(p), Swapped(p)
  PROVE  data' \in [Slots -> Buffers] /\ BuffersDistinct' /\ len' \in [Slots -> {0, 1}]
<1>1. data' \in [Slots -> Buffers] /\ len' \in [Slots -> {0, 1}] BY DEF Swapped
<1>2. \A s \in Slots : data'[s] = data[p[s]] BY DEF Swapped
<1> QED BY <1>1, <1>2 DEF BuffersDistinct, Injective

(* The three pairings of the code: a slot of a queue with a slot outside   *)
(* it, a run with the vector, and a run of one queue with one of another.  *)
LEMMA PairAlone ==
  ASSUME NEW q \in Queues, NEW k \in Index, NEW s \in Slots, s[1] # q
  PROVE  /\ Partners(Run(q, k, 1), Alone(s)) \in [Slots -> Slots]
         /\ Injective(Partners(Run(q, k, 1), Alone(s)))
<1>1. Wrap(k + 0) \in Index BY Lengths DEF Wrap, Index
<1>2. /\ Run(q, k, 1) \in [0 .. 0 -> Slots]
      /\ \A i, j \in 0 .. 0 : Run(q, k, 1)[i] = Run(q, k, 1)[j] => i = j
      /\ \A i \in 0 .. 0 : Run(q, k, 1)[i][1] = q
  <2>1. <<q, Wrap(k + 0)>> \in Slots BY <1>1, SlotNames
  <2>2. 0 .. 1 - 1 = {0} /\ 0 .. 0 = {0} OBVIOUS
  <2>3. Run(q, k, 1) = [i \in {0} |-> <<q, Wrap(k + i)>>] BY <2>2 DEF Run
  <2> QED BY ONLY <2>1, <2>2, <2>3
<1>3. \A i, j \in 0 .. 0 : Run(q, k, 1)[i] # Alone(s)[j] BY <1>2, AloneNames
<1> QED BY <1>2, <1>3, AloneNames, PartnersInjective

LEMMA PairBatch ==
  ASSUME NEW q \in Queues, NEW k \in Index, NEW n \in 0 .. QueueLen
  PROVE  /\ Partners(Run(q, k, n), Batch(n)) \in [Slots -> Slots]
         /\ Injective(Partners(Run(q, k, n), Batch(n)))
<1>1. q # "pkt_tx_v" BY DEF Queues
<1>2. \A i, j \in 0 .. n - 1 : Run(q, k, n)[i] # Batch(n)[j]
  BY <1>1, RunNames, BatchNames
<1> QED BY <1>2, RunNames, BatchNames, PartnersInjective

LEMMA PairRuns ==
  ASSUME NEW q \in Queues, NEW r \in Queues, q # r,
         NEW k \in Index, NEW l \in Index, NEW n \in 0 .. QueueLen
  PROVE  /\ Partners(Run(q, k, n), Run(r, l, n)) \in [Slots -> Slots]
         /\ Injective(Partners(Run(q, k, n), Run(r, l, n)))
<1> DEFINE D == 0 .. n - 1
           f == Run(q, k, n)
           g == Run(r, l, n)
<1>1. /\ f \in [D -> Slots]
      /\ \A i, j \in D : f[i] = f[j] => i = j
      /\ \A i \in D : f[i][1] = q
  BY RunNames
<1>2. /\ g \in [D -> Slots]
      /\ \A i, j \in D : g[i] = g[j] => i = j
      /\ \A i \in D : g[i][1] = r
  BY RunNames
<1> HIDE DEF D, f, g
<1>3. \A i, j \in D : f[i] # g[j] BY <1>1, <1>2
<1>4. Partners(f, g) \in [Slots -> Slots] /\ Injective(Partners(f, g))
  BY <1>1, <1>2, <1>3, PartnersInjective
<1> QED BY <1>4 DEF f, g

LEMMA MinOfTwo ==
  ASSUME NEW a \in Nat, NEW b \in Nat
  PROVE  Min({a, b}) \in Nat /\ Min({a, b}) <= a /\ Min({a, b}) <= b
<1>1. \E x \in {a, b} : \A y \in {a, b} : x <= y OBVIOUS
<1>2. Min({a, b}) \in {a, b} /\ \A y \in {a, b} : Min({a, b}) <= y
  BY <1>1 DEF Min
<1> QED BY <1>2

(* What the operations on queues do to the invariant. *)
LEMMA PutSwapKeeps ==
  ASSUME Inv, NEW q \in Queues, NEW s \in Slots, s[1] # q,
         network_queue_put_swap(q, s)
  PROVE  /\ data' \in [Slots -> Buffers] /\ BuffersDistinct' /\ len' \in [Slots -> {0, 1}]
         /\ head' \in [Queues -> Index]
<1>1. head[q] \in Index BY DEF Inv
<1>2. Wrap(head[q] + 1) \in Index BY <1>1, WrapIndex, Lengths
<1>3. head' \in [Queues -> Index] BY <1>2 DEF network_queue_put_swap, Put, Inv
<1>4. /\ Partners(Run(q, head[q], 1), Alone(s)) \in [Slots -> Slots]
      /\ Injective(Partners(Run(q, head[q], 1), Alone(s)))
  BY <1>1, PairAlone
<1> QED BY <1>3, <1>4, SwapKeepsBuffers DEF network_queue_put_swap, Inv

LEMMA PopVKeeps ==
  ASSUME Inv, NEW q \in Queues, PopV(q), UNCHANGED head
  PROVE  Inv'
<1>1. head[q] \in Index /\ tail[q] \in Index BY DEF Inv
<1>2. Count(q) \in Index /\ Count(q) \in 0 .. QueueLen
  BY <1>1, CountRange, Lengths DEF Index
<1>3. Wrap(tail[q] + Count(q)) \in Index BY <1>1, <1>2, WrapIndex
<1>4. tail' \in [Queues -> Index] BY <1>3 DEF PopV, Get, Inv
<1>5. /\ Partners(Run(q, tail[q], Count(q)), Batch(Count(q))) \in [Slots -> Slots]
      /\ Injective(Partners(Run(q, tail[q], Count(q)), Batch(Count(q))))
  BY <1>1, <1>2, PairBatch
<1>6. data' \in [Slots -> Buffers] /\ BuffersDistinct' /\ len' \in [Slots -> {0, 1}]
  BY <1>5, SwapKeepsBuffers DEF PopV, Inv
<1>7. got' \in Index /\ at' \in 0 .. got' BY <1>2, Lengths DEF PopV, Index
<1> QED BY <1>4, <1>6, <1>7 DEF Inv

(* network_rx_put_pkt() of slirp->pkt or of a slot of pkt_tx_v. *)
LEMMA RxPutKeeps ==
  ASSUME Inv, NEW s \in Slots, s[1] # "RX", network_rx_put_pkt(s)
  PROVE  /\ data' \in [Slots -> Buffers] /\ BuffersDistinct' /\ len' \in [Slots -> {0, 1}]
         /\ head' \in [Queues -> Index]
<1>1. "RX" \in Queues BY DEF Queues
<1>2. CASE network_queue_full("RX")
  BY <1>2 DEF network_rx_put_pkt, Inv, BuffersDistinct
<1>3. CASE ~ network_queue_full("RX")
  BY <1>1, <1>3, PutSwapKeeps DEF network_rx_put_pkt
<1> QED BY <1>2, <1>3

-----------------------------------------------------------------------------
LEMMA InvInit == Init => Inv
BY Lengths DEF Init, Inv, BuffersDistinct, Buffers, Index

(* Steps that leave every slot, index and count alone. *)
LEMMA InvUntouched ==
  ASSUME Inv, UNCHANGED <<data, len, head, tail, got, at>>
  PROVE  Inv'
BY DEF Inv, BuffersDistinct

LEMMA InvTransmit == ASSUME Inv, Transmit PROVE Inv'
<1> DEFINE n == Min({Count("TX_VM"), QueueLen - 1 - Count("TX_HOST")})
<1>1. "TX_VM" \in Queues /\ "TX_HOST" \in Queues /\ "TX_VM" # "TX_HOST" BY DEF Queues
<1>2. /\ head["TX_VM"] \in Index /\ tail["TX_VM"] \in Index
      /\ head["TX_HOST"] \in Index /\ tail["TX_HOST"] \in Index
  BY <1>1 DEF Inv
<1>3. Count("TX_VM") \in Index /\ Count("TX_HOST") \in Index
  BY <1>1, <1>2, CountRange
<1>4. Count("TX_VM") \in Nat /\ QueueLen - 1 - Count("TX_HOST") \in Nat
  BY <1>3, Lengths DEF Index
<1>5. n \in 0 .. QueueLen
  <2>1. n \in Nat /\ n <= Count("TX_VM") BY <1>4, MinOfTwo
  <2> QED BY <2>1, <1>3, Lengths DEF Index
<1> HIDE DEF n
<1>6. /\ Swapped(Partners(Run("TX_VM", tail["TX_VM"], n), Run("TX_HOST", head["TX_HOST"], n)))
      /\ Get("TX_VM", n) /\ Put("TX_HOST", n)
      /\ UNCHANGED <<got, at>>
  BY DEF Transmit, n, hostVars
<1>7. Wrap(tail["TX_VM"] + n) \in Index /\ Wrap(head["TX_HOST"] + n) \in Index
  BY <1>2, <1>5, WrapIndex
<1>8. head' \in [Queues -> Index] /\ tail' \in [Queues -> Index]
  BY <1>6, <1>7 DEF Put, Get, Inv
<1>9. data' \in [Slots -> Buffers] /\ BuffersDistinct' /\ len' \in [Slots -> {0, 1}]
  BY <1>1, <1>2, <1>5, <1>6, PairRuns, SwapKeepsBuffers DEF Inv
<1> QED BY <1>6, <1>8, <1>9 DEF Inv

LEMMA InvReceiveNext == ASSUME Inv, ReceiveNext PROVE Inv'
<1>1. "RX" \in Queues /\ queued_pkt[1] # "RX" BY DEF Queues, queued_pkt
<1>2. UNCHANGED <<head, got, at>> BY DEF ReceiveNext, hostVars
<1>3. CASE network_queue_empty("RX")
  BY <1>2, <1>3, InvUntouched DEF ReceiveNext
<1>4. CASE ~ network_queue_empty("RX")
  <2>1. tail["RX"] \in Index BY <1>1 DEF Inv
  <2>2. Wrap(tail["RX"] + 1) \in Index BY <2>1, WrapIndex, Lengths
  <2>3. tail' \in [Queues -> Index] BY <1>4, <2>2 DEF ReceiveNext, Get, Inv
  <2>4. data' \in [Slots -> Buffers] /\ BuffersDistinct' /\ len' \in [Slots -> {0, 1}]
    BY <1>1, <1>4, <2>1, SlotNames, PairAlone, SwapKeepsBuffers DEF ReceiveNext, Inv
  <2> QED BY <1>2, <2>3, <2>4 DEF Inv
<1> QED BY <1>3, <1>4

LEMMA InvHostSend == ASSUME Inv, HostSend PROVE Inv'
<1>1. UNCHANGED <<data, len, head, tail, got>> /\ at < got /\ at' = at + 1
  BY DEF HostSend, slots
<1>2. at' \in 0 .. got' BY <1>1, Lengths DEF Inv, Index
<1> QED BY <1>1, <1>2 DEF Inv, BuffersDistinct

(* libslirp answers while it is given a packet. *)
LEMMA InvHostAnswer == ASSUME Inv, HostAnswer PROVE Inv'
<1>1. UNCHANGED <<tail, got, at>> BY DEF HostAnswer
<1>2. "RX_ON_TX" \in Queues /\ pkt[1] # "RX_ON_TX" /\ pkt \in Slots
  BY SlotNames DEF Queues, pkt
<1>3. /\ data' \in [Slots -> Buffers] /\ BuffersDistinct'
      /\ len' \in [Slots -> {0, 1}] /\ head' \in [Queues -> Index]
  <2>1. CASE UNCHANGED <<data, head>> /\ len' = [len EXCEPT ![pkt] = 1]
    BY <2>1 DEF Inv, BuffersDistinct
  <2> DEFINE partner == Partners(Run("RX_ON_TX", head["RX_ON_TX"], 1), Alone(pkt))
  <2>2. ASSUME data' = [s \in Slots |-> data[partner[s]]],
               len' = [s \in Slots |-> IF partner[s] = pkt THEN 1 ELSE len[partner[s]]],
               Put("RX_ON_TX", 1)
        PROVE  /\ data' \in [Slots -> Buffers] /\ BuffersDistinct'
               /\ len' \in [Slots -> {0, 1}] /\ head' \in [Queues -> Index]
    <3>1. head["RX_ON_TX"] \in Index BY <1>2 DEF Inv
    <3>2. partner \in [Slots -> Slots] /\ Injective(partner) BY <1>2, <3>1, PairAlone
    <3> HIDE DEF partner
    <3>3. data' \in [Slots -> Buffers] /\ len' \in [Slots -> {0, 1}]
      BY <2>2, <3>2 DEF Inv
    <3>4. \A s \in Slots : data'[s] = data[partner[s]] BY <2>2
    <3>5. BuffersDistinct' BY <3>2, <3>4 DEF Inv, BuffersDistinct, Injective
    <3>6. Wrap(head["RX_ON_TX"] + 1) \in Index BY <3>1, WrapIndex, Lengths
    <3>7. head' \in [Queues -> Index] BY <2>2, <3>6 DEF Put, Inv
    <3> QED BY <3>3, <3>5, <3>7
  <2>3. \/ UNCHANGED <<data, head>> /\ len' = [len EXCEPT ![pkt] = 1]
        \/ /\ data' = [s \in Slots |-> data[partner[s]]]
           /\ len' = [s \in Slots |-> IF partner[s] = pkt THEN 1 ELSE len[partner[s]]]
           /\ Put("RX_ON_TX", 1)
    <3> HIDE DEF partner
    <3> QED BY Zenon DEF HostAnswer, partner
  <2> HIDE DEF partner
  <2> QED BY <2>1, <2>2, <2>3, Zenon
<1> QED BY <1>1, <1>3 DEF Inv

LEMMA InvHostPut == ASSUME Inv, HostPut \/ HostForward PROVE Inv'
<1>1. CASE HostPut
  <2>1. pkt \in Slots /\ pkt[1] # "RX" BY SlotNames DEF pkt
  <2>2. UNCHANGED <<tail, got, at>> /\ network_rx_put_pkt(pkt) BY <1>1 DEF HostPut
  <2> QED BY <2>1, <2>2, RxPutKeeps DEF Inv
<1>2. CASE HostForward
  <2>1. /\ UNCHANGED <<tail, got>> /\ at < got /\ at' = at + 1
        /\ network_rx_put_pkt(<<"pkt_tx_v", at>>)
    BY <1>2 DEF HostForward
  <2>2. at \in Index /\ got' \in Index /\ at' \in 0 .. got'
    BY <2>1, Lengths DEF Inv, Index
  <2>3. <<"pkt_tx_v", at>> \in Slots /\ <<"pkt_tx_v", at>>[1] # "RX"
    BY <2>2, SlotNames
  <2> QED BY <2>1, <2>2, <2>3, RxPutKeeps DEF Inv
<1> QED BY <1>1, <1>2

(* Steps that only note in a slot that it holds a packet, or none. *)
LEMMA InvFilled ==
  ASSUME Inv, UNCHANGED <<data, tail, got, at>>, head' \in [Queues -> Index],
         NEW s \in Slots, NEW n \in {0, 1}, len' = [len EXCEPT ![s] = n]
  PROVE  Inv'
BY DEF Inv, BuffersDistinct

LEMMA InvStep == ASSUME Inv, [Next]_vars PROVE Inv'
<1> USE DEF vars, slots, cpuVars, hostVars
<1>1. CASE UNCHANGED vars BY <1>1, InvUntouched
<1>2. CASE network_tx
  <2>1. "TX_VM" \in Queues /\ head["TX_VM"] \in Index BY DEF Queues, Inv
  <2>2. Wrap(head["TX_VM"] + 1) \in Index BY <2>1, WrapIndex, Lengths
  <2>3. head' \in [Queues -> Index] BY <1>2, <2>2 DEF network_tx, Put, Inv
  <2>4. <<"TX_VM", head["TX_VM"]>> \in Slots BY <2>1, SlotNames
  <2>5. /\ UNCHANGED <<data, tail, got, at>>
        /\ len' = [len EXCEPT ![<<"TX_VM", head["TX_VM"]>>] = 1]
    BY <1>2 DEF network_tx
  <2> QED BY <2>3, <2>4, <2>5, InvFilled
<1>3. CASE CardTakes \/ HostReceive
  <2>1. queued_pkt \in Slots /\ pkt \in Slots BY SlotNames
  <2>2. /\ UNCHANGED <<data, head, tail, got, at>>
        /\ \/ len' = [len EXCEPT ![queued_pkt] = 0]
           \/ len' = [len EXCEPT ![pkt] = 1]
    BY <1>3 DEF CardTakes, HostReceive
  <2>3. head' \in [Queues -> Index] BY <2>2 DEF Inv
  <2> QED BY <2>1, <2>2, <2>3, InvFilled
<1>4. CASE \/ network_connect \/ netcard_close \/ NetcardClosed \/ Gone
           \/ network_rx_queue \/ ReceiveHeld \/ CardRefuses
           \/ net_slirp_in_available \/ HostPoll \/ HostIdle \/ HostStop
           \/ HostWake \/ HostSent
           \/ HostForwarded
  <2>1. UNCHANGED <<data, len, head, tail, got, at>>
    BY <1>4 DEF network_connect, netcard_close, NetcardClosed, Gone, network_rx_queue,
                ReceiveHeld, CardRefuses, net_slirp_in_available, HostPoll, HostIdle,
                HostStop, HostWake,
                HostSent, HostForwarded
  <2> QED BY <2>1, InvUntouched
<1>5. CASE HostPop \/ HostDeferred
  <2>1. "TX_HOST" \in Queues /\ "RX_ON_TX" \in Queues BY DEF Queues
  <2>2. UNCHANGED head /\ (PopV("TX_HOST") \/ PopV("RX_ON_TX"))
    BY <1>5 DEF HostPop, HostDeferred
  <2> QED BY <2>1, <2>2, PopVKeeps
<1> QED BY <1>1, <1>2, <1>3, <1>4, <1>5, InvTransmit, InvReceiveNext, InvHostSend,
           InvHostAnswer, InvHostPut DEF Next, Poll, Host

(* The invariant holds in every reachable state. *)
THEOREM NetworkInvariant == Spec => []Inv
BY InvInit, InvStep, PTL DEF Spec

(* No two packet slots of a card share a buffer: no packet is overwritten  *)
(* by the other thread, and closing the card frees every buffer once.      *)
THEOREM NetworkBuffersDistinct == Spec => []BuffersDistinct
<1>1. Inv => BuffersDistinct BY DEF Inv
<1> QED BY <1>1, NetworkInvariant, PTL

-----------------------------------------------------------------------------
(* Notifications. *)

(* What poll() saw is still pending when it is acted upon, as nobody but   *)
(* the provider's thread takes notifications away.                         *)
Notified ==
    /\ tx_event \in Nat
    /\ host \in {"polled", "put"} /\ seen.tx => tx_event > 0
    /\ NotifiedOfPackets

(* How many packets a queue holds, from its indices. *)
CountOf(h, t) == Wrap(h - t + QueueLen)

LEMMA CountOfRange ==
  ASSUME NEW h \in Index, NEW t \in Index
  PROVE  /\ CountOf(h, t) \in Index /\ CountOf(h, t) \in Nat
         /\ Wrap(t + CountOf(h, t)) = h
         /\ h = t <=> CountOf(h, t) = 0
         /\ Wrap(h + 1) # t => CountOf(h, t) + 1 <= QueueLen - 1
         /\ Wrap(h + 0) = h
BY Lengths DEF CountOf, Wrap, Index

LEMMA CountOfPut ==
  ASSUME NEW h \in Index, NEW t \in Index, NEW n \in Nat, CountOf(h, t) + n <= QueueLen - 1
  PROVE  CountOf(Wrap(h + n), t) = CountOf(h, t) + n
BY Lengths DEF CountOf, Wrap, Index

LEMMA CountOfGet ==
  ASSUME NEW h \in Index, NEW t \in Index, NEW n \in Nat, n <= CountOf(h, t)
  PROVE  CountOf(h, Wrap(t + n)) = CountOf(h, t) - n
BY Lengths DEF CountOf, Wrap, Index

LEMMA CountIs == \A q : Count(q) = CountOf(head[q], tail[q])
BY DEF Count, CountOf

(* TX_HOST, and the indices of the other queues. *)
LEMMA IndicesTyped ==
  ASSUME Inv, NEW q \in Queues
  PROVE  /\ head[q] \in Index /\ tail[q] \in Index
         /\ Count(q) \in Index /\ Count(q) \in Nat /\ Count(q) <= QueueLen - 1
         /\ network_queue_empty(q) <=> Count(q) = 0
<1>1. head[q] \in Index /\ tail[q] \in Index BY DEF Inv
<1>2. Count(q) = CountOf(head[q], tail[q]) BY CountIs
<1>3. CountOf(head[q], tail[q]) \in Index /\ CountOf(head[q], tail[q]) \in Nat
      /\ (head[q] = tail[q] <=> CountOf(head[q], tail[q]) = 0)
  BY <1>1, CountOfRange
<1>4. CountOf(head[q], tail[q]) <= QueueLen - 1 BY <1>3, Lengths DEF Index
<1> QED BY <1>1, <1>2, <1>3, <1>4 DEF network_queue_empty

(* Only Transmit and HostPop move the indices of TX_HOST. *)
LEMMA HostQueueMoves ==
  ASSUME Inv, Next, ~ Transmit, ~ HostPop
  PROVE  head'["TX_HOST"] = head["TX_HOST"] /\ tail'["TX_HOST"] = tail["TX_HOST"]
<1> USE DEF vars, slots, cpuVars, hostVars
<1>0. head \in [Queues -> Index] /\ tail \in [Queues -> Index] /\ "TX_HOST" \in Queues
  BY DEF Inv, Queues
<1>1. CASE network_tx BY <1>0, <1>1 DEF network_tx, Put
<1>2. CASE ReceiveNext BY <1>0, <1>2 DEF ReceiveNext, Get
<1>3. CASE HostPut \/ HostForward
  BY <1>0, <1>3 DEF HostPut, HostForward, network_rx_put_pkt, network_queue_put_swap, Put
<1>4. CASE HostAnswer BY <1>0, <1>4 DEF HostAnswer, Put
<1>5. CASE HostDeferred BY <1>0, <1>5 DEF HostDeferred, PopV, Get
<1>6. CASE \/ network_connect \/ netcard_close \/ NetcardClosed \/ Gone \/ network_rx_queue
           \/ ReceiveHeld \/ CardRefuses \/ CardTakes \/ net_slirp_in_available \/ HostPoll
           \/ HostIdle \/ HostStop \/ HostWake \/ HostSend \/ HostSent \/ HostForwarded
           \/ HostReceive
  BY <1>6 DEF network_connect, netcard_close, NetcardClosed, Gone, network_rx_queue,
              ReceiveHeld, CardRefuses, CardTakes, net_slirp_in_available, HostPoll, HostIdle,
              HostStop, HostWake, HostSend, HostSent, HostForwarded, HostReceive
<1> QED BY <1>1, <1>2, <1>3, <1>4, <1>5, <1>6 DEF Next, Poll, Host

LEMMA NotifiedStep == ASSUME Inv, Notified, [Next]_vars PROVE Notified'
<1> USE DEF vars, slots, cpuVars, hostVars
<1>0. tx_event \in Nat /\ PipeCap \in Nat /\ PipeCap >= 1
  BY NetworkAssumption DEF Notified
<1>1. CASE UNCHANGED vars
  BY <1>1 DEF Notified, NotifiedOfPackets, network_queue_empty
<1>2. CASE Transmit
  <2> DEFINE n == Min({Count("TX_VM"), QueueLen - 1 - Count("TX_HOST")})
  <2>1. "TX_VM" \in Queues /\ "TX_HOST" \in Queues /\ "TX_VM" # "TX_HOST" BY DEF Queues
  <2>2. /\ head["TX_HOST"] \in Index /\ tail["TX_HOST"] \in Index
        /\ Count("TX_HOST") \in Nat /\ Count("TX_HOST") <= QueueLen - 1
        /\ Count("TX_VM") \in Nat
    BY <2>1, IndicesTyped
  <2>3. QueueLen - 1 - Count("TX_HOST") \in Nat BY <2>2, Lengths
  <2>4. n \in Nat BY <2>2, <2>3, MinOfTwo
  <2> HIDE DEF n
  <2>5. /\ Get("TX_VM", n) /\ Put("TX_HOST", n) /\ cpu = "transmit"
        /\ cpu' = (IF n > 0 THEN "notify" ELSE "run")
        /\ UNCHANGED <<tx_event, host, seen>>
    BY <1>2 DEF Transmit, n
  <2>6. tail'["TX_HOST"] = tail["TX_HOST"] /\ head'["TX_HOST"] = Wrap(head["TX_HOST"] + n)
    BY <2>1, <2>5 DEF Get, Put, Inv
  <2>7. n = 0 => head'["TX_HOST"] = head["TX_HOST"] BY <2>2, <2>6, CountOfRange
  <2>8. n # 0 => cpu' = "notify" BY <2>4, <2>5
  <2> QED BY <2>5, <2>6, <2>7, <2>8 DEF Notified, NotifiedOfPackets, network_queue_empty
<1>3. CASE HostPop
  <2>1. "TX_HOST" \in Queues /\ head["TX_HOST"] \in Index /\ tail["TX_HOST"] \in Index
    BY DEF Queues, Inv
  <2>2. head' = head /\ tail'["TX_HOST"] = Wrap(tail["TX_HOST"] + Count("TX_HOST"))
    BY <1>3, <2>1 DEF HostPop, PopV, Get, Inv
  <2>3. Wrap(tail["TX_HOST"] + Count("TX_HOST")) = head["TX_HOST"]
    BY <2>1, CountIs, CountOfRange
  <2>4. host' = "send" /\ tx_event' = tx_event BY <1>3 DEF HostPop
  <2> QED BY <1>0, <2>2, <2>3, <2>4 DEF Notified, NotifiedOfPackets, network_queue_empty
<1>4. CASE Next /\ ~ Transmit /\ ~ HostPop
  <2>1. head'["TX_HOST"] = head["TX_HOST"] /\ tail'["TX_HOST"] = tail["TX_HOST"]
    BY <1>4, HostQueueMoves
  <2>2. CASE net_slirp_in_available
    <3>1. tx_event' = Min({tx_event + 1, PipeCap}) /\ UNCHANGED <<host, seen>>
      BY <2>2 DEF net_slirp_in_available
    <3>2. Min({tx_event + 1, PipeCap}) \in {tx_event + 1, PipeCap}
      <4>1. tx_event + 1 \in Nat BY <1>0
      <4>2. \E x \in {tx_event + 1, PipeCap} : \A y \in {tx_event + 1, PipeCap} : x <= y
        BY <1>0, <4>1
      <4> QED BY <4>2 DEF Min
    <3>3. tx_event' \in Nat /\ tx_event' > 0 BY <1>0, <3>1, <3>2
    <3> QED BY <3>1, <3>3 DEF Notified, NotifiedOfPackets
  <2>3. CASE HostWake
    <3>1. tx_event > 0 /\ tx_event' = tx_event - 1 /\ host' = "pop"
      BY <2>3 DEF HostWake, Notified
    <3>2. tx_event' \in Nat BY <1>0, <3>1
    <3> QED BY <3>1, <3>2 DEF Notified, NotifiedOfPackets
  <2>4. CASE HostPoll
    <3>1. tx_event' = tx_event /\ host = "poll" /\ host' = "polled" /\ cpu' = cpu
      BY <2>4 DEF HostPoll
    <3>2. seen'.tx => tx_event > 0 BY <2>4 DEF HostPoll
    <3> QED BY <1>0, <2>1, <3>1, <3>2 DEF Notified, NotifiedOfPackets, network_queue_empty
  <2>5. ASSUME UNCHANGED <<tx_event, seen>>,
               host' \in {"polled", "put"} => host \in {"polled", "put"},
               host = "pop" => host' = "pop", cpu = "notify" => cpu' = "notify"
        PROVE  Notified'
    BY <1>0, <2>1, <2>5 DEF Notified, NotifiedOfPackets, network_queue_empty
  <2>6. CASE \/ network_tx \/ network_connect \/ netcard_close \/ NetcardClosed \/ Gone
             \/ network_rx_queue \/ ReceiveHeld \/ ReceiveNext \/ CardRefuses \/ CardTakes
    BY <2>5, <2>6 DEF network_tx, network_connect, netcard_close, NetcardClosed, Gone,
                network_rx_queue, ReceiveHeld, ReceiveNext, CardRefuses, CardTakes
  <2>7. CASE \/ HostIdle \/ HostStop \/ HostSend \/ HostSent \/ HostForwarded
             \/ HostReceive \/ HostPut \/ HostForward \/ HostAnswer \/ HostDeferred
    BY <2>5, <2>7 DEF HostIdle, HostStop, HostSend, HostSent, HostForwarded,
                HostReceive, HostPut, HostForward, HostAnswer, HostDeferred
  <2> QED BY <1>4, <2>2, <2>3, <2>4, <2>6, <2>7 DEF Next, Poll, Host
<1> QED BY <1>1, <1>2, <1>3, <1>4

(* No notification is lost: while packets wait for the provider, its       *)
(* thread is about to take them, notified, or about to be.                 *)
THEOREM NetworkNotifiedOfPackets == Spec => []NotifiedOfPackets
<1>1. Init => Notified
  BY DEF Init, Notified, NotifiedOfPackets, network_queue_empty, Queues
<1>2. Notified => NotifiedOfPackets BY DEF Notified
<1> QED BY <1>1, <1>2, NotifiedStep, NetworkInvariant, PTL DEF Spec

-----------------------------------------------------------------------------
(* The order of packets. *)

(* What a swap does to the slots, one by one. *)
LEMMA AloneSwap ==
  ASSUME NEW q \in Queues, NEW k \in Index, NEW s \in Slots, s[1] # q
  PROVE  /\ Partners(Run(q, k, 1), Alone(s))[<<q, k>>] = s
         /\ Partners(Run(q, k, 1), Alone(s))[s] = <<q, k>>
         /\ \A r \in Slots : r # <<q, k>> /\ r # s =>
                Partners(Run(q, k, 1), Alone(s))[r] = r
<1> DEFINE f == Run(q, k, 1)
           g == Alone(s)
<1>1. Wrap(k + 0) = k BY Lengths DEF Wrap, Index
<1>2. <<q, k>> \in Slots BY SlotNames
<1>3. 0 .. 1 - 1 = {0} /\ 0 .. 0 = {0} OBVIOUS
<1>4. f = [i \in {0} |-> <<q, Wrap(k + i)>>] BY <1>3 DEF Run
<1>5. g = [i \in {0} |-> s] BY <1>3 DEF Alone
<1> HIDE DEF f, g
<1>6. f \in [{0} -> Slots] /\ f[0] = <<q, k>> BY <1>1, <1>2, <1>4
<1>7. g \in [{0} -> Slots] /\ g[0] = s BY <1>5
<1>8. \A i, j \in {0} : f[i] = f[j] => i = j OBVIOUS
<1>9. \A i, j \in {0} : g[i] = g[j] => i = j OBVIOUS
<1>10. \A i, j \in {0} : f[i] # g[j]
  <2>1. f[0][1] = q /\ g[0][1] # q BY <1>6, <1>7
  <2> QED BY <2>1
<1>11. /\ \A i \in {0} : Partners(f, g)[f[i]] = g[i] /\ Partners(f, g)[g[i]] = f[i]
       /\ \A r \in Slots : (\A i \in {0} : r # f[i] /\ r # g[i]) => Partners(f, g)[r] = r
  BY <1>6, <1>7, <1>8, <1>9, <1>10, PartnersInjective
<1>12. /\ Partners(f, g)[<<q, k>>] = s /\ Partners(f, g)[s] = <<q, k>>
       /\ \A r \in Slots : r # <<q, k>> /\ r # s => Partners(f, g)[r] = r
  BY <1>6, <1>7, <1>11
<1> QED BY <1>12 DEF f, g

LEMMA BatchSwap ==
  ASSUME NEW q \in Queues, NEW k \in Index, NEW n \in 0 .. QueueLen
  PROVE  /\ \A i \in 0 .. n - 1 :
               Partners(Run(q, k, n), Batch(n))[<<"pkt_tx_v", i>>] = <<q, Wrap(k + i)>>
         /\ \A r \in Slots : r[1] # q /\ r[1] # "pkt_tx_v" =>
                Partners(Run(q, k, n), Batch(n))[r] = r
<1> DEFINE D == 0 .. n - 1
           f == Run(q, k, n)
           g == Batch(n)
<1>0. q # "pkt_tx_v" BY DEF Queues
<1>1. /\ f \in [D -> Slots]
      /\ \A i, j \in D : f[i] = f[j] => i = j
      /\ \A i \in D : f[i][1] = q
  BY RunNames
<1>2. /\ g \in [D -> Slots]
      /\ \A i, j \in D : g[i] = g[j] => i = j
      /\ \A i \in D : g[i][1] = "pkt_tx_v"
  BY BatchNames
<1>3. \A i \in D : f[i] = <<q, Wrap(k + i)>> /\ g[i] = <<"pkt_tx_v", i>>
  BY DEF Run, Batch
<1> HIDE DEF D, f, g
<1>4. \A i, j \in D : f[i] # g[j] BY <1>0, <1>1, <1>2
<1>5. /\ \A i \in D : Partners(f, g)[f[i]] = g[i] /\ Partners(f, g)[g[i]] = f[i]
      /\ \A r \in Slots : (\A i \in D : r # f[i] /\ r # g[i]) => Partners(f, g)[r] = r
  BY <1>1, <1>2, <1>4, PartnersInjective
<1>6. /\ \A i \in D : Partners(f, g)[<<"pkt_tx_v", i>>] = <<q, Wrap(k + i)>>
      /\ \A r \in Slots : r[1] # q /\ r[1] # "pkt_tx_v" => Partners(f, g)[r] = r
  BY <1>1, <1>2, <1>3, <1>5
<1> QED BY <1>6 DEF D, f, g

LEMMA RunsSwap ==
  ASSUME NEW q \in Queues, NEW r \in Queues, q # r,
         NEW k \in Index, NEW l \in Index, NEW n \in 0 .. QueueLen
  PROVE  /\ \A i \in 0 .. n - 1 :
               Partners(Run(q, k, n), Run(r, l, n))[<<r, Wrap(l + i)>>] = <<q, Wrap(k + i)>>
         /\ \A j \in Index : (\A i \in 0 .. n - 1 : j # Wrap(k + i)) =>
               Partners(Run(q, k, n), Run(r, l, n))[<<q, j>>] = <<q, j>>
         /\ \A j \in Index : (\A i \in 0 .. n - 1 : j # Wrap(l + i)) =>
               Partners(Run(q, k, n), Run(r, l, n))[<<r, j>>] = <<r, j>>
         /\ \A s \in Slots : s[1] # q /\ s[1] # r =>
               Partners(Run(q, k, n), Run(r, l, n))[s] = s
<1> DEFINE D == 0 .. n - 1
           f == Run(q, k, n)
           g == Run(r, l, n)
<1>1. /\ f \in [D -> Slots]
      /\ \A i, j \in D : f[i] = f[j] => i = j
      /\ \A i \in D : f[i][1] = q
  BY RunNames
<1>2. /\ g \in [D -> Slots]
      /\ \A i, j \in D : g[i] = g[j] => i = j
      /\ \A i \in D : g[i][1] = r
  BY RunNames
<1>3. \A i \in D : f[i] = <<q, Wrap(k + i)>> /\ g[i] = <<r, Wrap(l + i)>>
  BY DEF Run
<1> HIDE DEF D, f, g
<1>4. \A i, j \in D : f[i] # g[j] BY <1>1, <1>2
<1>5. /\ \A i \in D : Partners(f, g)[f[i]] = g[i] /\ Partners(f, g)[g[i]] = f[i]
      /\ \A s \in Slots : (\A i \in D : s # f[i] /\ s # g[i]) => Partners(f, g)[s] = s
  BY <1>1, <1>2, <1>4, PartnersInjective
<1>6. /\ \A i \in D : Partners(f, g)[<<r, Wrap(l + i)>>] = <<q, Wrap(k + i)>>
      /\ \A s \in Slots : s[1] # q /\ s[1] # r => Partners(f, g)[s] = s
  BY <1>1, <1>2, <1>3, <1>5
<1>7. ASSUME NEW j \in Index, \A i \in D : j # Wrap(k + i)
      PROVE  Partners(f, g)[<<q, j>>] = <<q, j>>
  <2>1. <<q, j>> \in Slots BY SlotNames
  <2>2. \A i \in D : <<q, j>> # f[i] /\ <<q, j>> # g[i] BY <1>2, <1>3, <1>7
  <2> QED BY <1>5, <2>1, <2>2
<1>8. ASSUME NEW j \in Index, \A i \in D : j # Wrap(l + i)
      PROVE  Partners(f, g)[<<r, j>>] = <<r, j>>
  <2>1. <<r, j>> \in Slots BY SlotNames
  <2>2. \A i \in D : <<r, j>> # f[i] /\ <<r, j>> # g[i] BY <1>1, <1>3, <1>8
  <2> QED BY <1>5, <2>1, <2>2
<1> QED BY <1>6, <1>7, <1>8 DEF D, f, g

(* The packet in slot s, and what queues and the vector hold when v gives  *)
(* the packet of every slot.                                               *)
Packets          == [s \in Slots |-> mem[data[s]]]
Stored(v, q, t, n) == [i \in 1 .. n |-> v[<<q, Wrap(t + i - 1)>>]]
Loaded(v, a, n)    == [i \in 1 .. n |-> v[<<"pkt_tx_v", a + i - 1>>]]

LEMMA StoredSeq ==
  ASSUME NEW v \in [Slots -> Nat], NEW q \in Queues, NEW t \in Index, NEW n \in Index
  PROVE  Stored(v, q, t, n) \in Seq(Nat) /\ Len(Stored(v, q, t, n)) = n
<1>1. n \in Nat BY Lengths DEF Index
<1>2. \A i \in 1 .. n : Wrap(t + i - 1) \in Index BY Lengths DEF Wrap, Index
<1>3. \A i \in 1 .. n : v[<<q, Wrap(t + i - 1)>>] \in Nat BY <1>2, SlotNames
<1>4. Stored(v, q, t, n) \in [1 .. n -> Nat] BY <1>3 DEF Stored
<1>5. Stored(v, q, t, n) \in Seq(Nat) BY <1>1, <1>4, SeqDef
<1> QED BY <1>1, <1>4, <1>5, LenProperties

LEMMA LoadedSeq ==
  ASSUME NEW v \in [Slots -> Nat], NEW a \in Nat, NEW n \in Nat, a + n <= QueueLen
  PROVE  Loaded(v, a, n) \in Seq(Nat) /\ Len(Loaded(v, a, n)) = n
<1>2. \A i \in 1 .. n : a + i - 1 \in Index BY Lengths DEF Index
<1>3. \A i \in 1 .. n : v[<<"pkt_tx_v", a + i - 1>>] \in Nat BY <1>2, SlotNames
<1>4. Loaded(v, a, n) \in [1 .. n -> Nat] BY <1>3 DEF Loaded
<1>5. Loaded(v, a, n) \in Seq(Nat) BY <1>4, SeqDef
<1> QED BY <1>4, <1>5, LenProperties

LEMMA StoredSame ==
  ASSUME NEW v, NEW w, NEW q \in Queues, NEW t \in Index, NEW n \in Index,
         \A i \in Index : w[<<q, i>>] = v[<<q, i>>]
  PROVE  Stored(w, q, t, n) = Stored(v, q, t, n)
<1>1. \A i \in 1 .. n : Wrap(t + i - 1) \in Index BY Lengths DEF Wrap, Index
<1>2. \A i \in 1 .. n : w[<<q, Wrap(t + i - 1)>>] = v[<<q, Wrap(t + i - 1)>>] BY <1>1
<1> QED BY <1>2 DEF Stored

LEMMA StoredNone ==
  ASSUME NEW v, NEW q, NEW t
  PROVE  Stored(v, q, t, 0) = <<>>
<1>1. 1 .. 0 = {} OBVIOUS
<1> QED BY <1>1 DEF Stored

(* A packet put on a queue comes after those it holds. *)
LEMMA StoredPut ==
  ASSUME NEW v \in [Slots -> Nat], NEW w \in [Slots -> Nat], NEW q \in Queues,
         NEW t \in Index, NEW n \in Nat, n + 1 \in Index,
         \A j \in Index : j # Wrap(t + n) => w[<<q, j>>] = v[<<q, j>>]
  PROVE  Stored(w, q, t, n + 1) = Append(Stored(v, q, t, n), w[<<q, Wrap(t + n)>>])
<1> DEFINE s == Stored(v, q, t, n)
           u == Stored(w, q, t, n + 1)
           e == w[<<q, Wrap(t + n)>>]
<1>0. n \in Index BY Lengths DEF Index
<1>1. /\ s \in Seq(Nat) /\ Len(s) = n
      /\ \A i \in 1 .. n : Wrap(t + i - 1) \in Index /\ s[i] = v[<<q, Wrap(t + i - 1)>>]
  <2>0. \A i \in 1 .. n : Wrap(t + i - 1) \in Index BY <1>0, Lengths DEF Wrap, Index
  <2>1. s \in Seq(Nat) /\ Len(s) = n BY <1>0, StoredSeq
  <2>2. \A i \in 1 .. n : s[i] = v[<<q, Wrap(t + i - 1)>>]
    BY DEF Stored
  <2> QED BY <2>0, <2>1, <2>2
<1>2. /\ u \in Seq(Nat) /\ Len(u) = n + 1
      /\ \A i \in 1 .. n + 1 : u[i] = w[<<q, Wrap(t + i - 1)>>]
  <2>1. u \in Seq(Nat) /\ Len(u) = n + 1 BY StoredSeq
  <2>2. \A i \in 1 .. n + 1 : u[i] = w[<<q, Wrap(t + i - 1)>>]
    BY DEF Stored
  <2> QED BY <2>1, <2>2
<1>3. e \in Nat
  <2>1. Wrap(t + n) \in Index BY <1>0, Lengths DEF Wrap, Index
  <2> QED BY <2>1, SlotNames
<1>4. \A i \in 1 .. n : Wrap(t + i - 1) # Wrap(t + n) BY <1>0, Lengths DEF Wrap, Index
<1>5. \A i \in 1 .. n : u[i] = s[i]
  <2> TAKE i \in 1 .. n
  <2>1. i \in 1 .. n + 1 OBVIOUS
  <2>2. w[<<q, Wrap(t + i - 1)>>] = v[<<q, Wrap(t + i - 1)>>] BY <1>1, <1>4
  <2> QED BY <1>1, <1>2, <2>1, <2>2
<1>6. u[n + 1] = e
  <2>1. n + 1 \in 1 .. n + 1 /\ t + (n + 1) - 1 = t + n BY Lengths DEF Index
  <2> QED BY <1>2, <2>1
<1> HIDE DEF s, u, e
<1>7. /\ Append(s, e) \in Seq(Nat) /\ Len(Append(s, e)) = n + 1
      /\ \A i \in 1 .. n : Append(s, e)[i] = s[i]
      /\ Append(s, e)[n + 1] = e
  BY <1>1, <1>3, AppendProperties
<1>8. \A i \in 1 .. n + 1 : u[i] = Append(s, e)[i]
  <2>1. 1 .. n + 1 = (1 .. n) \cup {n + 1} OBVIOUS
  <2> QED BY <1>5, <1>6, <1>7, <2>1
<1>9. u = Append(s, e) BY <1>2, <1>7, <1>8, SeqEqual
<1> QED BY <1>9 DEF s, u, e

LEMMA OneSeq ==
  ASSUME NEW e \in Nat
  PROVE  <<e>> \in Seq(Nat) /\ Len(<<e>>) = 1 /\ <<e>>[1] = e
OBVIOUS

(* A packet taken off a queue was the first. *)
LEMMA StoredGet ==
  ASSUME NEW v \in [Slots -> Nat], NEW q \in Queues,
         NEW t \in Index, NEW n \in Index, n # 0
  PROVE  Stored(v, q, t, n) = <<v[<<q, t>>]>> \o Stored(v, q, Wrap(t + 1), n - 1)
<1> DEFINE s == Stored(v, q, Wrap(t + 1), n - 1)
           u == Stored(v, q, t, n)
           e == v[<<q, t>>]
<1>0. n \in Nat /\ n - 1 \in Nat /\ n - 1 \in Index /\ Wrap(t + 1) \in Index
  BY Lengths DEF Index, Wrap
<1>14. v \in [Slots -> Nat] /\ q \in Queues OBVIOUS
<1>1. /\ s \in Seq(Nat) /\ Len(s) = n - 1
      /\ \A i \in 1 .. n - 1 : s[i] = v[<<q, Wrap(Wrap(t + 1) + i - 1)>>]
  <2>1. s \in Seq(Nat) /\ Len(s) = n - 1 BY <1>0, StoredSeq
  <2>2. \A i \in 1 .. n - 1 : s[i] = v[<<q, Wrap(Wrap(t + 1) + i - 1)>>]
    BY DEF Stored
  <2> QED BY <2>1, <2>2
<1>2. /\ u \in Seq(Nat) /\ Len(u) = n
      /\ \A i \in 1 .. n : u[i] = v[<<q, Wrap(t + i - 1)>>]
  <2>1. u \in Seq(Nat) /\ Len(u) = n BY StoredSeq
  <2>2. \A i \in 1 .. n : u[i] = v[<<q, Wrap(t + i - 1)>>]
    BY DEF Stored
  <2> QED BY <2>1, <2>2
<1>3. e \in Nat BY SlotNames
<1>4. \A i \in 2 .. n : /\ i - 1 \in 1 .. n - 1 /\ i \in 1 .. n
                        /\ Wrap(Wrap(t + 1) + (i - 1) - 1) = Wrap(t + i - 1)
  BY <1>0, Lengths DEF Wrap, Index
<1>5. \A i \in 2 .. n : u[i] = s[i - 1] BY <1>1, <1>2, <1>4
<1>6. u[1] = e
  <2>1. 1 \in 1 .. n /\ Wrap(t + 1 - 1) = t BY <1>0, Lengths DEF Index, Wrap
  <2> QED BY <1>2, <2>1
<1> HIDE DEF s, u, e
<1>7. /\ <<e>> \o s \in Seq(Nat) /\ Len(<<e>> \o s) = n
      /\ \A i \in 1 .. n : (<<e>> \o s)[i] = IF i <= 1 THEN <<e>>[i] ELSE s[i - 1]
  <2>1. <<e>> \in Seq(Nat) /\ Len(<<e>>) = 1 BY <1>3, OneSeq
  <2>2. 1 + (n - 1) = n BY <1>0
  <2> QED BY <1>1, <2>1, <2>2, ConcatProperties
<1>8. \A i \in 1 .. n : u[i] = (<<e>> \o s)[i]
  <2> TAKE i \in 1 .. n
  <2>1. CASE i = 1
    <3>1. <<e>>[1] = e BY <1>3, OneSeq
    <3> QED BY <1>0, <1>6, <1>7, <2>1, <3>1
  <2>2. CASE i # 1
    <3>1. i \in 2 .. n /\ ~ (i <= 1) BY <1>0, <2>2
    <3> QED BY <1>5, <1>7, <3>1
  <2> QED BY <2>1, <2>2
<1>9. u = <<e>> \o s BY <1>2, <1>7, <1>8, SeqEqual
<1> QED BY <1>9 DEF s, u, e

LEMMA LoadedGet ==
  ASSUME NEW v \in [Slots -> Nat], NEW a \in Nat, NEW n \in Nat, n # 0, a + n <= QueueLen
  PROVE  Loaded(v, a, n) = <<v[<<"pkt_tx_v", a>>]>> \o Loaded(v, a + 1, n - 1)
<1> DEFINE s == Loaded(v, a + 1, n - 1)
           u == Loaded(v, a, n)
           e == v[<<"pkt_tx_v", a>>]
<1>0. a + 1 \in Nat /\ n - 1 \in Nat /\ (a + 1) + (n - 1) <= QueueLen /\ a \in Index
  BY Lengths DEF Index
<1>1. /\ s \in Seq(Nat) /\ Len(s) = n - 1
      /\ \A i \in 1 .. n - 1 : s[i] = v[<<"pkt_tx_v", (a + 1) + i - 1>>]
  <2>1. s \in Seq(Nat) /\ Len(s) = n - 1 BY <1>0, LoadedSeq
  <2>2. \A i \in 1 .. n - 1 : s[i] = v[<<"pkt_tx_v", (a + 1) + i - 1>>]
    BY DEF Loaded
  <2> QED BY <2>1, <2>2
<1>2. /\ u \in Seq(Nat) /\ Len(u) = n
      /\ \A i \in 1 .. n : u[i] = v[<<"pkt_tx_v", a + i - 1>>]
  <2>1. u \in Seq(Nat) /\ Len(u) = n BY LoadedSeq
  <2>2. \A i \in 1 .. n : u[i] = v[<<"pkt_tx_v", a + i - 1>>]
    BY DEF Loaded
  <2> QED BY <2>1, <2>2
<1>3. e \in Nat BY <1>0, SlotNames
<1>4. \A i \in 2 .. n : /\ i - 1 \in 1 .. n - 1 /\ i \in 1 .. n
                        /\ (a + 1) + (i - 1) - 1 = a + i - 1
  BY <1>0
<1>5. \A i \in 2 .. n : u[i] = s[i - 1] BY <1>1, <1>2, <1>4
<1>6. u[1] = e
  <2>1. 1 \in 1 .. n /\ a + 1 - 1 = a BY <1>0
  <2> QED BY <1>2, <2>1
<1> HIDE DEF s, u, e
<1>7. /\ <<e>> \o s \in Seq(Nat) /\ Len(<<e>> \o s) = n
      /\ \A i \in 1 .. n : (<<e>> \o s)[i] = IF i <= 1 THEN <<e>>[i] ELSE s[i - 1]
  <2>1. <<e>> \in Seq(Nat) /\ Len(<<e>>) = 1 BY <1>3, OneSeq
  <2>2. 1 + (n - 1) = n BY <1>0
  <2> QED BY <1>1, <2>1, <2>2, ConcatProperties
<1>8. \A i \in 1 .. n : u[i] = (<<e>> \o s)[i]
  <2> TAKE i \in 1 .. n
  <2>1. CASE i = 1
    <3>1. <<e>>[1] = e BY <1>3, OneSeq
    <3> QED BY <1>0, <1>6, <1>7, <2>1, <3>1
  <2>2. CASE i # 1
    <3>1. i \in 2 .. n /\ ~ (i <= 1) BY <1>0, <2>2
    <3> QED BY <1>5, <1>7, <3>1
  <2> QED BY <2>1, <2>2
<1>9. u = <<e>> \o s BY <1>2, <1>7, <1>8, SeqEqual
<1> QED BY <1>9 DEF s, u, e

LEMMA LoadedSame ==
  ASSUME NEW v, NEW w, NEW a \in Nat, NEW n \in Nat, a + n <= QueueLen,
         \A i \in Index : i >= a => w[<<"pkt_tx_v", i>>] = v[<<"pkt_tx_v", i>>]
  PROVE  Loaded(w, a, n) = Loaded(v, a, n)
<1>1. \A i \in 1 .. n : a + i - 1 \in Index /\ a + i - 1 >= a BY Lengths DEF Index
<1>2. \A i \in 1 .. n : w[<<"pkt_tx_v", a + i - 1>>] = v[<<"pkt_tx_v", a + i - 1>>] BY <1>1
<1> QED BY <1>2 DEF Loaded

LEMMA LoadedNone ==
  ASSUME NEW v, NEW a
  PROVE  Loaded(v, a, 0) = <<>>
<1>1. 1 .. 0 = {} OBVIOUS
<1> QED BY <1>1 DEF Loaded

(* The vector gets what a queue held. *)
BatchGot(w, v, q, t, n) ==
    \A i \in 0 .. n - 1 : w[<<"pkt_tx_v", i>>] = v[<<q, Wrap(t + i)>>]

LEMMA LoadedPopped ==
  ASSUME NEW v, NEW w, NEW q \in Queues, NEW t \in Index, NEW n \in Index,
         BatchGot(w, v, q, t, n)
  PROVE  Loaded(w, 0, n) = Stored(v, q, t, n)
<1>1. \A i \in 1 .. n : /\ i - 1 \in 0 .. n - 1 /\ 0 + i - 1 = i - 1
                        /\ t + i - 1 = t + (i - 1)
  BY Lengths DEF Index
<1>2. \A i \in 1 .. n : w[<<"pkt_tx_v", 0 + i - 1>>] = v[<<q, Wrap(t + i - 1)>>]
  BY <1>1 DEF BatchGot
<1> QED BY <1>2 DEF Stored, Loaded

(* Packets moved from the front of one queue to the back of another that   *)
(* goes before it are in the same order as before.                         *)
(* A queue and the one whose packets go next, and a run of n packets moved *)
(* between them: where they went, and that all others stayed.              *)
Joined(v, r, k, c, q, t, m) == Stored(v, r, k, c) \o Stored(v, q, t, m)
RunGot(w, v, r, l, q, t, n) ==
    \A i \in 0 .. n - 1 : w[<<r, Wrap(l + i)>>] = v[<<q, Wrap(t + i)>>]
RunKept(w, v, q, t, n) ==
    \A j \in Index : (\A i \in 0 .. n - 1 : j # Wrap(t + i)) => w[<<q, j>>] = v[<<q, j>>]

LEMMA StoredMoved ==
  ASSUME NEW v \in [Slots -> Nat], NEW w \in [Slots -> Nat],
         NEW q \in Queues, NEW r \in Queues,
         NEW t \in Index, NEW m \in Index, NEW k \in Index, NEW c \in Index,
         NEW n \in Nat, n <= m, c + n <= QueueLen - 1,
         RunGot(w, v, r, Wrap(k + c), q, t, n),
         RunKept(w, v, q, t, n), RunKept(w, v, r, Wrap(k + c), n)
  PROVE  Joined(w, r, k, c + n, q, Wrap(t + n), m - n) = Joined(v, r, k, c, q, t, m)
<1> DEFINE A == Stored(w, r, k, c + n)
           B == Stored(w, q, Wrap(t + n), m - n)
           C == Stored(v, r, k, c)
           E == Stored(v, q, t, m)
<1>0. /\ c + n \in Index /\ m - n \in Index /\ Wrap(t + n) \in Index
      /\ m \in Nat /\ c \in Nat
  BY Lengths DEF Index, Wrap
<1>14. /\ v \in [Slots -> Nat] /\ w \in [Slots -> Nat] /\ q \in Queues /\ r \in Queues
      /\ t \in Index /\ k \in Index /\ m \in Index /\ c \in Index /\ n \in Nat /\ n <= m
  OBVIOUS
<1>1. /\ A \in Seq(Nat) /\ Len(A) = c + n
      /\ \A i \in 1 .. c + n : A[i] = w[<<r, Wrap(k + i - 1)>>]
  <2>1. A \in Seq(Nat) /\ Len(A) = c + n BY <1>0, StoredSeq
  <2>2. \A i \in 1 .. c + n : A[i] = w[<<r, Wrap(k + i - 1)>>]
    BY DEF Stored
  <2> QED BY <2>1, <2>2
<1>2. /\ B \in Seq(Nat) /\ Len(B) = m - n
      /\ \A i \in 1 .. m - n : B[i] = w[<<q, Wrap(Wrap(t + n) + i - 1)>>]
  <2>1. B \in Seq(Nat) /\ Len(B) = m - n BY <1>0, StoredSeq
  <2>2. \A i \in 1 .. m - n : B[i] = w[<<q, Wrap(Wrap(t + n) + i - 1)>>]
    BY DEF Stored
  <2> QED BY <2>1, <2>2
<1>3. /\ C \in Seq(Nat) /\ Len(C) = c
      /\ \A i \in 1 .. c : C[i] = v[<<r, Wrap(k + i - 1)>>]
  <2>1. C \in Seq(Nat) /\ Len(C) = c BY <1>0, StoredSeq
  <2>2. \A i \in 1 .. c : C[i] = v[<<r, Wrap(k + i - 1)>>]
    BY DEF Stored
  <2> QED BY <2>1, <2>2
<1>4. /\ E \in Seq(Nat) /\ Len(E) = m
      /\ \A i \in 1 .. m : E[i] = v[<<q, Wrap(t + i - 1)>>]
  <2>1. E \in Seq(Nat) /\ Len(E) = m BY <1>0, StoredSeq
  <2>2. \A i \in 1 .. m : E[i] = v[<<q, Wrap(t + i - 1)>>]
    BY DEF Stored
  <2> QED BY <2>1, <2>2
<1>15. \A i \in 0 .. n - 1 : w[<<r, Wrap(Wrap(k + c) + i)>>] = v[<<q, Wrap(t + i)>>]
  BY DEF RunGot
<1>16. /\ \A j \in Index : (\A i \in 0 .. n - 1 : j # Wrap(t + i)) =>
              w[<<q, j>>] = v[<<q, j>>]
       /\ \A j \in Index : (\A i \in 0 .. n - 1 : j # Wrap(Wrap(k + c) + i)) =>
              w[<<r, j>>] = v[<<r, j>>]
  BY DEF RunKept
<1>5. \A i \in 1 .. c : A[i] = C[i]
  <2> TAKE i \in 1 .. c
  <2>1. Wrap(k + i - 1) \in Index /\ i \in 1 .. c + n BY <1>0, Lengths DEF Index, Wrap
  <2>2. \A l \in 0 .. n - 1 : Wrap(k + i - 1) # Wrap(Wrap(k + c) + l)
    BY <1>0, Lengths DEF Index, Wrap
  <2>3. w[<<r, Wrap(k + i - 1)>>] = v[<<r, Wrap(k + i - 1)>>] BY <1>16, <2>1, <2>2
  <2> QED BY <1>1, <1>3, <2>1, <2>3
<1>6. \A i \in c + 1 .. c + n : A[i] = E[i - c]
  <2> TAKE i \in c + 1 .. c + n
  <2>1. /\ i \in 1 .. c + n /\ i - c \in 1 .. m /\ i - c - 1 \in 0 .. n - 1
        /\ t + (i - c - 1) = t + (i - c) - 1
        /\ Wrap(Wrap(k + c) + (i - c - 1)) = Wrap(k + i - 1)
    BY <1>0, Lengths DEF Index, Wrap
  <2>2. w[<<r, Wrap(Wrap(k + c) + (i - c - 1))>>] = v[<<q, Wrap(t + (i - c - 1))>>]
    BY <1>15, <2>1
  <2>3. w[<<r, Wrap(k + i - 1)>>] = v[<<q, Wrap(t + (i - c) - 1)>>] BY <2>1, <2>2
  <2> QED BY <1>1, <1>4, <2>1, <2>3
<1>7. \A i \in 1 .. m - n : B[i] = E[n + i]
  <2> TAKE i \in 1 .. m - n
  <2>1. /\ n + i \in 1 .. m /\ Wrap(t + (n + i) - 1) \in Index
        /\ Wrap(Wrap(t + n) + i - 1) = Wrap(t + (n + i) - 1)
    BY <1>0, Lengths DEF Index, Wrap
  <2>2. \A l \in 0 .. n - 1 : Wrap(t + (n + i) - 1) # Wrap(t + l)
    BY <1>0, Lengths DEF Index, Wrap
  <2>3. w[<<q, Wrap(t + (n + i) - 1)>>] = v[<<q, Wrap(t + (n + i) - 1)>>]
    BY <1>16, <2>1, <2>2
  <2>4. E[n + i] = v[<<q, Wrap(t + (n + i) - 1)>>] BY <1>4, <2>1
  <2> QED BY <1>2, <2>1, <2>3, <2>4
<1> HIDE DEF A, B, C, E
<1>8. /\ A \o B \in Seq(Nat) /\ Len(A \o B) = c + m
      /\ \A i \in 1 .. c + m : (A \o B)[i] = IF i <= c + n THEN A[i] ELSE B[i - (c + n)]
  <2>1. Len(A) + Len(B) = c + m BY ONLY <1>0, <1>14, <1>1, <1>2
  <2>2. /\ A \o B \in Seq(Nat) /\ Len(A \o B) = Len(A) + Len(B)
        /\ \A i \in 1 .. Len(A) + Len(B) :
               (A \o B)[i] = IF i <= Len(A) THEN A[i] ELSE B[i - Len(A)]
    BY ONLY <1>1, <1>2, ConcatProperties
  <2>3. Len(A) = c + n BY <1>1
  <2> QED BY ONLY <2>1, <2>2, <2>3
<1>9. /\ C \o E \in Seq(Nat) /\ Len(C \o E) = c + m
      /\ \A i \in 1 .. c + m : (C \o E)[i] = IF i <= c THEN C[i] ELSE E[i - c]
  BY ONLY <1>3, <1>4, ConcatProperties
<1>10. \A i \in 1 .. c + m : (A \o B)[i] = (C \o E)[i]
  <2> TAKE i \in 1 .. c + m
  <2>1. CASE i <= c
    <3>1. i \in 1 .. c /\ i <= c + n BY <1>0, <2>1
    <3> QED BY <1>5, <1>8, <1>9, <2>1, <3>1
  <2>2. CASE c < i /\ i <= c + n
    <3>1. i \in c + 1 .. c + n /\ ~ (i <= c) BY <1>0, <2>2
    <3> QED BY <1>6, <1>8, <1>9, <2>2, <3>1
  <2>3. CASE c + n < i
    <3>1. /\ i - (c + n) \in 1 .. m - n /\ n + (i - (c + n)) = i - c
          /\ ~ (i <= c) /\ ~ (i <= c + n)
      BY <1>0, <2>3
    <3>2. B[i - (c + n)] = E[i - c] BY <1>7, <3>1
    <3> QED BY <1>8, <1>9, <3>1, <3>2
  <2>4. i <= c \/ (c < i /\ i <= c + n) \/ c + n < i BY ONLY <1>0, <1>14, i \in 1 .. c + m
  <2> QED BY ONLY <2>1, <2>2, <2>3, <2>4
<1>11. A \o B = C \o E BY <1>8, <1>9, <1>10, SeqEqual
<1> QED BY <1>11 DEF A, B, C, E, Joined

(* Sequences of packets, put together. *)
LEMMA ConcatAppend ==
  ASSUME NEW s \in Seq(Nat), NEW t \in Seq(Nat), NEW e \in Nat
  PROVE  s \o Append(t, e) = Append(s \o t, e)
<1>1. /\ Append(t, e) \in Seq(Nat) /\ Len(Append(t, e)) = Len(t) + 1
      /\ \A i \in 1 .. Len(t) : Append(t, e)[i] = t[i]
      /\ Append(t, e)[Len(t) + 1] = e
  BY AppendProperties
<1>2. /\ s \o t \in Seq(Nat) /\ Len(s \o t) = Len(s) + Len(t)
      /\ \A i \in 1 .. Len(s) + Len(t) :
             (s \o t)[i] = IF i <= Len(s) THEN s[i] ELSE t[i - Len(s)]
  BY ConcatProperties
<1>3. Len(s) \in Nat /\ Len(t) \in Nat BY LenProperties
<1> DEFINE a == s \o t
           b == s \o Append(t, e)
<1>4. /\ Append(a, e) \in Seq(Nat) /\ Len(Append(a, e)) = Len(s) + Len(t) + 1
      /\ \A i \in 1 .. Len(s) + Len(t) : Append(a, e)[i] = a[i]
      /\ Append(a, e)[Len(s) + Len(t) + 1] = e
  BY <1>2, AppendProperties
<1>5. /\ b \in Seq(Nat) /\ Len(b) = Len(s) + (Len(t) + 1)
      /\ \A i \in 1 .. Len(s) + (Len(t) + 1) :
             b[i] = IF i <= Len(s) THEN s[i] ELSE Append(t, e)[i - Len(s)]
  <2>1. /\ b \in Seq(Nat) /\ Len(b) = Len(s) + Len(Append(t, e))
        /\ \A i \in 1 .. Len(s) + Len(Append(t, e)) :
               b[i] = IF i <= Len(s) THEN s[i] ELSE Append(t, e)[i - Len(s)]
    BY <1>1, ConcatProperties
  <2> QED BY <1>1, <2>1
<1> HIDE DEF a, b
<1>6. Len(s) + (Len(t) + 1) = Len(s) + Len(t) + 1 BY <1>3
<1>7. \A i \in 1 .. Len(s) + (Len(t) + 1) : b[i] = Append(a, e)[i]
  <2> TAKE i \in 1 .. Len(s) + (Len(t) + 1)
  <2>1. CASE i <= Len(s)
    <3>1. i \in 1 .. Len(s) + Len(t) BY <1>3, <2>1
    <3> QED BY <1>2, <1>4, <1>5, <2>1, <3>1 DEF a
  <2>2. CASE ~ (i <= Len(s)) /\ i <= Len(s) + Len(t)
    <3>1. i \in 1 .. Len(s) + Len(t) /\ i - Len(s) \in 1 .. Len(t) BY <1>3, <2>2
    <3> QED BY <1>1, <1>2, <1>4, <1>5, <2>2, <3>1 DEF a
  <2>3. CASE ~ (i <= Len(s)) /\ ~ (i <= Len(s) + Len(t))
    <3> DEFINE m == Len(s)
               n == Len(t)
    <3>2. m \in Nat /\ n \in Nat /\ i \in 1 .. m + (n + 1) /\ ~ (i <= m + n)
      BY <1>3, <2>3
    <3> HIDE DEF m, n
    <3>3. i = m + n + 1 /\ i - m = n + 1 BY ONLY <3>2
    <3>1. i = Len(s) + Len(t) + 1 /\ i - Len(s) = Len(t) + 1 BY <3>3 DEF m, n
    <3> QED BY <1>1, <1>4, <1>5, <2>3, <3>1
  <2> QED BY <2>1, <2>2, <2>3
<1>8. b = Append(a, e) BY <1>4, <1>5, <1>6, <1>7, SeqEqual
<1> QED BY <1>8 DEF a, b

LEMMA AppendOne ==
  ASSUME NEW s \in Seq(Nat), NEW e \in Nat
  PROVE  Append(s, e) = s \o <<e>> /\ Append(s, e) \in Seq(Nat)
<1>1. <<>> \in Seq(Nat) /\ s \o <<>> = s BY EmptySeq, ConcatEmptySeq
<1>2. Append(<<>>, e) = <<e>> OBVIOUS
<1>3. s \o Append(<<>>, e) = Append(s \o <<>>, e) BY <1>1, ConcatAppend
<1> QED BY <1>1, <1>2, <1>3, AppendProperties

LEMMA ConcatNat ==
  ASSUME NEW s \in Seq(Nat), NEW t \in Seq(Nat), NEW u \in Seq(Nat)
  PROVE  (s \o t) \o u = s \o (t \o u)
<1> DEFINE a == s \o t
           b == t \o u
           l == a \o u
           r == s \o b
           i1 == Len(s)
           i2 == Len(t)
           i3 == Len(u)
<1>0. i1 \in Nat /\ i2 \in Nat /\ i3 \in Nat BY LenProperties
<1>1. /\ a \in Seq(Nat) /\ Len(a) = i1 + i2
      /\ \A i \in 1 .. i1 + i2 : a[i] = IF i <= i1 THEN s[i] ELSE t[i - i1]
  BY ConcatProperties
<1>2. /\ b \in Seq(Nat) /\ Len(b) = i2 + i3
      /\ \A i \in 1 .. i2 + i3 : b[i] = IF i <= i2 THEN t[i] ELSE u[i - i2]
  BY ConcatProperties
<1> HIDE DEF a, b
<1>3. /\ l \in Seq(Nat) /\ Len(l) = (i1 + i2) + i3
      /\ \A i \in 1 .. (i1 + i2) + i3 : l[i] = IF i <= i1 + i2 THEN a[i] ELSE u[i - (i1 + i2)]
  <2>1. /\ l \in Seq(Nat) /\ Len(l) = Len(a) + i3
        /\ \A i \in 1 .. Len(a) + i3 : l[i] = IF i <= Len(a) THEN a[i] ELSE u[i - Len(a)]
    <3>1. a \in Seq(Nat) /\ u \in Seq(Nat) BY <1>1
    <3> QED BY ONLY <3>1, ConcatProperties
  <2> QED BY <1>1, <2>1
<1>4. /\ r \in Seq(Nat) /\ Len(r) = i1 + (i2 + i3)
      /\ \A i \in 1 .. i1 + (i2 + i3) : r[i] = IF i <= i1 THEN s[i] ELSE b[i - i1]
  <2>1. /\ r \in Seq(Nat) /\ Len(r) = i1 + Len(b)
        /\ \A i \in 1 .. i1 + Len(b) : r[i] = IF i <= i1 THEN s[i] ELSE b[i - i1]
    <3>1. b \in Seq(Nat) /\ s \in Seq(Nat) BY <1>2
    <3> QED BY ONLY <3>1, ConcatProperties
  <2> QED BY <1>2, <2>1
<1> HIDE DEF l, r, i1, i2, i3
<1>5. (i1 + i2) + i3 = i1 + (i2 + i3) BY <1>0
<1>6. \A i \in 1 .. (i1 + i2) + i3 : l[i] = r[i]
  <2> TAKE i \in 1 .. (i1 + i2) + i3
  <2>0. i \in 1 .. i1 + (i2 + i3) BY <1>5
  <2>1. CASE i <= i1
    <3>1. i <= i1 + i2 /\ i \in 1 .. i1 + i2 BY <1>0, <2>1
    <3> QED BY <1>1, <1>3, <1>4, <2>0, <2>1, <3>1
  <2>2. CASE ~ (i <= i1) /\ i <= i1 + i2
    <3>1. i \in 1 .. i1 + i2 /\ i - i1 \in 1 .. i2 + i3 /\ i - i1 <= i2 BY <1>0, <2>2
    <3>2. l[i] = t[i - i1] BY <1>1, <1>3, <2>2, <3>1
    <3>3. r[i] = t[i - i1] BY <1>2, <1>4, <2>0, <2>2, <3>1
    <3> QED BY <3>2, <3>3
  <2>3. CASE ~ (i <= i1) /\ ~ (i <= i1 + i2)
    <3>1. /\ i - i1 \in 1 .. i2 + i3 /\ ~ (i - i1 <= i2)
          /\ i - i1 - i2 = i - (i1 + i2)
      BY <1>0, <2>3
    <3>2. l[i] = u[i - (i1 + i2)] BY <1>3, <2>3
    <3>3. r[i] = u[i - i1 - i2] BY <1>2, <1>4, <2>0, <2>3, <3>1
    <3> QED BY <3>1, <3>2, <3>3
  <2> QED BY <2>1, <2>2, <2>3
<1>7. l = r BY <1>3, <1>4, <1>5, <1>6, SeqEqual
<1> QED BY <1>7 DEF l, r, a, b

LEMMA JoinFirst ==
  ASSUME NEW a \in Seq(Nat), NEW b \in Seq(Nat), NEW e \in Nat
  PROVE  a \o (<<e>> \o b) = Append(a, e) \o b /\ a \o (<<e>> \o b) = (a \o <<e>>) \o b
<1>1. <<e>> \in Seq(Nat) BY OneSeq
<1>2. Append(a, e) = a \o <<e>> BY AppendOne
<1> DEFINE f == <<e>>
<1> HIDE DEF f
<1>3. f \in Seq(Nat) BY <1>1 DEF f
<1>4. (a \o f) \o b = a \o (f \o b) BY <1>3, ConcatNat
<1> QED BY <1>2, <1>4 DEF f

-----------------------------------------------------------------------------
(* The invariant: what is on the way, in order, and that the slots from    *)
(* which packets are taken hold one.                                       *)
Waits(q) == Stored(Packets, q, tail[q], Count(q))
Batched  == IF host = "send" THEN Loaded(Packets, at, got - at) ELSE <<>>
Offered  == IF len[queued_pkt] = 0 THEN <<>> ELSE <<Packets[queued_pkt]>>

AllMarked(l, q, t, n) == \A i \in 0 .. n - 1 : l[<<q, Wrap(t + i)>>] = 1

Typed ==
    /\ mem \in [Buffers -> Nat] /\ made \in Nat
    /\ accepted \in Seq(Nat) /\ sent \in Seq(Nat)
    /\ received \in Seq(Nat) /\ delivered \in Seq(Nat)

QueueMarked(q) == AllMarked(len, q, tail[q], Count(q))
BatchMarked    == host = "forward" => \A i \in at .. got - 1 : len[<<"pkt_tx_v", i>>] = 1
PktMarked      == host = "put" => len[pkt] = 1
HeldMarked     == cpu = "card" => len[queued_pkt] = 1

Marked ==
    /\ QueueMarked("RX") /\ QueueMarked("RX_ON_TX")
    /\ BatchMarked /\ PktMarked /\ HeldMarked

OutInOrder == accepted = ((sent \o Batched) \o Waits("TX_HOST")) \o Waits("TX_VM")
RxInOrder  == received = (delivered \o Offered) \o Waits("RX")

LEMMA QueueNames ==
  /\ "RX" \in Queues /\ "TX_VM" \in Queues /\ "TX_HOST" \in Queues /\ "RX_ON_TX" \in Queues
  /\ \A q \in Queues : q # "pkt_tx_v" /\ q # queued_pkt[1] /\ q # pkt[1]
  /\ queued_pkt[1] = "queued_pkt" /\ pkt[1] = "pkt" /\ queued_pkt # pkt
BY DEF Queues, queued_pkt, pkt

LEMMA PacketsTyped ==
  ASSUME Inv, Typed
  PROVE  Packets \in [Slots -> Nat]
BY DEF Inv, Typed, Packets

LEMMA PiecesTyped ==
  ASSUME Inv, Typed
  PROVE  /\ \A q \in Queues : Waits(q) \in Seq(Nat)
         /\ Batched \in Seq(Nat) /\ Offered \in Seq(Nat)
<1>1. Packets \in [Slots -> Nat] BY PacketsTyped
<1>2. ASSUME NEW q \in Queues PROVE Waits(q) \in Seq(Nat)
  <2>1. tail[q] \in Index /\ Count(q) \in Index BY IndicesTyped
  <2> QED BY <1>1, <2>1, StoredSeq DEF Waits
<1>3. Batched \in Seq(Nat)
  <2>1. at \in Nat /\ got - at \in Nat /\ at + (got - at) <= QueueLen
    BY Lengths DEF Inv, Index
  <2>2. Loaded(Packets, at, got - at) \in Seq(Nat) BY <1>1, <2>1, LoadedSeq
  <2> QED BY <2>2, EmptySeq DEF Batched
<1>4. Offered \in Seq(Nat)
  <2>1. Packets[queued_pkt] \in Nat BY <1>1, SlotNames
  <2> QED BY <2>1, OneSeq, EmptySeq DEF Offered
<1> QED BY <1>2, <1>3, <1>4

(* What a step does to the packets in the slots: a swap, a packet written. *)
LEMMA PacketsSwapped ==
  ASSUME Inv, NEW p \in [Slots -> Slots], Swapped(p), mem' = mem
  PROVE  \A s \in Slots : Packets'[s] = Packets[p[s]] /\ len'[s] = len[p[s]]
<1>1. \A s \in Slots : data'[s] = data[p[s]] /\ len'[s] = len[p[s]] BY DEF Swapped
<1> QED BY <1>1 DEF Packets

LEMMA PacketsFilled ==
  ASSUME Inv, Typed, NEW s \in Slots, NEW x, Fill(s, x), data' = data
  PROVE  \A r \in Slots : Packets'[r] = IF r = s THEN x ELSE Packets[r]
<1>1. \A r \in Slots : data[r] \in Buffers BY DEF Inv
<1>2. \A r \in Slots : r # s => data[r] # data[s] BY DEF Inv, BuffersDistinct
<1>3. mem' = [mem EXCEPT ![data[s]] = x] /\ mem \in [Buffers -> Nat] BY DEF Fill, Typed
<1>4. \A r \in Slots : mem'[data[r]] = IF r = s THEN x ELSE mem[data[r]]
  BY <1>1, <1>2, <1>3
<1> QED BY <1>4 DEF Packets

LEMMA PacketsKept ==
  ASSUME UNCHANGED <<data, mem>>
  PROVE  Packets' = Packets
BY DEF Packets

LEMMA WaitsSame ==
  ASSUME Inv, NEW q \in Queues, head'[q] = head[q], tail'[q] = tail[q],
         \A j \in Index : Packets'[<<q, j>>] = Packets[<<q, j>>]
  PROVE  Waits(q)' = Waits(q) /\ Count(q)' = Count(q)
<1>1. tail[q] \in Index /\ Count(q) \in Index BY IndicesTyped
<1>2. Count(q)' = Count(q) BY DEF Count
<1>3. Stored(Packets', q, tail[q], Count(q)) = Stored(Packets, q, tail[q], Count(q))
  BY <1>1, StoredSame
<1> QED BY <1>2, <1>3 DEF Waits

LEMMA PutEffect ==
  ASSUME Inv, NEW q \in Queues, ~ network_queue_full(q),
         head'[q] = Wrap(head[q] + 1), tail'[q] = tail[q]
  PROVE  /\ Count(q)' = Count(q) + 1 /\ Count(q) + 1 \in Index
         /\ Wrap(tail[q] + Count(q)) = head[q]
<1>1. head[q] \in Index /\ tail[q] \in Index BY IndicesTyped
<1>2. Count(q) = CountOf(head[q], tail[q]) /\ Count(q)' = CountOf(head'[q], tail'[q])
  BY DEF Count, CountOf
<1>3. Wrap(head[q] + 1) # tail[q] BY DEF network_queue_full
<1>4. /\ CountOf(head[q], tail[q]) \in Nat /\ CountOf(head[q], tail[q]) + 1 <= QueueLen - 1
      /\ Wrap(tail[q] + CountOf(head[q], tail[q])) = head[q]
  BY <1>1, <1>3, CountOfRange
<1>5. CountOf(Wrap(head[q] + 1), tail[q]) = CountOf(head[q], tail[q]) + 1
  BY <1>1, <1>4, CountOfPut
<1>6. CountOf(head[q], tail[q]) + 1 \in Index BY <1>4, Lengths DEF Index
<1> QED BY <1>2, <1>4, <1>5, <1>6

LEMMA GetEffect ==
  ASSUME Inv, NEW q \in Queues, NEW n \in Nat, n <= Count(q),
         head'[q] = head[q], tail'[q] = Wrap(tail[q] + n)
  PROVE  Count(q)' = Count(q) - n
<1>1. head[q] \in Index /\ tail[q] \in Index BY IndicesTyped
<1>2. Count(q) = CountOf(head[q], tail[q]) /\ Count(q)' = CountOf(head'[q], tail'[q])
  BY DEF Count, CountOf
<1> QED BY <1>1, <1>2, CountOfGet

LEMMA WaitsPut ==
  ASSUME Inv, Typed, Packets' \in [Slots -> Nat], NEW q \in Queues,
         ~ network_queue_full(q), head'[q] = Wrap(head[q] + 1), tail'[q] = tail[q],
         \A j \in Index : j # head[q] => Packets'[<<q, j>>] = Packets[<<q, j>>]
  PROVE  Waits(q)' = Append(Waits(q), Packets'[<<q, head[q]>>])
<1>1. /\ Count(q)' = Count(q) + 1 /\ Count(q) + 1 \in Index
      /\ Wrap(tail[q] + Count(q)) = head[q]
  BY PutEffect
<1>2. tail[q] \in Index /\ Count(q) \in Nat BY IndicesTyped
<1>3. Packets \in [Slots -> Nat] BY PacketsTyped
<1> DEFINE k == Wrap(tail[q] + Count(q))
<1>5. \A j \in Index : j # k => Packets'[<<q, j>>] = Packets[<<q, j>>] BY <1>1
<1>4. Stored(Packets', q, tail[q], Count(q) + 1)
        = Append(Stored(Packets, q, tail[q], Count(q)), Packets'[<<q, Wrap(tail[q] + Count(q))>>])
  BY <1>1, <1>2, <1>3, <1>5, StoredPut
<1> QED BY <1>1, <1>4 DEF Waits

LEMMA WaitsGet ==
  ASSUME Inv, Typed, NEW q \in Queues, ~ network_queue_empty(q),
         head'[q] = head[q], tail'[q] = Wrap(tail[q] + 1),
         \A j \in Index : j # tail[q] => Packets'[<<q, j>>] = Packets[<<q, j>>]
  PROVE  Waits(q) = <<Packets[<<q, tail[q]>>]>> \o Waits(q)'
<1>1. tail[q] \in Index /\ Count(q) \in Index /\ Count(q) # 0 /\ Count(q) \in Nat
  BY IndicesTyped
<1>2. Count(q)' = Count(q) - 1
  <2>1. 1 <= Count(q) BY <1>1
  <2> QED BY <2>1, GetEffect
<1>3. Packets \in [Slots -> Nat] BY PacketsTyped
<1>4. Stored(Packets, q, tail[q], Count(q))
        = <<Packets[<<q, tail[q]>>]>> \o Stored(Packets, q, Wrap(tail[q] + 1), Count(q) - 1)
  BY <1>1, <1>3, StoredGet
<1>5. Stored(Packets', q, Wrap(tail[q] + 1), Count(q) - 1)
        = Stored(Packets, q, Wrap(tail[q] + 1), Count(q) - 1)
  <2>1. \A i \in 1 .. Count(q) - 1 : /\ Wrap(Wrap(tail[q] + 1) + i - 1) \in Index
                                     /\ Wrap(Wrap(tail[q] + 1) + i - 1) # tail[q]
    BY <1>1, Lengths DEF Wrap, Index
  <2> QED BY <2>1 DEF Stored
<1> QED BY <1>2, <1>4, <1>5 DEF Waits

-----------------------------------------------------------------------------
(* What a step moves: slot s gets what slot r held; a step keeps every     *)
(* slot and index but those that the names in N stand for.                 *)
Moved(s, r) == Packets'[s] = Packets[r] /\ len'[s] = len[r]

KeptBut(N) ==
    /\ \A s \in Slots : s[1] \notin N => Moved(s, s)
    /\ \A q \in Queues : q \notin N => head'[q] = head[q] /\ tail'[q] = tail[q]

QueueKept(q) ==
    /\ head'[q] = head[q] /\ tail'[q] = tail[q]
    /\ \A j \in Index : Moved(<<q, j>>, <<q, j>>)

BatchKept == \A j \in Index : Moved(<<"pkt_tx_v", j>>, <<"pkt_tx_v", j>>)

LEMMA QueueKeptBut ==
  ASSUME NEW N, KeptBut(N), NEW q \in Queues, q \notin N
  PROVE  QueueKept(q)
<1>1. \A j \in Index : <<q, j>> \in Slots /\ <<q, j>>[1] = q BY SlotNames
<1>2. \A s \in Slots : s[1] \notin N => Moved(s, s) BY DEF KeptBut
<1>3. \A j \in Index : Moved(<<q, j>>, <<q, j>>) BY <1>1, <1>2
<1> QED BY <1>3 DEF KeptBut, QueueKept

LEMMA BatchKeptBut ==
  ASSUME NEW N, KeptBut(N), "pkt_tx_v" \notin N
  PROVE  BatchKept
<1>1. \A j \in Index : <<"pkt_tx_v", j>> \in Slots /\ <<"pkt_tx_v", j>>[1] = "pkt_tx_v"
  BY SlotNames
<1>2. \A s \in Slots : s[1] \notin N => Moved(s, s) BY DEF KeptBut
<1> QED BY <1>1, <1>2 DEF BatchKept

LEMMA AlonesKept ==
  ASSUME NEW N, KeptBut(N)
  PROVE  /\ "queued_pkt" \notin N => Moved(queued_pkt, queued_pkt)
         /\ "pkt" \notin N => Moved(pkt, pkt)
<1>1. queued_pkt \in Slots /\ pkt \in Slots BY SlotNames
<1> QED BY <1>1, QueueNames DEF KeptBut

(* The three swaps. *)
LEMMA AloneMoves ==
  ASSUME Inv, mem' = mem, NEW q \in Queues, NEW k \in Index, NEW s \in Slots, s[1] # q,
         Swapped(Partners(Run(q, k, 1), Alone(s)))
  PROVE  /\ Moved(<<q, k>>, s) /\ Moved(s, <<q, k>>)
         /\ \A r \in Slots : r # <<q, k>> /\ r # s => Moved(r, r)
<1> DEFINE p == Partners(Run(q, k, 1), Alone(s))
<1>1. p \in [Slots -> Slots] BY PairAlone
<1>2. /\ p[<<q, k>>] = s /\ p[s] = <<q, k>>
      /\ \A r \in Slots : r # <<q, k>> /\ r # s => p[r] = r
  BY AloneSwap
<1>3. <<q, k>> \in Slots BY SlotNames
<1>4. Swapped(p) OBVIOUS
<1> HIDE DEF p
<1>5. \A r \in Slots : Packets'[r] = Packets[p[r]] /\ len'[r] = len[p[r]]
  BY <1>1, <1>4, PacketsSwapped
<1> QED BY <1>2, <1>3, <1>5 DEF Moved

LEMMA BatchMoves ==
  ASSUME Inv, mem' = mem, NEW q \in Queues, NEW k \in Index, NEW n \in 0 .. QueueLen,
         Swapped(Partners(Run(q, k, n), Batch(n)))
  PROVE  /\ \A i \in 0 .. n - 1 : Moved(<<"pkt_tx_v", i>>, <<q, Wrap(k + i)>>)
         /\ \A r \in Slots : r[1] # q /\ r[1] # "pkt_tx_v" => Moved(r, r)
<1> DEFINE p == Partners(Run(q, k, n), Batch(n))
<1>1. p \in [Slots -> Slots] BY PairBatch
<1>2. /\ \A i \in 0 .. n - 1 : p[<<"pkt_tx_v", i>>] = <<q, Wrap(k + i)>>
      /\ \A r \in Slots : r[1] # q /\ r[1] # "pkt_tx_v" => p[r] = r
  BY BatchSwap
<1>3. \A i \in 0 .. n - 1 : <<"pkt_tx_v", i>> \in Slots
  <2>1. \A i \in 0 .. n - 1 : i \in Index BY Lengths DEF Index
  <2> QED BY <2>1, SlotNames
<1>4. Swapped(p) OBVIOUS
<1> HIDE DEF p
<1>5. \A r \in Slots : Packets'[r] = Packets[p[r]] /\ len'[r] = len[p[r]]
  BY <1>1, <1>4, PacketsSwapped
<1> QED BY <1>2, <1>3, <1>5 DEF Moved

LEMMA RunsMoves ==
  ASSUME Inv, mem' = mem, NEW q \in Queues, NEW r \in Queues, q # r,
         NEW k \in Index, NEW l \in Index, NEW n \in 0 .. QueueLen,
         Swapped(Partners(Run(q, k, n), Run(r, l, n)))
  PROVE  /\ \A i \in 0 .. n - 1 : Moved(<<r, Wrap(l + i)>>, <<q, Wrap(k + i)>>)
         /\ \A j \in Index : (\A i \in 0 .. n - 1 : j # Wrap(k + i)) => Moved(<<q, j>>, <<q, j>>)
         /\ \A j \in Index : (\A i \in 0 .. n - 1 : j # Wrap(l + i)) => Moved(<<r, j>>, <<r, j>>)
         /\ \A s \in Slots : s[1] # q /\ s[1] # r => Moved(s, s)
<1> DEFINE p == Partners(Run(q, k, n), Run(r, l, n))
<1>1. p \in [Slots -> Slots] BY PairRuns
<1>2. /\ \A i \in 0 .. n - 1 : p[<<r, Wrap(l + i)>>] = <<q, Wrap(k + i)>>
      /\ \A j \in Index : (\A i \in 0 .. n - 1 : j # Wrap(k + i)) => p[<<q, j>>] = <<q, j>>
      /\ \A j \in Index : (\A i \in 0 .. n - 1 : j # Wrap(l + i)) => p[<<r, j>>] = <<r, j>>
      /\ \A s \in Slots : s[1] # q /\ s[1] # r => p[s] = s
  BY RunsSwap
<1>3. \A i \in 0 .. n - 1 : <<r, Wrap(l + i)>> \in Slots
  <2>1. \A i \in 0 .. n - 1 : Wrap(l + i) \in Index BY Lengths DEF Index, Wrap
  <2> QED BY <2>1, SlotNames
<1>6. \A j \in Index : <<q, j>> \in Slots /\ <<r, j>> \in Slots BY SlotNames
<1>4. Swapped(p) OBVIOUS
<1> HIDE DEF p
<1>5. \A s \in Slots : Packets'[s] = Packets[p[s]] /\ len'[s] = len[p[s]]
  BY <1>1, <1>4, PacketsSwapped
<1> QED BY <1>2, <1>3, <1>5, <1>6 DEF Moved

-----------------------------------------------------------------------------
(* What the actions move. *)

(* A queue that gains a packet, and one that loses one. *)
QueueGains(q) ==
    /\ ~ network_queue_full(q)
    /\ head'[q] = Wrap(head[q] + 1) /\ tail'[q] = tail[q]
    /\ \A j \in Index : j # head[q] => Moved(<<q, j>>, <<q, j>>)

QueueLoses(q) ==
    /\ ~ network_queue_empty(q)
    /\ head'[q] = head[q] /\ tail'[q] = Wrap(tail[q] + 1)
    /\ \A j \in Index : j # tail[q] => Moved(<<q, j>>, <<q, j>>)

LEMMA PutMoves ==
  ASSUME Inv, mem' = mem, tail' = tail, NEW q \in Queues, NEW s \in Slots, s[1] # q,
         ~ network_queue_full(q), network_queue_put_swap(q, s)
  PROVE  /\ QueueGains(q) /\ Moved(<<q, head[q]>>, s) /\ KeptBut({q, s[1]})
         /\ \A r \in Slots : r # s /\ r[1] # q => Moved(r, r)
<1>1. head[q] \in Index BY IndicesTyped
<1>2. /\ Moved(<<q, head[q]>>, s) /\ Moved(s, <<q, head[q]>>)
      /\ \A r \in Slots : r # <<q, head[q]>> /\ r # s => Moved(r, r)
  BY <1>1, AloneMoves DEF network_queue_put_swap
<1>3. head' = [head EXCEPT ![q] = Wrap(head[q] + 1)] /\ head \in [Queues -> Index]
  BY DEF network_queue_put_swap, Put, Inv
<1>4. \A j \in Index : <<q, j>> \in Slots /\ <<q, j>> # s BY SlotNames
<1>5. \A j \in Index : j # head[q] => Moved(<<q, j>>, <<q, j>>) BY <1>2, <1>4
<1>6. head'[q] = Wrap(head[q] + 1) /\ \A x \in Queues : x # q => head'[x] = head[x]
  BY <1>3
<1>7. QueueGains(q) BY <1>5, <1>6 DEF QueueGains
<1>8. \A r \in Slots : r # s /\ r[1] # q => Moved(r, r)
  <2> TAKE r \in Slots
  <2> HAVE r # s /\ r[1] # q
  <2>1. r # <<q, head[q]>> OBVIOUS
  <2> QED BY <1>2, <2>1
<1>9. KeptBut({q, s[1]}) BY <1>6, <1>8 DEF KeptBut
<1> QED BY <1>2, <1>7, <1>8, <1>9

LEMMA network_txMoves ==
  ASSUME Inv, Typed, network_tx
  PROVE  /\ KeptBut({"TX_VM"}) /\ QueueGains("TX_VM")
         /\ Packets'[<<"TX_VM", head["TX_VM"]>>] = Len(accepted) + 1
<1> DEFINE s == <<"TX_VM", head["TX_VM"]>>
<1>1. head["TX_VM"] \in Index BY QueueNames, IndicesTyped
<1>2. s \in Slots BY <1>1, QueueNames, SlotNames
<1>3. /\ data' = data /\ len' = [len EXCEPT ![s] = 1] /\ Fill(s, Len(accepted) + 1)
      /\ tail' = tail
  BY DEF network_tx
<1>4. head' = [head EXCEPT !["TX_VM"] = Wrap(head["TX_VM"] + 1)] /\ head \in [Queues -> Index]
  BY DEF network_tx, Put, Inv
<1>5. s[1] = "TX_VM" /\ \A j \in Index : j # head["TX_VM"] => <<"TX_VM", j>> # s OBVIOUS
<1> HIDE DEF s
<1>6. \A r \in Slots : Packets'[r] = IF r = s THEN Len(accepted) + 1 ELSE Packets[r]
  BY <1>2, <1>3, PacketsFilled
<1>7. \A r \in Slots : r # s => Moved(r, r)
  <2>1. \A r \in Slots : r # s => len'[r] = len[r] BY <1>3 DEF Inv
  <2> QED BY <1>6, <2>1 DEF Moved
<1>8. KeptBut({"TX_VM"})
  <2>1. \A r \in Slots : r[1] \notin {"TX_VM"} => Moved(r, r) BY <1>5, <1>7
  <2>2. \A q \in Queues : q \notin {"TX_VM"} => head'[q] = head[q] /\ tail'[q] = tail[q]
    BY <1>3, <1>4
  <2> QED BY <2>1, <2>2 DEF KeptBut
<1>9. QueueGains("TX_VM")
  <2>1. \A j \in Index : <<"TX_VM", j>> \in Slots BY QueueNames, SlotNames
  <2>2. \A j \in Index : j # head["TX_VM"] => Moved(<<"TX_VM", j>>, <<"TX_VM", j>>)
    BY <1>5, <1>7, <2>1
  <2>3. head'["TX_VM"] = Wrap(head["TX_VM"] + 1) /\ tail'["TX_VM"] = tail["TX_VM"]
    BY <1>3, <1>4, QueueNames
  <2>4. ~ network_queue_full("TX_VM") BY DEF network_tx
  <2> QED BY <2>2, <2>3, <2>4 DEF QueueGains
<1>10. Packets'[s] = Len(accepted) + 1 BY <1>2, <1>6
<1> QED BY <1>8, <1>9, <1>10 DEF s

LEMMA ReceiveNextMoves ==
  ASSUME Inv, ReceiveNext, ~ network_queue_empty("RX")
  PROVE  /\ KeptBut({"RX", "queued_pkt"}) /\ QueueLoses("RX")
         /\ Moved(queued_pkt, <<"RX", tail["RX"]>>)
<1>1. "RX" \in Queues /\ queued_pkt[1] # "RX" /\ queued_pkt[1] = "queued_pkt"
      /\ queued_pkt \in Slots
  BY QueueNames, SlotNames
<1>2. tail["RX"] \in Index BY <1>1, IndicesTyped
<1>3. /\ Swapped(Partners(Run("RX", tail["RX"], 1), Alone(queued_pkt))) /\ mem' = mem
      /\ tail' = [tail EXCEPT !["RX"] = Wrap(tail["RX"] + 1)] /\ head' = head
  BY DEF ReceiveNext, Get
<1>4. /\ Moved(queued_pkt, <<"RX", tail["RX"]>>)
      /\ \A r \in Slots : r # <<"RX", tail["RX"]>> /\ r # queued_pkt => Moved(r, r)
  BY <1>1, <1>2, <1>3, AloneMoves
<1>5. tail'["RX"] = Wrap(tail["RX"] + 1) /\ \A x \in Queues : x # "RX" => tail'[x] = tail[x]
  BY <1>1, <1>3 DEF Inv
<1>6. \A j \in Index : <<"RX", j>> \in Slots /\ <<"RX", j>> # queued_pkt
  BY <1>1, SlotNames
<1>7. \A j \in Index : j # tail["RX"] => Moved(<<"RX", j>>, <<"RX", j>>) BY <1>4, <1>6
<1>8. QueueLoses("RX") BY <1>3, <1>5, <1>7 DEF QueueLoses
<1>9. KeptBut({"RX", "queued_pkt"})
  <2>1. ASSUME NEW r \in Slots, r[1] \notin {"RX", "queued_pkt"} PROVE Moved(r, r)
    <3>1. r # <<"RX", tail["RX"]>> /\ r # queued_pkt BY <1>1, <2>1
    <3> QED BY <1>4, <3>1
  <2> QED BY <1>3, <1>5, <2>1 DEF KeptBut
<1> QED BY <1>4, <1>8, <1>9

(* The slots alone. *)
LEMMA CardTakesMoves ==
  ASSUME Inv, CardTakes
  PROVE  KeptBut({"queued_pkt"}) /\ Packets' = Packets /\ len'[queued_pkt] = 0
<1>1. UNCHANGED <<data, mem, head, tail>> /\ len' = [len EXCEPT ![queued_pkt] = 0]
  BY DEF CardTakes
<1>2. Packets' = Packets BY <1>1, PacketsKept
<1>3. len'[queued_pkt] = 0 /\ \A r \in Slots : r # queued_pkt => len'[r] = len[r]
  BY <1>1, SlotNames DEF Inv
<1>4. KeptBut({"queued_pkt"}) BY <1>1, <1>2, <1>3, QueueNames DEF KeptBut, Moved
<1> QED BY <1>2, <1>3, <1>4

LEMMA HostReceiveMoves ==
  ASSUME Inv, Typed, HostReceive
  PROVE  KeptBut({"pkt"}) /\ len'[pkt] = 1
<1>1. /\ UNCHANGED <<data, head, tail>> /\ len' = [len EXCEPT ![pkt] = 1]
      /\ Fill(pkt, made + 1)
  BY DEF HostReceive
<1>2. pkt \in Slots BY SlotNames
<1>3. \A r \in Slots : Packets'[r] = IF r = pkt THEN made + 1 ELSE Packets[r]
  BY <1>1, <1>2, PacketsFilled
<1>4. len'[pkt] = 1 /\ \A r \in Slots : r # pkt => len'[r] = len[r]
  BY <1>1, <1>2 DEF Inv
<1>5. KeptBut({"pkt"}) BY <1>1, <1>3, <1>4, QueueNames DEF KeptBut, Moved
<1> QED BY <1>4, <1>5

(* network_rx_put_pkt(): nothing, or the packet is put on the queue. *)
LEMMA RxPutMoves ==
  ASSUME Inv, mem' = mem, tail' = tail, NEW s \in Slots, s[1] # "RX",
         network_rx_put_pkt(s)
  PROVE  /\ KeptBut({"RX", s[1]})
         /\ \A r \in Slots : r # s /\ r[1] # "RX" => Moved(r, r)
         /\ \/ QueueKept("RX") /\ received' = received
            \/ /\ QueueGains("RX") /\ Moved(<<"RX", head["RX"]>>, s)
               /\ received' = Append(received, Packets[s])
<1>1. CASE network_queue_full("RX")
  <2>1. UNCHANGED <<data, len, head, received>> BY <1>1 DEF network_rx_put_pkt
  <2>2. Packets' = Packets BY <2>1, PacketsKept
  <2>3. \A r : Moved(r, r) BY <2>1, <2>2 DEF Moved
  <2> QED BY <2>1, <2>3 DEF KeptBut, QueueKept
<1>2. CASE ~ network_queue_full("RX")
  <2>1. network_queue_put_swap("RX", s) /\ received' = Append(received, Packets[s])
    BY <1>2 DEF network_rx_put_pkt, Packets
  <2>2. "RX" \in Queues BY QueueNames
  <2> QED BY <1>2, <2>1, <2>2, PutMoves
<1> QED BY <1>1, <1>2

LEMMA HostPutMoves ==
  ASSUME Inv, HostPut
  PROVE  /\ KeptBut({"RX", "pkt"})
         /\ \/ QueueKept("RX") /\ received' = received
            \/ /\ QueueGains("RX") /\ Moved(<<"RX", head["RX"]>>, pkt)
               /\ received' = Append(received, Packets[pkt])
<1>1. pkt \in Slots /\ pkt[1] # "RX" /\ pkt[1] = "pkt" BY SlotNames, QueueNames DEF pkt
<1>2. mem' = mem /\ tail' = tail /\ network_rx_put_pkt(pkt) BY DEF HostPut
<1> HIDE DEF pkt
<1> QED BY <1>1, <1>2, RxPutMoves

LEMMA HostForwardMoves ==
  ASSUME Inv, HostForward
  PROVE  /\ KeptBut({"RX", "pkt_tx_v"})
         /\ \A j \in Index : j # at => Moved(<<"pkt_tx_v", j>>, <<"pkt_tx_v", j>>)
         /\ \/ QueueKept("RX") /\ received' = received
            \/ /\ QueueGains("RX") /\ Moved(<<"RX", head["RX"]>>, <<"pkt_tx_v", at>>)
               /\ received' = Append(received, Packets[<<"pkt_tx_v", at>>])
<1> DEFINE s == <<"pkt_tx_v", at>>
<1>1. at \in Index BY Lengths DEF Inv, HostForward, Index
<1>2. /\ s \in Slots /\ s[1] # "RX" /\ s[1] = "pkt_tx_v"
      /\ \A j \in Index : <<"pkt_tx_v", j>> \in Slots /\ (j # at => <<"pkt_tx_v", j>> # s)
  BY <1>1, SlotNames
<1>3. mem' = mem /\ tail' = tail /\ network_rx_put_pkt(s) BY DEF HostForward
<1> HIDE DEF s
<1>4. /\ KeptBut({"RX", s[1]})
      /\ \A r \in Slots : r # s /\ r[1] # "RX" => Moved(r, r)
      /\ \/ QueueKept("RX") /\ received' = received
         \/ /\ QueueGains("RX") /\ Moved(<<"RX", head["RX"]>>, s)
            /\ received' = Append(received, Packets[s])
  BY <1>2, <1>3, RxPutMoves
<1>5. \A j \in Index : j # at => Moved(<<"pkt_tx_v", j>>, <<"pkt_tx_v", j>>)
  BY <1>2, <1>4
<1>6. KeptBut({"RX", "pkt_tx_v"}) BY <1>2, <1>4
<1> QED BY <1>4, <1>5, <1>6 DEF s

(* libslirp's answer goes to slirp->pkt, and from there to RX_ON_TX when   *)
(* there is room.                                                          *)
LEMMA HostAnswerMoves ==
  ASSUME Inv, Typed, HostAnswer
  PROVE  /\ KeptBut({"RX_ON_TX", "pkt"})
         /\ \/ QueueKept("RX_ON_TX")
            \/ QueueGains("RX_ON_TX") /\ len'[<<"RX_ON_TX", head["RX_ON_TX"]>>] = 1
<1> DEFINE k == head["RX_ON_TX"]
           p == Partners(Run("RX_ON_TX", k, 1), Alone(pkt))
<1>1. /\ "RX_ON_TX" \in Queues /\ pkt \in Slots /\ pkt[1] = "pkt" /\ pkt[1] # "RX_ON_TX"
      /\ mem \in [Buffers -> Nat] /\ data \in [Slots -> Buffers]
      /\ len \in [Slots -> {0, 1}] /\ head \in [Queues -> Index]
  BY QueueNames, SlotNames DEF Inv, Typed, pkt
<1>2. k \in Index BY <1>1
<1>3. tail' = tail /\ mem' = [mem EXCEPT ![data[pkt]] = made + 1]
  BY DEF HostAnswer, Fill
<1>4. \A r \in Slots : r # pkt => mem'[data[r]] = mem[data[r]]
  <2>1. \A r \in Slots : r # pkt => data[r] # data[pkt] BY <1>1 DEF Inv, BuffersDistinct
  <2> QED BY <1>1, <1>3, <2>1
<1>5. \A j \in Index : <<"RX_ON_TX", j>> \in Slots /\ <<"RX_ON_TX", j>> # pkt
  BY <1>1, SlotNames
<1>6. CASE network_queue_full("RX_ON_TX")
  <2>1. data' = data /\ head' = head /\ len' = [len EXCEPT ![pkt] = 1]
    BY <1>6 DEF HostAnswer
  <2>2. \A r \in Slots : r # pkt => Moved(r, r) BY <1>1, <1>4, <2>1 DEF Moved, Packets
  <2>3. KeptBut({"RX_ON_TX", "pkt"}) BY <1>1, <1>3, <2>1, <2>2 DEF KeptBut
  <2>4. QueueKept("RX_ON_TX") BY <1>3, <1>5, <2>1, <2>2 DEF QueueKept
  <2> QED BY <2>3, <2>4
<1>7. CASE ~ network_queue_full("RX_ON_TX")
  <2>1. /\ data' = [s \in Slots |-> data[p[s]]]
        /\ len' = [s \in Slots |-> IF p[s] = pkt THEN 1 ELSE len[p[s]]]
        /\ head' = [head EXCEPT !["RX_ON_TX"] = Wrap(head["RX_ON_TX"] + 1)]
    BY <1>7 DEF HostAnswer, Put
  <2>2. /\ p[<<"RX_ON_TX", k>>] = pkt
        /\ \A r \in Slots : r # <<"RX_ON_TX", k>> /\ r # pkt => p[r] = r
    BY <1>1, <1>2, AloneSwap
  <2> HIDE DEF p
  <2>3. \A r \in Slots : r # <<"RX_ON_TX", k>> /\ r # pkt => Moved(r, r)
    BY <1>4, <2>1, <2>2 DEF Moved, Packets
  <2>4. len'[<<"RX_ON_TX", k>>] = 1 BY <1>2, <1>5, <2>1, <2>2
  <2>5. /\ head'["RX_ON_TX"] = Wrap(head["RX_ON_TX"] + 1)
        /\ \A q \in Queues : q # "RX_ON_TX" => head'[q] = head[q]
    BY <1>1, <2>1
  <2>6. \A j \in Index : j # k => Moved(<<"RX_ON_TX", j>>, <<"RX_ON_TX", j>>)
    BY <1>5, <2>3
  <2>7. QueueGains("RX_ON_TX") BY <1>3, <1>7, <2>5, <2>6 DEF QueueGains
  <2>8. KeptBut({"RX_ON_TX", "pkt"})
    <3>1. ASSUME NEW r \in Slots, r[1] \notin {"RX_ON_TX", "pkt"} PROVE Moved(r, r)
      <4>1. r # <<"RX_ON_TX", k>> /\ r # pkt BY <1>1, <3>1
      <4> QED BY <2>3, <4>1
    <3> QED BY <1>3, <2>5, <3>1 DEF KeptBut
  <2> QED BY <2>4, <2>7, <2>8
<1> QED BY <1>6, <1>7

(* All the packets of a queue go to the vector. *)
LEMMA PopVMoves ==
  ASSUME Inv, mem' = mem, head' = head, NEW q \in Queues, PopV(q)
  PROVE  /\ KeptBut({q, "pkt_tx_v"})
         /\ \A i \in 0 .. Count(q) - 1 : Moved(<<"pkt_tx_v", i>>, <<q, Wrap(tail[q] + i)>>)
         /\ got' = Count(q) /\ at' = 0 /\ tail'[q] = head[q] /\ head'[q] = head[q]
<1>1. head[q] \in Index /\ tail[q] \in Index /\ Count(q) \in Index BY IndicesTyped
<1>2. Count(q) \in 0 .. QueueLen BY <1>1, Lengths DEF Index
<1>3. /\ Swapped(Partners(Run(q, tail[q], Count(q)), Batch(Count(q))))
      /\ tail' = [tail EXCEPT ![q] = Wrap(tail[q] + Count(q))]
      /\ got' = Count(q) /\ at' = 0
  BY DEF PopV, Get
<1>4. /\ \A i \in 0 .. Count(q) - 1 : Moved(<<"pkt_tx_v", i>>, <<q, Wrap(tail[q] + i)>>)
      /\ \A r \in Slots : r[1] # q /\ r[1] # "pkt_tx_v" => Moved(r, r)
  BY <1>1, <1>2, <1>3, BatchMoves
<1>5. Wrap(tail[q] + Count(q)) = head[q] BY <1>1, CountIs, CountOfRange
<1>6. tail'[q] = head[q] /\ \A x \in Queues : x # q => tail'[x] = tail[x]
  BY <1>3, <1>5 DEF Inv
<1>7. KeptBut({q, "pkt_tx_v"}) BY <1>4, <1>6 DEF KeptBut
<1> QED BY <1>3, <1>4, <1>6, <1>7

LEMMA TypedStep == ASSUME Inv, Typed, [Next]_vars PROVE Typed'
<1> USE DEF vars, slots, cpuVars, hostVars, history
<1>1. ASSUME UNCHANGED <<mem, made, accepted, sent, received, delivered>> PROVE Typed'
  BY <1>1 DEF Typed
<1>2. ASSUME NEW s \in Slots PROVE mem[data[s]] \in Nat
  BY DEF Typed, Inv
<1>3. ASSUME NEW s \in Slots, NEW x \in Nat, Fill(s, x) PROVE mem' \in [Buffers -> Nat]
  BY <1>3 DEF Typed, Fill
<1>4. Len(accepted) + 1 \in Nat BY LenProperties DEF Typed
<1>5. /\ \A q \in Queues, j \in Index : <<q, j>> \in Slots
      /\ \A j \in Index : <<"pkt_tx_v", j>> \in Slots
      /\ queued_pkt \in Slots /\ pkt \in Slots
  BY SlotNames
<1>6. CASE network_tx
  <2>1. <<"TX_VM", head["TX_VM"]>> \in Slots BY <1>5, QueueNames DEF Inv
  <2>2. Fill(<<"TX_VM", head["TX_VM"]>>, Len(accepted) + 1) BY <1>6 DEF network_tx
  <2>3. mem' \in [Buffers -> Nat] BY <1>3, <1>4, <2>1, <2>2
  <2>4. accepted' = Append(accepted, Len(accepted) + 1)
        /\ UNCHANGED <<made, sent, received, delivered>>
    BY <1>6 DEF network_tx
  <2>5. accepted' \in Seq(Nat) BY <1>4, <2>4, AppendProperties DEF Typed
  <2> QED BY <2>3, <2>4, <2>5 DEF Typed
<1>7. CASE CardTakes
  <2>1. /\ delivered' = Append(delivered, mem[data[queued_pkt]])
        /\ UNCHANGED <<mem, made, accepted, sent, received>>
    BY <1>7 DEF CardTakes
  <2>2. delivered' \in Seq(Nat) BY <1>2, <1>5, <2>1, AppendProperties DEF Typed
  <2> QED BY <2>1, <2>2 DEF Typed
<1>8. CASE HostSend
  <2>0. at \in Index BY <1>8, Lengths DEF HostSend, Inv, Index
  <2>1. /\ sent' = Append(sent, mem[data[<<"pkt_tx_v", at>>]])
        /\ UNCHANGED <<mem, made, accepted, received, delivered>>
    BY <1>8 DEF HostSend
  <2>2. mem[data[<<"pkt_tx_v", at>>]] \in Nat BY <1>2, <1>5, <2>0
  <2>3. sent' \in Seq(Nat) BY <2>1, <2>2, AppendProperties DEF Typed
  <2> QED BY <2>1, <2>3 DEF Typed
<1>9. CASE HostReceive \/ HostAnswer
  <2>1. Fill(pkt, made + 1) /\ made' = made + 1 /\ UNCHANGED history
    BY <1>9 DEF HostReceive, HostAnswer
  <2>2. made + 1 \in Nat BY DEF Typed
  <2>3. mem' \in [Buffers -> Nat] BY <1>3, <1>5, <2>1, <2>2
  <2> QED BY <2>1, <2>2, <2>3 DEF Typed
<1>10. ASSUME NEW s \in Slots, network_rx_put_pkt(s) PROVE received' \in Seq(Nat)
  <2>1. received' = received \/ received' = Append(received, mem[data[s]])
    BY <1>10 DEF network_rx_put_pkt
  <2>2. mem[data[s]] \in Nat /\ received \in Seq(Nat) BY <1>2 DEF Typed
  <2> QED BY <2>1, <2>2, AppendProperties
<1>11. CASE HostPut
  <2>1. network_rx_put_pkt(pkt) /\ UNCHANGED <<mem, made, accepted, sent, delivered>>
    BY <1>11 DEF HostPut
  <2>2. received' \in Seq(Nat) BY <1>5, <1>10, <2>1
  <2> QED BY <2>1, <2>2 DEF Typed
<1>12. CASE HostForward
  <2>0. at \in Index BY <1>12, Lengths DEF HostForward, Inv, Index
  <2>1. /\ network_rx_put_pkt(<<"pkt_tx_v", at>>)
        /\ UNCHANGED <<mem, made, accepted, sent, delivered>>
    BY <1>12 DEF HostForward
  <2>2. <<"pkt_tx_v", at>> \in Slots BY <1>5, <2>0
  <2>3. received' \in Seq(Nat) BY <1>10, <2>1, <2>2
  <2> QED BY <2>1, <2>3 DEF Typed
<1>13. CASE \/ network_connect \/ netcard_close \/ NetcardClosed \/ Gone
            \/ network_rx_queue \/ ReceiveHeld \/ ReceiveNext \/ CardRefuses \/ Transmit
            \/ net_slirp_in_available
  BY <1>1, <1>13 DEF network_connect, netcard_close, NetcardClosed, Gone, network_rx_queue,
              ReceiveHeld, ReceiveNext, CardRefuses, Transmit, net_slirp_in_available
<1>14. CASE \/ HostPoll \/ HostIdle \/ HostStop \/ HostWake \/ HostPop \/ HostSent
            \/ HostDeferred \/ HostForwarded
  BY <1>1, <1>14 DEF HostPoll, HostIdle, HostStop, HostWake, HostPop, HostSent, HostDeferred,
              HostForwarded
<1>15. CASE UNCHANGED vars BY <1>1, <1>15
<1> QED BY <1>6, <1>7, <1>8, <1>9, <1>11, <1>12, <1>13, <1>14, <1>15 DEF Next, Poll, Host

LEMMA TypedNext ==
  ASSUME Inv, Typed, [Next]_vars
  PROVE  Inv' /\ Typed' /\ Packets' \in [Slots -> Nat]
<1>1. Inv' /\ Typed' BY InvStep, TypedStep
<1> QED BY <1>1 DEF Inv, Typed, Packets

(* network_queue_move(): what it takes from TX_VM comes after what is on   *)
(* TX_HOST, and before what it leaves.                                     *)
LEMMA TransmitMoves ==
  ASSUME Inv, Typed, Transmit, Packets' \in [Slots -> Nat]
  PROVE  /\ KeptBut({"TX_VM", "TX_HOST"})
         /\ Waits("TX_HOST")' \o Waits("TX_VM")' = Waits("TX_HOST") \o Waits("TX_VM")
<1> DEFINE n == Min({Count("TX_VM"), QueueLen - 1 - Count("TX_HOST")})
           t == tail["TX_VM"]
           m == Count("TX_VM")
           k == tail["TX_HOST"]
           c == Count("TX_HOST")
<1>1. "TX_VM" \in Queues /\ "TX_HOST" \in Queues /\ "TX_VM" # "TX_HOST" BY QueueNames
<1>2. /\ head["TX_VM"] \in Index /\ t \in Index /\ m \in Index /\ m \in Nat
      /\ head["TX_HOST"] \in Index /\ k \in Index /\ c \in Index /\ c \in Nat
      /\ c <= QueueLen - 1
  BY <1>1, IndicesTyped
<1>3. QueueLen - 1 - c \in Nat /\ QueueLen - 1 \in Nat BY <1>2, Lengths
<1>4. n \in Nat /\ n <= m /\ n <= QueueLen - 1 - c BY <1>2, <1>3, MinOfTwo
<1>5. /\ Swapped(Partners(Run("TX_VM", t, n), Run("TX_HOST", head["TX_HOST"], n)))
      /\ Get("TX_VM", n) /\ Put("TX_HOST", n) /\ mem' = mem
  BY DEF Transmit
<1> HIDE DEF n, m, c
<1>6. c + n <= QueueLen - 1 BY ONLY <1>2, <1>3, <1>4
<1>7. n \in 0 .. QueueLen BY ONLY <1>2, <1>3, <1>4, <1>6, Lengths
<1>8. Wrap(k + c) = head["TX_HOST"]
  BY <1>2, CountIs, CountOfRange DEF c
<1>9. /\ head'["TX_VM"] = head["TX_VM"] /\ tail'["TX_VM"] = Wrap(t + n)
      /\ head'["TX_HOST"] = Wrap(head["TX_HOST"] + n) /\ tail'["TX_HOST"] = k
      /\ \A q \in Queues : q \notin {"TX_VM", "TX_HOST"} =>
             head'[q] = head[q] /\ tail'[q] = tail[q]
  BY <1>1, <1>5 DEF Get, Put, Inv
<1>10. /\ \A i \in 0 .. n - 1 :
              Moved(<<"TX_HOST", Wrap(head["TX_HOST"] + i)>>, <<"TX_VM", Wrap(t + i)>>)
       /\ \A j \in Index : (\A i \in 0 .. n - 1 : j # Wrap(t + i)) =>
              Moved(<<"TX_VM", j>>, <<"TX_VM", j>>)
       /\ \A j \in Index : (\A i \in 0 .. n - 1 : j # Wrap(head["TX_HOST"] + i)) =>
              Moved(<<"TX_HOST", j>>, <<"TX_HOST", j>>)
       /\ \A s \in Slots : s[1] # "TX_VM" /\ s[1] # "TX_HOST" => Moved(s, s)
  BY <1>1, <1>2, <1>5, <1>7, RunsMoves
<1>11. KeptBut({"TX_VM", "TX_HOST"}) BY <1>9, <1>10 DEF KeptBut
<1>12. Count("TX_VM")' = m - n
  BY <1>1, <1>4, <1>9, GetEffect DEF m
<1>13. Count("TX_HOST")' = c + n
  <2>1. Count("TX_HOST")' = CountOf(Wrap(head["TX_HOST"] + n), k) BY <1>9 DEF Count, CountOf
  <2>2. c = CountOf(head["TX_HOST"], k) BY CountIs DEF c
  <2> QED BY <1>2, <1>4, <1>6, <2>1, <2>2, CountOfPut
<1>14. Packets \in [Slots -> Nat] BY PacketsTyped
<1>15. RunGot(Packets', Packets, "TX_HOST", Wrap(k + c), "TX_VM", t, n)
  BY <1>8, <1>10 DEF Moved, RunGot
<1>16. RunKept(Packets', Packets, "TX_VM", t, n)
  BY <1>10 DEF Moved, RunKept
<1>17. RunKept(Packets', Packets, "TX_HOST", Wrap(k + c), n)
  BY <1>8, <1>10 DEF Moved, RunKept
<1>18. Joined(Packets', "TX_HOST", k, c + n, "TX_VM", Wrap(t + n), m - n)
         = Joined(Packets, "TX_HOST", k, c, "TX_VM", t, m)
  <2> DEFINE v == Packets
             w == Packets'
             q == "TX_VM"
             r == "TX_HOST"
  <2>1. v \in [Slots -> Nat] /\ w \in [Slots -> Nat] BY <1>14
  <2>2. RunGot(w, v, r, Wrap(k + c), q, t, n) BY <1>15
  <2>3. RunKept(w, v, q, t, n) BY <1>16
  <2>4. RunKept(w, v, r, Wrap(k + c), n) BY <1>17
  <2>5. q \in Queues /\ r \in Queues BY <1>1
  <2>6. t \in Index /\ m \in Index /\ k \in Index /\ c \in Index BY <1>2
  <2>7. n \in Nat /\ n <= m /\ c + n <= QueueLen - 1 BY <1>4, <1>6
  <2> HIDE DEF v, w, q, r, t, k
  <2>8. Joined(w, r, k, c + n, q, Wrap(t + n), m - n) = Joined(v, r, k, c, q, t, m)
    BY ONLY <2>1, <2>2, <2>3, <2>4, <2>5, <2>6, <2>7, StoredMoved
  <2> QED BY <2>8 DEF v, w, q, r
<1>19. /\ Waits("TX_HOST")' = Stored(Packets', "TX_HOST", k, c + n)
       /\ Waits("TX_VM")' = Stored(Packets', "TX_VM", Wrap(t + n), m - n)
       /\ Waits("TX_HOST") = Stored(Packets, "TX_HOST", k, c)
       /\ Waits("TX_VM") = Stored(Packets, "TX_VM", t, m)
  BY <1>9, <1>12, <1>13 DEF Waits, m, c
<1> QED BY <1>11, <1>18, <1>19 DEF Joined

-----------------------------------------------------------------------------
(* Packets on their way out. *)

LEMMA WaitsKept ==
  ASSUME Inv, NEW q \in Queues, QueueKept(q)
  PROVE  Waits(q)' = Waits(q) /\ Count(q)' = Count(q)
<1>1. head'[q] = head[q] /\ tail'[q] = tail[q] BY DEF QueueKept
<1>2. \A j \in Index : Packets'[<<q, j>>] = Packets[<<q, j>>] BY DEF QueueKept, Moved
<1> QED BY <1>1, <1>2, WaitsSame

LEMMA WaitsGains ==
  ASSUME Inv, Typed, Packets' \in [Slots -> Nat], NEW q \in Queues, QueueGains(q)
  PROVE  Waits(q)' = Append(Waits(q), Packets'[<<q, head[q]>>]) /\ Waits(q) \in Seq(Nat)
         /\ Packets'[<<q, head[q]>>] \in Nat
<1>1. \A j \in Index : j # head[q] => Packets'[<<q, j>>] = Packets[<<q, j>>]
  BY DEF QueueGains, Moved
<1>2. /\ ~ network_queue_full(q) /\ head'[q] = Wrap(head[q] + 1) /\ tail'[q] = tail[q]
  BY DEF QueueGains
<1>3. Packets'[<<q, head[q]>>] \in Nat BY IndicesTyped, SlotNames
<1> QED BY <1>1, <1>2, <1>3, WaitsPut, PiecesTyped

(* Steps that touch no slot. *)
LEMMA SlotsKept ==
  ASSUME UNCHANGED <<data, len, mem, head, tail>>
  PROVE  KeptBut({}) /\ \A s : Moved(s, s)
<1>1. Packets' = Packets BY PacketsKept
<1> QED BY <1>1 DEF KeptBut, Moved

(* ... or only slots that such packets are not in. *)
LEMMA OutKept ==
  ASSUME Inv, OutInOrder, UNCHANGED <<accepted, sent>>, NEW N, KeptBut(N),
         "TX_HOST" \notin N, "TX_VM" \notin N,
         \/ host # "send" /\ host' # "send"
         \/ "pkt_tx_v" \notin N /\ UNCHANGED <<host, got, at>>
  PROVE  OutInOrder'
<1>1. "TX_HOST" \in Queues /\ "TX_VM" \in Queues BY QueueNames
<1>2. QueueKept("TX_HOST") /\ QueueKept("TX_VM") BY <1>1, QueueKeptBut
<1>3. Waits("TX_HOST")' = Waits("TX_HOST") /\ Waits("TX_VM")' = Waits("TX_VM")
  BY <1>1, <1>2, WaitsKept
<1>4. Batched' = Batched
  <2>1. CASE host # "send" /\ host' # "send" BY <2>1 DEF Batched
  <2>2. CASE "pkt_tx_v" \notin N /\ UNCHANGED <<host, got, at>>
    <3>1. BatchKept BY <2>2, BatchKeptBut
    <3>2. \A j \in Index : j >= at => Packets'[<<"pkt_tx_v", j>>] = Packets[<<"pkt_tx_v", j>>]
      BY <3>1 DEF BatchKept, Moved
    <3>3. at \in Nat /\ got - at \in Nat /\ at + (got - at) <= QueueLen
      BY Lengths DEF Inv, Index
    <3>4. Loaded(Packets', at, got - at) = Loaded(Packets, at, got - at)
      BY <3>2, <3>3, LoadedSame
    <3> QED BY <2>2, <3>4 DEF Batched
  <2> QED BY <2>1, <2>2
<1> QED BY <1>3, <1>4 DEF OutInOrder

LEMMA OutStep ==
  ASSUME Inv, Typed, OutInOrder, [Next]_vars
  PROVE  OutInOrder'
<1> USE DEF vars, slots, cpuVars, hostVars, history
<1> DEFINE H == Waits("TX_HOST")
           V == Waits("TX_VM")
<1>0. /\ H \in Seq(Nat) /\ V \in Seq(Nat) /\ Batched \in Seq(Nat) /\ sent \in Seq(Nat)
      /\ sent \o Batched \in Seq(Nat) /\ (sent \o Batched) \o H \in Seq(Nat)
  <2>1. H \in Seq(Nat) /\ V \in Seq(Nat) /\ Batched \in Seq(Nat) /\ sent \in Seq(Nat)
    BY PiecesTyped, QueueNames DEF Typed
  <2>2. sent \o Batched \in Seq(Nat) BY <2>1, ConcatProperties
  <2> QED BY <2>1, <2>2, ConcatProperties
<1>1. Packets' \in [Slots -> Nat] /\ Packets \in [Slots -> Nat] BY TypedNext, PacketsTyped
<1>2. accepted = ((sent \o Batched) \o H) \o V BY DEF OutInOrder
<1>3. "TX_HOST" \in Queues /\ "TX_VM" \in Queues BY QueueNames
<1> HIDE DEF H, V
<1>4. CASE network_tx
  <2>1. /\ KeptBut({"TX_VM"}) /\ QueueGains("TX_VM")
        /\ Packets'[<<"TX_VM", head["TX_VM"]>>] = Len(accepted) + 1
    BY <1>4, network_txMoves
  <2>2. /\ accepted' = Append(accepted, Len(accepted) + 1) /\ UNCHANGED <<sent, host, got, at>>
    BY <1>4 DEF network_tx
  <2> DEFINE e == Len(accepted) + 1
  <2>3. e \in Nat BY LenProperties DEF Typed
  <2> HIDE DEF e
  <2>4. Waits("TX_VM")' = Append(V, e) BY <1>1, <1>3, <2>1, WaitsGains DEF V, e
  <2>5. QueueKept("TX_HOST") /\ BatchKept BY <1>3, <2>1, QueueKeptBut, BatchKeptBut
  <2>6. Waits("TX_HOST")' = H BY <1>3, <2>5, WaitsKept DEF H
  <2>7. Batched' = Batched
    <3>1. \A j \in Index : j >= at => Packets'[<<"pkt_tx_v", j>>] = Packets[<<"pkt_tx_v", j>>]
      BY <2>5 DEF BatchKept, Moved
    <3>2. at \in Nat /\ got - at \in Nat /\ at + (got - at) <= QueueLen
      BY Lengths DEF Inv, Index
    <3>3. Loaded(Packets', at, got - at) = Loaded(Packets, at, got - at)
      BY <3>1, <3>2, LoadedSame
    <3> QED BY <2>2, <3>3 DEF Batched
  <2> DEFINE x == (sent \o Batched) \o H
  <2>8. x \in Seq(Nat) /\ accepted = x \o V BY <1>0, <1>2
  <2> HIDE DEF x
  <2>9. x \o Append(V, e) = Append(x \o V, e) BY <1>0, <2>3, <2>8, ConcatAppend
  <2>10. accepted' = x \o Append(V, e) BY <2>2, <2>8, <2>9 DEF e
  <2> QED BY <2>2, <2>4, <2>6, <2>7, <2>10 DEF OutInOrder, x
<1>5. CASE Transmit
  <2>1. /\ KeptBut({"TX_VM", "TX_HOST"})
        /\ Waits("TX_HOST")' \o Waits("TX_VM")' = H \o V
    BY <1>1, <1>5, TransmitMoves DEF H, V
  <2>2. UNCHANGED <<accepted, sent, host, got, at>> BY <1>5 DEF Transmit
  <2>3. Batched' = Batched
    <3>0. BatchKept BY <2>1, BatchKeptBut
    <3>1. \A j \in Index : j >= at => Packets'[<<"pkt_tx_v", j>>] = Packets[<<"pkt_tx_v", j>>]
      BY <3>0 DEF BatchKept, Moved
    <3>2. at \in Nat /\ got - at \in Nat /\ at + (got - at) <= QueueLen
      BY Lengths DEF Inv, Index
    <3>3. Loaded(Packets', at, got - at) = Loaded(Packets, at, got - at)
      BY <3>1, <3>2, LoadedSame
    <3> QED BY <2>2, <3>3 DEF Batched
  <2> DEFINE x == sent \o Batched
             k == Waits("TX_HOST")'
             l == Waits("TX_VM")'
  <2>4. k \in Seq(Nat) /\ l \in Seq(Nat)
    <3>1. Inv' /\ Typed' BY TypedNext
    <3>2. \A q \in Queues : tail'[q] \in Index /\ Count(q)' \in Index
      <4>1. \A q \in Queues : head'[q] \in Index /\ tail'[q] \in Index BY <3>1 DEF Inv
      <4>2. \A q : Count(q)' = CountOf(head'[q], tail'[q]) BY DEF Count, CountOf
      <4> QED BY <4>1, <4>2, CountOfRange
    <3>3. \A q \in Queues : Stored(Packets', q, tail'[q], Count(q)') \in Seq(Nat)
      BY <1>1, <3>2, StoredSeq
    <3> QED BY <1>3, <3>3 DEF Waits
  <2>5. x \in Seq(Nat) BY <1>0
  <2> HIDE DEF x, k, l
  <2>6. (x \o k) \o l = (x \o H) \o V
    <3>1. k \o l = H \o V BY <2>1 DEF k, l
    <3>2. (x \o k) \o l = x \o (k \o l) BY ONLY <2>4, <2>5, ConcatNat, Zenon
    <3>3. H \in Seq(Nat) /\ V \in Seq(Nat) BY <1>0
    <3>4. (x \o H) \o V = x \o (H \o V) BY ONLY <2>5, <3>3, ConcatNat, Zenon
    <3> QED BY ONLY <3>1, <3>2, <3>4, Zenon
  <2> QED BY <1>2, <2>2, <2>3, <2>6 DEF OutInOrder, x, k, l
<1>6. CASE HostPop
  <2>1. /\ PopV("TX_HOST") /\ mem' = mem /\ head' = head /\ host = "pop" /\ host' = "send"
        /\ UNCHANGED <<accepted, sent>>
    BY <1>6 DEF HostPop
  <2>2. /\ KeptBut({"TX_HOST", "pkt_tx_v"})
        /\ \A i \in 0 .. Count("TX_HOST") - 1 :
               Moved(<<"pkt_tx_v", i>>, <<"TX_HOST", Wrap(tail["TX_HOST"] + i)>>)
        /\ got' = Count("TX_HOST") /\ at' = 0 /\ tail'["TX_HOST"] = head["TX_HOST"]
        /\ head'["TX_HOST"] = head["TX_HOST"]
    BY <1>3, <2>1, PopVMoves
  <2>3. tail["TX_HOST"] \in Index /\ head["TX_HOST"] \in Index /\ Count("TX_HOST") \in Index
        /\ Count("TX_HOST") \in Nat
    BY <1>3, IndicesTyped
  <2>4. Batched' = H
    <3>1. BatchGot(Packets', Packets, "TX_HOST", tail["TX_HOST"], Count("TX_HOST"))
      BY <2>2 DEF Moved, BatchGot
    <3>2. Loaded(Packets', 0, Count("TX_HOST")) = H
      BY <1>3, <2>3, <3>1, LoadedPopped DEF H, Waits
    <3>3. got' - at' = Count("TX_HOST") BY <2>2, <2>3
    <3> QED BY <2>1, <2>2, <3>2, <3>3 DEF Batched
  <2>5. Waits("TX_HOST")' = <<>>
    <3>1. Count("TX_HOST")' = CountOf(head["TX_HOST"], head["TX_HOST"])
      BY <2>2 DEF Count, CountOf
    <3>2. Count("TX_HOST")' = 0 BY <2>3, <3>1, CountOfRange
    <3> QED BY <3>2, StoredNone DEF Waits
  <2>6. Waits("TX_VM")' = V
    <3>1. QueueKept("TX_VM") BY <1>3, <2>2, QueueKeptBut
    <3> QED BY <1>3, <3>1, WaitsKept DEF V
  <2>7. Batched = <<>> BY <2>1 DEF Batched
  <2>8. sent \o Batched = sent BY <1>0, <2>7, ConcatEmptySeq
  <2>9. (sent \o H) \o <<>> = sent \o H
    <3>1. sent \o H \in Seq(Nat) BY <1>0, ConcatProperties
    <3> QED BY <3>1, ConcatEmptySeq
  <2> QED BY <1>2, <2>1, <2>4, <2>5, <2>6, <2>8, <2>9 DEF OutInOrder
<1>7. CASE HostSend
  <2>1. /\ host = "send" /\ host' = "send" /\ at < got /\ at' = at + 1 /\ got' = got
        /\ sent' = Append(sent, Packets[<<"pkt_tx_v", at>>]) /\ accepted' = accepted
        /\ UNCHANGED <<data, len, mem, head, tail>>
    <3>1. at \in Index BY <1>7, Lengths DEF HostSend, Inv, Index
    <3> QED BY <1>7, <3>1, SlotNames DEF HostSend, Packets
  <2>2. KeptBut({}) /\ Packets' = Packets BY <2>1, SlotsKept, PacketsKept
  <2>3. Waits("TX_HOST")' = H /\ Waits("TX_VM")' = V
    <3>1. QueueKept("TX_HOST") /\ QueueKept("TX_VM") BY <1>3, <2>2, QueueKeptBut
    <3> QED BY <1>3, <3>1, WaitsKept DEF H, V
  <2> DEFINE e == Packets[<<"pkt_tx_v", at>>]
             b == Loaded(Packets, at + 1, got - at - 1)
  <2>4. /\ at \in Nat /\ got - at \in Nat /\ got - at # 0 /\ at + (got - at) <= QueueLen
        /\ at \in Index /\ got - (at + 1) = got - at - 1
        /\ at + 1 \in Nat /\ got - at - 1 \in Nat /\ (at + 1) + (got - at - 1) <= QueueLen
    BY <2>1, Lengths DEF Inv, Index
  <2>5. Batched = <<e>> \o b
    BY <1>1, <2>1, <2>4, LoadedGet DEF Batched
  <2>6. Batched' = b BY <2>1, <2>2, <2>4 DEF Batched
  <2>7. e \in Nat /\ b \in Seq(Nat)
    <3>1. e \in Nat BY <1>1, <2>4, SlotNames
    <3>2. b \in Seq(Nat) BY <1>1, <2>4, LoadedSeq
    <3> QED BY <3>1, <3>2
  <2> HIDE DEF e, b
  <2>8. sent \o Batched = Append(sent, e) \o b BY <1>0, <2>5, <2>7, JoinFirst
  <2>9. sent' = Append(sent, e) BY <2>1 DEF e
  <2> QED BY <1>2, <2>1, <2>3, <2>6, <2>8, <2>9 DEF OutInOrder
<1>8. CASE HostSent
  <2>1. /\ host = "send" /\ host' # "send" /\ at = got
        /\ UNCHANGED <<data, len, mem, head, tail, accepted, sent>>
    BY <1>8 DEF HostSent
  <2>2. KeptBut({}) BY <2>1, SlotsKept
  <2>3. Waits("TX_HOST")' = H /\ Waits("TX_VM")' = V
    <3>1. QueueKept("TX_HOST") /\ QueueKept("TX_VM") BY <1>3, <2>2, QueueKeptBut
    <3> QED BY <1>3, <3>1, WaitsKept DEF H, V
  <2>4. got - at = 0 BY <2>1, Lengths DEF Inv, Index
  <2>5. Batched = <<>> /\ Batched' = <<>> BY <2>1, <2>4, LoadedNone DEF Batched
  <2> QED BY <1>2, <2>1, <2>3, <2>5 DEF OutInOrder
<1>9. CASE \/ network_connect \/ netcard_close \/ NetcardClosed \/ Gone
           \/ network_rx_queue \/ ReceiveHeld \/ CardRefuses \/ net_slirp_in_available
           \/ (ReceiveNext /\ network_queue_empty("RX")) \/ UNCHANGED vars
  <2>1. UNCHANGED <<data, len, mem, head, tail, host, got, at, accepted, sent>>
    BY <1>9 DEF network_connect, netcard_close, NetcardClosed, Gone, network_rx_queue,
                ReceiveHeld, CardRefuses, net_slirp_in_available, ReceiveNext
  <2>2. KeptBut({}) BY <2>1, SlotsKept
  <2> QED BY <2>1, <2>2, OutKept
<1>10. CASE HostPoll \/ HostIdle \/ HostStop \/ HostWake \/ HostForwarded
  <2>1. /\ UNCHANGED <<data, len, mem, head, tail, accepted, sent>>
        /\ host # "send" /\ host' # "send"
    BY <1>10 DEF HostPoll, HostIdle, HostStop, HostWake, HostForwarded
  <2>2. KeptBut({}) BY <2>1, SlotsKept
  <2> QED BY <2>1, <2>2, OutKept
<1>11. CASE ReceiveNext /\ ~ network_queue_empty("RX")
  <2>1. KeptBut({"RX", "queued_pkt"}) BY <1>11, ReceiveNextMoves
  <2>2. UNCHANGED <<accepted, sent, host, got, at>> BY <1>11 DEF ReceiveNext
  <2> QED BY <2>1, <2>2, OutKept
<1>12. CASE CardTakes
  <2>1. KeptBut({"queued_pkt"}) BY <1>12, CardTakesMoves
  <2>2. UNCHANGED <<accepted, sent, host, got, at>> BY <1>12 DEF CardTakes
  <2> QED BY <2>1, <2>2, OutKept
<1>13. CASE HostAnswer
  <2>1. KeptBut({"RX_ON_TX", "pkt"}) BY <1>13, HostAnswerMoves
  <2>2. UNCHANGED <<accepted, sent, host, got, at>> BY <1>13 DEF HostAnswer
  <2> QED BY <2>1, <2>2, OutKept
<1>14. CASE HostReceive
  <2>1. KeptBut({"pkt"}) BY <1>14, HostReceiveMoves
  <2>2. UNCHANGED <<accepted, sent>> /\ host # "send" /\ host' # "send"
    BY <1>14 DEF HostReceive
  <2> QED BY <2>1, <2>2, OutKept
<1>15. CASE HostPut
  <2>1. KeptBut({"RX", "pkt"}) BY <1>15, HostPutMoves
  <2>2. UNCHANGED <<accepted, sent>> /\ host # "send" /\ host' # "send"
    BY <1>15 DEF HostPut
  <2> QED BY <2>1, <2>2, OutKept
<1>16. CASE HostForward
  <2>1. KeptBut({"RX", "pkt_tx_v"}) BY <1>16, HostForwardMoves
  <2>2. UNCHANGED <<accepted, sent>> /\ host # "send" /\ host' # "send"
    BY <1>16 DEF HostForward
  <2> QED BY <2>1, <2>2, OutKept
<1>17. CASE HostDeferred
  <2>1. mem' = mem /\ head' = head /\ PopV("RX_ON_TX") BY <1>17 DEF HostDeferred
  <2>2. KeptBut({"RX_ON_TX", "pkt_tx_v"}) BY <2>1, QueueNames, PopVMoves
  <2>3. UNCHANGED <<accepted, sent>> /\ host # "send" /\ host' # "send"
    BY <1>17 DEF HostDeferred
  <2> QED BY <2>2, <2>3, OutKept
<1> QED BY <1>4, <1>5, <1>6, <1>7, <1>8, <1>9, <1>10, <1>11, <1>12, <1>13, <1>14, <1>15,
           <1>16, <1>17 DEF Next, Poll, Host

-----------------------------------------------------------------------------
(* Packets on their way in. *)

LEMMA OfferedKept ==
  ASSUME Moved(queued_pkt, queued_pkt)
  PROVE  Offered' = Offered
BY DEF Moved, Offered

LEMMA RxKept ==
  ASSUME Inv, RxInOrder, UNCHANGED <<received, delivered>>,
         QueueKept("RX"), Moved(queued_pkt, queued_pkt)
  PROVE  RxInOrder'
<1>1. Waits("RX")' = Waits("RX") BY QueueNames, WaitsKept
<1> QED BY <1>1, OfferedKept DEF RxInOrder

LEMMA RxKeptBut ==
  ASSUME Inv, RxInOrder, UNCHANGED <<received, delivered>>, NEW N, KeptBut(N),
         "RX" \notin N, "queued_pkt" \notin N
  PROVE  RxInOrder'
BY QueueNames, QueueKeptBut, AlonesKept, RxKept

(* network_rx_put_pkt() of a packet. *)
LEMMA RxGains ==
  ASSUME Inv, Typed, RxInOrder, Packets' \in [Slots -> Nat], delivered' = delivered,
         Moved(queued_pkt, queued_pkt), QueueGains("RX"), NEW s,
         Moved(<<"RX", head["RX"]>>, s), received' = Append(received, Packets[s])
  PROVE  RxInOrder'
<1> DEFINE e == Packets'[<<"RX", head["RX"]>>]
           W == Waits("RX")
           x == delivered \o Offered
<1>1. Waits("RX")' = Append(W, e) /\ W \in Seq(Nat) /\ e \in Nat
  BY QueueNames, WaitsGains
<1>2. x \in Seq(Nat)
  <2>1. delivered \in Seq(Nat) /\ Offered \in Seq(Nat) BY PiecesTyped DEF Typed
  <2> QED BY <2>1, ConcatProperties
<1>3. received' = Append(received, e) BY DEF Moved
<1>4. received = x \o W BY DEF RxInOrder
<1>5. Offered' = Offered BY OfferedKept
<1> HIDE DEF e, W, x
<1>6. x \o Append(W, e) = Append(x \o W, e) BY <1>1, <1>2, ConcatAppend
<1>7. received' = x \o Append(W, e) BY <1>3, <1>4, <1>6
<1> QED BY <1>1, <1>5, <1>7 DEF RxInOrder, x

LEMMA RxStep ==
  ASSUME Inv, Typed, Marked, RxInOrder, [Next]_vars
  PROVE  RxInOrder'
<1> USE DEF vars, slots, cpuVars, hostVars, history
<1> DEFINE W == Waits("RX")
<1>0. W \in Seq(Nat) /\ delivered \in Seq(Nat) /\ Offered \in Seq(Nat)
      /\ received = (delivered \o Offered) \o W
  BY PiecesTyped, QueueNames DEF Typed, RxInOrder
<1>1. Packets' \in [Slots -> Nat] /\ Packets \in [Slots -> Nat] BY TypedNext, PacketsTyped
<1>2. "RX" \in Queues /\ queued_pkt \in Slots BY QueueNames, SlotNames
<1>3. CASE ReceiveNext /\ ~ network_queue_empty("RX")
  <2> DEFINE e == Packets[<<"RX", tail["RX"]>>]
             b == Waits("RX")'
  <2>1. /\ QueueLoses("RX") /\ Moved(queued_pkt, <<"RX", tail["RX"]>>)
    BY <1>3, ReceiveNextMoves
  <2>2. UNCHANGED <<received, delivered>> /\ len[queued_pkt] = 0 BY <1>3 DEF ReceiveNext
  <2>3. /\ tail["RX"] \in Index /\ Count("RX") \in Nat /\ Count("RX") # 0
    BY <1>2, <1>3, IndicesTyped
  <2>4. len'[queued_pkt] = 1 /\ Packets'[queued_pkt] = e
    <3>1. 0 \in 0 .. Count("RX") - 1 /\ Wrap(tail["RX"] + 0) = tail["RX"]
      BY <2>3, Lengths DEF Wrap, Index
    <3>2. len[<<"RX", Wrap(tail["RX"] + 0)>>] = 1
      BY <3>1 DEF Marked, QueueMarked, AllMarked
    <3> QED BY <2>1, <3>1, <3>2 DEF Moved
  <2>5. W = <<e>> \o b
    <3>1. \A j \in Index : j # tail["RX"] => Packets'[<<"RX", j>>] = Packets[<<"RX", j>>]
      BY <2>1 DEF QueueLoses, Moved
    <3>2. head'["RX"] = head["RX"] /\ tail'["RX"] = Wrap(tail["RX"] + 1)
      BY <2>1 DEF QueueLoses
    <3> QED BY <1>2, <1>3, <3>1, <3>2, WaitsGet
  <2>6. e \in Nat BY <1>1, <1>2, <2>3, SlotNames
  <2>7. b \in Seq(Nat)
    <3>1. Inv' BY InvStep
    <3>2. head'["RX"] \in Index /\ tail'["RX"] \in Index BY <1>2, <3>1 DEF Inv
    <3>3. Count("RX")' = CountOf(head'["RX"], tail'["RX"]) BY DEF Count, CountOf
    <3>4. Count("RX")' \in Index BY <3>2, <3>3, CountOfRange
    <3>5. Stored(Packets', "RX", tail'["RX"], Count("RX")') \in Seq(Nat)
      BY <1>1, <1>2, <3>2, <3>4, StoredSeq
    <3> QED BY <3>5 DEF Waits
  <2>8. Offered = <<>> BY <2>2 DEF Offered
  <2>9. Offered' = <<e>>
    <3>1. len'[queued_pkt] # 0 BY <2>4
    <3> QED BY <2>4, <3>1 DEF Offered
  <2>10. delivered \o Offered = delivered BY <1>0, <2>8, ConcatEmptySeq
  <2> HIDE DEF e, b, W
  <2>11. delivered \o (<<e>> \o b) = (delivered \o <<e>>) \o b
    BY <1>0, <2>6, <2>7, JoinFirst
  <2>12. received' = (delivered' \o Offered') \o b
    BY <1>0, <2>2, <2>5, <2>9, <2>10, <2>11
  <2> QED BY <2>12 DEF RxInOrder, b
<1>4. CASE CardTakes
  <2> DEFINE e == Packets[queued_pkt]
  <2>1. KeptBut({"queued_pkt"}) /\ len'[queued_pkt] = 0 BY <1>4, CardTakesMoves
  <2>2. /\ received' = received /\ delivered' = Append(delivered, e) /\ cpu = "card"
    BY <1>2, <1>4 DEF CardTakes, Packets
  <2>3. Waits("RX")' = W
    <3>1. QueueKept("RX") BY <1>2, <2>1, QueueKeptBut
    <3> QED BY <1>2, <3>1, WaitsKept
  <2>4. Offered = <<e>> BY <2>2 DEF Offered, Marked, HeldMarked
  <2>5. Offered' = <<>> BY <2>1 DEF Offered
  <2>6. e \in Nat BY <1>1, <1>2
  <2> HIDE DEF e, W
  <2>7. Append(delivered, e) = delivered \o <<e>> /\ Append(delivered, e) \in Seq(Nat)
    BY <1>0, <2>6, AppendOne
  <2>8. Append(delivered, e) \o <<>> = Append(delivered, e) BY <2>7, ConcatEmptySeq
  <2>9. received' = (delivered' \o Offered') \o W BY <1>0, <2>2, <2>4, <2>5, <2>7, <2>8
  <2> QED BY <2>3, <2>9 DEF RxInOrder
<1>5. CASE HostPut
  <2>1. /\ KeptBut({"RX", "pkt"})
        /\ \/ QueueKept("RX") /\ received' = received
           \/ /\ QueueGains("RX") /\ Moved(<<"RX", head["RX"]>>, pkt)
              /\ received' = Append(received, Packets[pkt])
    BY <1>5, HostPutMoves
  <2>2. Moved(queued_pkt, queued_pkt) BY <2>1, AlonesKept
  <2>3. delivered' = delivered BY <1>5 DEF HostPut
  <2> QED BY <1>1, <2>1, <2>2, <2>3, RxKept, RxGains
<1>6. CASE HostForward
  <2>1. /\ KeptBut({"RX", "pkt_tx_v"})
        /\ \/ QueueKept("RX") /\ received' = received
           \/ /\ QueueGains("RX") /\ Moved(<<"RX", head["RX"]>>, <<"pkt_tx_v", at>>)
              /\ received' = Append(received, Packets[<<"pkt_tx_v", at>>])
    BY <1>6, HostForwardMoves
  <2>2. Moved(queued_pkt, queued_pkt) BY <2>1, AlonesKept
  <2>3. delivered' = delivered BY <1>6 DEF HostForward
  <2> QED BY <1>1, <2>1, <2>2, <2>3, RxKept, RxGains
<1>7. CASE \/ network_connect \/ netcard_close \/ NetcardClosed \/ Gone
           \/ network_rx_queue \/ ReceiveHeld \/ CardRefuses \/ net_slirp_in_available
           \/ (ReceiveNext /\ network_queue_empty("RX")) \/ UNCHANGED vars
  <2>1. UNCHANGED <<data, len, mem, head, tail, received, delivered>>
    BY <1>7 DEF network_connect, netcard_close, NetcardClosed, Gone, network_rx_queue,
                ReceiveHeld, CardRefuses, net_slirp_in_available, ReceiveNext
  <2>2. KeptBut({}) BY <2>1, SlotsKept
  <2> QED BY <2>1, <2>2, RxKeptBut
<1>8. CASE \/ HostPoll \/ HostIdle \/ HostStop \/ HostWake \/ HostForwarded \/ HostSend
           \/ HostSent
  <2>1. UNCHANGED <<data, len, mem, head, tail, received, delivered>>
    BY <1>8 DEF HostPoll, HostIdle, HostStop, HostWake, HostForwarded, HostSend, HostSent
  <2>2. KeptBut({}) BY <2>1, SlotsKept
  <2> QED BY <2>1, <2>2, RxKeptBut
<1>9. CASE network_tx
  <2>1. KeptBut({"TX_VM"}) BY <1>9, network_txMoves
  <2>2. UNCHANGED <<received, delivered>> BY <1>9 DEF network_tx
  <2> QED BY <2>1, <2>2, RxKeptBut
<1>10. CASE Transmit
  <2>1. KeptBut({"TX_VM", "TX_HOST"}) BY <1>1, <1>10, TransmitMoves
  <2>2. UNCHANGED <<received, delivered>> BY <1>10 DEF Transmit
  <2> QED BY <2>1, <2>2, RxKeptBut
<1>11. CASE HostPop
  <2>1. mem' = mem /\ head' = head /\ PopV("TX_HOST") BY <1>11 DEF HostPop
  <2>2. KeptBut({"TX_HOST", "pkt_tx_v"}) BY <2>1, QueueNames, PopVMoves
  <2>3. UNCHANGED <<received, delivered>> BY <1>11 DEF HostPop
  <2> QED BY <2>2, <2>3, RxKeptBut
<1>12. CASE HostDeferred
  <2>1. mem' = mem /\ head' = head /\ PopV("RX_ON_TX") BY <1>12 DEF HostDeferred
  <2>2. KeptBut({"RX_ON_TX", "pkt_tx_v"}) BY <2>1, QueueNames, PopVMoves
  <2>3. UNCHANGED <<received, delivered>> BY <1>12 DEF HostDeferred
  <2> QED BY <2>2, <2>3, RxKeptBut
<1>13. CASE HostAnswer
  <2>1. KeptBut({"RX_ON_TX", "pkt"}) BY <1>13, HostAnswerMoves
  <2>2. UNCHANGED <<received, delivered>> BY <1>13 DEF HostAnswer
  <2> QED BY <2>1, <2>2, RxKeptBut
<1>14. CASE HostReceive
  <2>1. KeptBut({"pkt"}) BY <1>14, HostReceiveMoves
  <2>2. UNCHANGED <<received, delivered>> BY <1>14 DEF HostReceive
  <2> QED BY <2>1, <2>2, RxKeptBut
<1> QED BY <1>3, <1>4, <1>5, <1>6, <1>7, <1>8, <1>9, <1>10, <1>11, <1>12, <1>13, <1>14
        DEF Next, Poll, Host

-----------------------------------------------------------------------------
(* The slots from which packets are taken hold one. *)

LEMMA QueueMarkedKept ==
  ASSUME Inv, NEW q \in Queues, QueueMarked(q), QueueKept(q)
  PROVE  QueueMarked(q)'
<1>1. tail'[q] = tail[q] /\ Count(q)' = Count(q) /\ tail[q] \in Index /\ Count(q) \in Index
  BY IndicesTyped, WaitsKept DEF QueueKept
<1>2. \A i \in 0 .. Count(q) - 1 : Wrap(tail[q] + i) \in Index
  BY <1>1, Lengths DEF Wrap, Index
<1>3. \A i \in 0 .. Count(q) - 1 : len'[<<q, Wrap(tail[q] + i)>>] = 1
  BY <1>2 DEF QueueKept, Moved, QueueMarked, AllMarked
<1> QED BY <1>1, <1>3 DEF QueueMarked, AllMarked

LEMMA QueueMarkedGains ==
  ASSUME Inv, NEW q \in Queues, QueueMarked(q), QueueGains(q), len'[<<q, head[q]>>] = 1
  PROVE  QueueMarked(q)'
<1>1. /\ Count(q)' = Count(q) + 1 /\ Count(q) + 1 \in Index
      /\ Wrap(tail[q] + Count(q)) = head[q]
  BY PutEffect DEF QueueGains
<1>2. tail'[q] = tail[q] /\ tail[q] \in Index /\ Count(q) \in Index /\ Count(q) \in Nat
  BY IndicesTyped DEF QueueGains
<1>3. \A i \in 0 .. Count(q) - 1 : /\ Wrap(tail[q] + i) \in Index
                                   /\ Wrap(tail[q] + i) # Wrap(tail[q] + Count(q))
  BY <1>1, <1>2, Lengths DEF Wrap, Index
<1>4. \A i \in 0 .. Count(q) - 1 : len'[<<q, Wrap(tail[q] + i)>>] = 1
  BY <1>1, <1>3 DEF QueueGains, Moved, QueueMarked, AllMarked
<1>5. \A i \in 0 .. (Count(q) + 1) - 1 : i \in 0 .. Count(q) - 1 \/ i = Count(q)
  BY <1>2
<1>6. \A i \in 0 .. (Count(q) + 1) - 1 : len'[<<q, Wrap(tail[q] + i)>>] = 1
  BY <1>1, <1>4, <1>5
<1> QED BY <1>1, <1>2, <1>6 DEF QueueMarked, AllMarked

LEMMA QueueMarkedLoses ==
  ASSUME Inv, NEW q \in Queues, QueueMarked(q), QueueLoses(q)
  PROVE  QueueMarked(q)'
<1>1. /\ tail'[q] = Wrap(tail[q] + 1) /\ head'[q] = head[q]
      /\ tail[q] \in Index /\ Count(q) \in Index /\ Count(q) \in Nat /\ Count(q) # 0
  BY IndicesTyped DEF QueueLoses
<1>2. Count(q)' = Count(q) - 1
  <2>1. 1 \in Nat /\ 1 <= Count(q) BY <1>1
  <2> QED BY <1>1, <2>1, GetEffect
<1>3. \A i \in 0 .. (Count(q) - 1) - 1 :
          /\ Wrap(Wrap(tail[q] + 1) + i) = Wrap(tail[q] + (i + 1))
          /\ Wrap(tail[q] + (i + 1)) \in Index /\ Wrap(tail[q] + (i + 1)) # tail[q]
          /\ i + 1 \in 0 .. Count(q) - 1
  BY <1>1, Lengths DEF Wrap, Index
<1>4. \A i \in 0 .. (Count(q) - 1) - 1 : len'[<<q, Wrap(Wrap(tail[q] + 1) + i)>>] = 1
  <2> TAKE i \in 0 .. (Count(q) - 1) - 1
  <2>1. len[<<q, Wrap(tail[q] + (i + 1))>>] = 1 BY <1>3 DEF QueueMarked, AllMarked
  <2>2. Moved(<<q, Wrap(tail[q] + (i + 1))>>, <<q, Wrap(tail[q] + (i + 1))>>)
    BY <1>3 DEF QueueLoses
  <2> QED BY <1>3, <2>1, <2>2 DEF Moved
<1> QED BY <1>1, <1>2, <1>4 DEF QueueMarked, AllMarked

(* What a step that keeps slots keeps of the marks. *)
LEMMA MarksKept ==
  ASSUME Inv, Marked, NEW N, KeptBut(N)
  PROVE  /\ "RX" \notin N => QueueMarked("RX")'
         /\ "RX_ON_TX" \notin N => QueueMarked("RX_ON_TX")'
         /\ "pkt_tx_v" \notin N /\ UNCHANGED <<host, got, at>> => BatchMarked'
         /\ "pkt" \notin N /\ host' = host => PktMarked'
         /\ "queued_pkt" \notin N /\ cpu' = cpu => HeldMarked'
<1>1. "RX" \in Queues /\ "RX_ON_TX" \in Queues BY QueueNames
<1>2. ASSUME NEW q \in Queues, QueueMarked(q), q \notin N PROVE QueueMarked(q)'
  BY <1>2, QueueKeptBut, QueueMarkedKept
<1>3. ASSUME "pkt_tx_v" \notin N, UNCHANGED <<host, got, at>> PROVE BatchMarked'
  <2>1. \A i \in at .. got - 1 : i \in Index BY Lengths DEF Inv, Index
  <2>2. BatchKept BY <1>3, BatchKeptBut
  <2>3. \A i \in at .. got - 1 : len'[<<"pkt_tx_v", i>>] = len[<<"pkt_tx_v", i>>]
    BY <2>1, <2>2 DEF BatchKept, Moved
  <2> QED BY <1>3, <2>3 DEF Marked, BatchMarked
<1>4. ASSUME "pkt" \notin N, host' = host PROVE PktMarked'
  BY <1>4, AlonesKept DEF Moved, Marked, PktMarked
<1>5. ASSUME "queued_pkt" \notin N, cpu' = cpu PROVE HeldMarked'
  BY <1>5, AlonesKept DEF Moved, Marked, HeldMarked
<1> QED BY <1>1, <1>2, <1>3, <1>4, <1>5 DEF Marked

LEMMA MarkedStep ==
  ASSUME Inv, Typed, Marked, [Next]_vars
  PROVE  Marked'
<1> USE DEF vars, slots, cpuVars, hostVars, history
<1>1. Packets' \in [Slots -> Nat] BY TypedNext
<1>2. /\ "RX" \in Queues /\ "RX_ON_TX" \in Queues
      /\ QueueMarked("RX") /\ QueueMarked("RX_ON_TX")
  BY QueueNames DEF Marked
<1>3. host' # "forward" => BatchMarked' BY DEF BatchMarked
<1>4. host' # "put" => PktMarked' BY DEF PktMarked
<1>5. cpu' # "card" => HeldMarked' BY DEF HeldMarked
<1>6. CASE \/ network_connect \/ netcard_close \/ NetcardClosed \/ Gone
           \/ network_rx_queue \/ CardRefuses \/ net_slirp_in_available
           \/ (ReceiveNext /\ network_queue_empty("RX")) \/ UNCHANGED vars
  <2>1. /\ UNCHANGED <<data, len, mem, head, tail, host, got, at>>
        /\ cpu' = cpu \/ cpu' # "card"
    BY <1>6 DEF network_connect, netcard_close, NetcardClosed, Gone, network_rx_queue,
                CardRefuses, net_slirp_in_available, ReceiveNext
  <2>2. KeptBut({}) BY <2>1, SlotsKept
  <2> QED BY <1>5, <2>1, <2>2, MarksKept DEF Marked
<1>7. CASE ReceiveHeld
  <2>1. /\ UNCHANGED <<data, len, mem, head, tail, host, got, at>> /\ len[queued_pkt] # 0
    BY <1>7 DEF ReceiveHeld
  <2>2. KeptBut({}) BY <2>1, SlotsKept
  <2>3. len'[queued_pkt] = 1 BY <2>1, SlotNames DEF Inv
  <2>4. HeldMarked' BY <2>3 DEF HeldMarked
  <2> QED BY <2>1, <2>2, <2>4, MarksKept DEF Marked
<1>8. CASE ReceiveNext /\ ~ network_queue_empty("RX")
  <2>1. /\ KeptBut({"RX", "queued_pkt"}) /\ QueueLoses("RX")
        /\ Moved(queued_pkt, <<"RX", tail["RX"]>>)
    BY <1>8, ReceiveNextMoves
  <2>2. UNCHANGED <<host, got, at>> BY <1>8 DEF ReceiveNext
  <2>3. QueueMarked("RX")' BY <1>2, <2>1, QueueMarkedLoses
  <2>4. HeldMarked'
    <3>1. tail["RX"] \in Index /\ Count("RX") \in Nat /\ Count("RX") # 0
      BY <1>2, <1>8, IndicesTyped
    <3>2. 0 \in 0 .. Count("RX") - 1 /\ Wrap(tail["RX"] + 0) = tail["RX"]
      BY <3>1, Lengths DEF Wrap, Index
    <3>3. len[<<"RX", Wrap(tail["RX"] + 0)>>] = 1
      BY <1>2, <3>2 DEF QueueMarked, AllMarked
    <3> QED BY <2>1, <3>2, <3>3 DEF Moved, HeldMarked
  <2> QED BY <2>1, <2>2, <2>3, <2>4, MarksKept DEF Marked
<1>9. CASE CardTakes
  <2>1. KeptBut({"queued_pkt"}) BY <1>9, CardTakesMoves
  <2>2. UNCHANGED <<host, got, at>> /\ cpu' # "card" BY <1>9 DEF CardTakes
  <2> QED BY <1>5, <2>1, <2>2, MarksKept DEF Marked
<1>10. CASE network_tx
  <2>1. KeptBut({"TX_VM"}) BY <1>10, network_txMoves
  <2>2. UNCHANGED <<cpu, host, got, at>> BY <1>10 DEF network_tx
  <2> QED BY <2>1, <2>2, MarksKept DEF Marked
<1>11. CASE Transmit
  <2>1. KeptBut({"TX_VM", "TX_HOST"}) BY <1>1, <1>11, TransmitMoves
  <2>2. UNCHANGED <<host, got, at>> /\ cpu' # "card" BY <1>11 DEF Transmit
  <2> QED BY <1>5, <2>1, <2>2, MarksKept DEF Marked
<1>12. CASE \/ HostPoll \/ HostIdle \/ HostStop \/ HostWake \/ HostForwarded \/ HostSend
            \/ HostSent
  <2>1. /\ UNCHANGED <<data, len, mem, head, tail, cpu>>
        /\ host' # "forward" /\ host' # "put"
    BY <1>12 DEF HostPoll, HostIdle, HostStop, HostWake, HostForwarded, HostSend, HostSent
  <2>2. KeptBut({}) BY <2>1, SlotsKept
  <2> QED BY <1>3, <1>4, <2>1, <2>2, MarksKept DEF Marked
<1>13. CASE HostReceive
  <2>1. KeptBut({"pkt"}) /\ len'[pkt] = 1 BY <1>13, HostReceiveMoves
  <2>2. cpu' = cpu /\ host' # "forward" BY <1>13 DEF HostReceive
  <2>3. PktMarked' BY <2>1 DEF PktMarked
  <2> QED BY <1>3, <2>1, <2>2, <2>3, MarksKept DEF Marked
<1>14. CASE HostPut
  <2>1. /\ KeptBut({"RX", "pkt"})
        /\ \/ QueueKept("RX")
           \/ QueueGains("RX") /\ Moved(<<"RX", head["RX"]>>, pkt)
    BY <1>14, HostPutMoves
  <2>2. cpu' = cpu /\ host = "put" /\ host' # "put" /\ host' # "forward"
    BY <1>14 DEF HostPut
  <2>3. len[pkt] = 1 BY <2>2 DEF Marked, PktMarked
  <2>4. QueueMarked("RX")'
    BY <1>2, <2>1, <2>3, QueueMarkedKept, QueueMarkedGains DEF Moved
  <2> QED BY <1>3, <1>4, <2>1, <2>2, <2>4, MarksKept DEF Marked
<1>15. CASE HostForward
  <2>1. /\ KeptBut({"RX", "pkt_tx_v"})
        /\ \A j \in Index : j # at => Moved(<<"pkt_tx_v", j>>, <<"pkt_tx_v", j>>)
        /\ \/ QueueKept("RX")
           \/ QueueGains("RX") /\ Moved(<<"RX", head["RX"]>>, <<"pkt_tx_v", at>>)
    BY <1>15, HostForwardMoves
  <2>2. /\ UNCHANGED <<cpu, host, got>> /\ host = "forward" /\ host' # "put"
        /\ at < got /\ at' = at + 1
    BY <1>15 DEF HostForward
  <2>3. \A i \in at .. got - 1 : len[<<"pkt_tx_v", i>>] = 1
    BY <2>2 DEF Marked, BatchMarked
  <2>4. QueueMarked("RX")'
    <3>1. at \in at .. got - 1 BY <2>2, Lengths DEF Inv, Index
    <3>2. len[<<"pkt_tx_v", at>>] = 1 BY <2>3, <3>1
    <3> QED BY <1>2, <2>1, <3>2, QueueMarkedKept, QueueMarkedGains DEF Moved
  <2>5. BatchMarked'
    <3>1. \A i \in at + 1 .. got - 1 : i \in Index /\ i # at /\ i \in at .. got - 1
      BY <2>2, Lengths DEF Inv, Index
    <3>2. \A i \in at + 1 .. got - 1 : len'[<<"pkt_tx_v", i>>] = 1
      BY <2>1, <2>3, <3>1 DEF Moved
    <3> QED BY <2>2, <3>2 DEF BatchMarked
  <2> QED BY <1>4, <2>1, <2>2, <2>4, <2>5, MarksKept DEF Marked
<1>16. CASE HostPop
  <2>1. mem' = mem /\ head' = head /\ PopV("TX_HOST") BY <1>16 DEF HostPop
  <2>2. KeptBut({"TX_HOST", "pkt_tx_v"}) BY <2>1, QueueNames, PopVMoves
  <2>3. cpu' = cpu /\ host' # "forward" /\ host' # "put" BY <1>16 DEF HostPop
  <2> QED BY <1>3, <1>4, <2>2, <2>3, MarksKept DEF Marked
<1>17. CASE HostDeferred
  <2>1. /\ mem' = mem /\ head' = head /\ PopV("RX_ON_TX") /\ cpu' = cpu /\ host' # "put"
    BY <1>17 DEF HostDeferred
  <2>2. /\ KeptBut({"RX_ON_TX", "pkt_tx_v"})
        /\ \A i \in 0 .. Count("RX_ON_TX") - 1 :
               Moved(<<"pkt_tx_v", i>>, <<"RX_ON_TX", Wrap(tail["RX_ON_TX"] + i)>>)
        /\ got' = Count("RX_ON_TX") /\ at' = 0
        /\ tail'["RX_ON_TX"] = head["RX_ON_TX"] /\ head'["RX_ON_TX"] = head["RX_ON_TX"]
    BY <1>2, <2>1, PopVMoves
  <2>3. QueueMarked("RX_ON_TX")'
    <3>1. head["RX_ON_TX"] \in Index BY <1>2, IndicesTyped
    <3>2. Count("RX_ON_TX")' = CountOf(head["RX_ON_TX"], head["RX_ON_TX"])
      BY <2>2 DEF Count, CountOf
    <3>3. Count("RX_ON_TX")' = 0 BY <3>1, <3>2, CountOfRange
    <3>4. 0 .. 0 - 1 = {} OBVIOUS
    <3> QED BY <3>3, <3>4 DEF QueueMarked, AllMarked
  <2>4. BatchMarked'
    <3>1. \A i \in 0 .. Count("RX_ON_TX") - 1 : len'[<<"pkt_tx_v", i>>] = 1
      BY <1>2, <2>2 DEF Moved, QueueMarked, AllMarked
    <3> QED BY <2>2, <3>1 DEF BatchMarked
  <2> QED BY <1>4, <2>1, <2>2, <2>3, <2>4, MarksKept DEF Marked
<1>18. CASE HostAnswer
  <2>1. /\ KeptBut({"RX_ON_TX", "pkt"})
        /\ \/ QueueKept("RX_ON_TX")
           \/ QueueGains("RX_ON_TX") /\ len'[<<"RX_ON_TX", head["RX_ON_TX"]>>] = 1
    BY <1>18, HostAnswerMoves
  <2>2. cpu' = cpu /\ host' # "put" /\ host' # "forward" BY <1>18 DEF HostAnswer
  <2>3. QueueMarked("RX_ON_TX")' BY <1>2, <2>1, QueueMarkedKept, QueueMarkedGains
  <2> QED BY <1>3, <1>4, <2>1, <2>2, <2>3, MarksKept DEF Marked
<1> QED BY <1>6, <1>7, <1>8, <1>9, <1>10, <1>11, <1>12, <1>13, <1>14, <1>15, <1>16, <1>17,
           <1>18 DEF Next, Poll, Host

-----------------------------------------------------------------------------
InOrder == Inv /\ Typed /\ Marked /\ OutInOrder /\ RxInOrder

LEMMA InOrderInit == Init => InOrder
<1> SUFFICES ASSUME Init PROVE InOrder OBVIOUS
<1>1. Inv BY InvInit
<1>2. Typed BY EmptySeq DEF Init, Typed
<1>3. \A q \in Queues : Count(q) = 0
  BY Lengths DEF Init, Count, Wrap
<1>4. "RX" \in Queues /\ "RX_ON_TX" \in Queues /\ "TX_VM" \in Queues /\ "TX_HOST" \in Queues
      /\ 0 .. 0 - 1 = {}
  BY QueueNames
<1>5. Marked
  BY <1>3, <1>4 DEF Init, Marked, QueueMarked, AllMarked, BatchMarked, PktMarked, HeldMarked
<1>6. \A q \in Queues : Waits(q) = <<>> BY <1>3, StoredNone DEF Waits
<1>7. Batched = <<>> /\ Offered = <<>> BY SlotNames DEF Init, Batched, Offered
<1>8. <<>> \o <<>> = <<>> BY EmptySeq, ConcatEmptySeq
<1>9. accepted = <<>> /\ sent = <<>> /\ received = <<>> /\ delivered = <<>> BY DEF Init
<1> QED BY <1>1, <1>2, <1>4, <1>5, <1>6, <1>7, <1>8, <1>9 DEF InOrder, OutInOrder, RxInOrder

LEMMA InOrderMeans ==
  ASSUME InOrder
  PROVE  PacketsInOrder
<1>0. Inv BY DEF InOrder
<1>1. ASSUME NEW q \in Queues PROVE Contents(q) = Waits(q)
  <2>1. tail[q] \in Index /\ Count(q) \in Index BY <1>0, IndicesTyped
  <2>2. \A i \in 1 .. Count(q) : Wrap(tail[q] + i - 1) \in Index
    BY <2>1, Lengths DEF Wrap, Index
  <2>3. \A i \in 1 .. Count(q) : mem[data[<<q, Wrap(tail[q] + i - 1)>>]]
                                     = Packets[<<q, Wrap(tail[q] + i - 1)>>]
    BY <2>2, SlotNames DEF Packets
  <2> QED BY <2>3 DEF Contents, Waits, Stored
<1>2. InBatch = Batched
  <2>1. \A i \in 1 .. got - at : at + i - 1 \in Index BY <1>0, Lengths DEF Inv, Index
  <2>2. \A i \in 1 .. got - at : mem[data[<<"pkt_tx_v", at + i - 1>>]]
                                     = Packets[<<"pkt_tx_v", at + i - 1>>]
    BY <2>1, SlotNames DEF Packets
  <2> QED BY <2>2 DEF InBatch, Batched, Loaded
<1>3. Held = Offered BY SlotNames DEF Held, Offered, Packets
<1> QED BY <1>1, <1>2, <1>3, QueueNames DEF InOrder, PacketsInOrder, OutInOrder, RxInOrder

(* Packets keep their order and their contents, and go once, whatever the  *)
(* card, libslirp and the user do and however long the queues are.         *)
THEOREM NetworkPacketsInOrder == Spec => []PacketsInOrder
<1>1. ASSUME InOrder, [Next]_vars PROVE InOrder'
  BY <1>1, InvStep, TypedStep, MarkedStep, OutStep, RxStep DEF InOrder
<1> QED BY <1>1, InOrderInit, InOrderMeans, PTL DEF Spec
-----------------------------------------------------------------------------
(* Types. *)

(* The CPU thread polls no more than QueueLen packets at a time, and what  *)
(* the card knows of its link is a state the user chose some time.         *)
CpuTyped ==
    /\ cpu \in {"run", "receive", "card", "transmit", "notify", "close", "closed"}
    /\ turn \in 0 .. QueueLen
    /\ cpu \in {"receive", "card"} => turn < QueueLen
    /\ link \in [conf : LinkStates, card : LinkStates]

HostTyped ==
    /\ tx_event \in 0 .. PipeCap /\ stop_event \in BOOLEAN
    /\ seen \in [stop : BOOLEAN, tx : BOOLEAN]
    /\ host \in {"poll", "polled", "put", "pop", "send", "deferred", "forward", "done"}
    /\ recv_on_tx \in BOOLEAN

(* Buffers hold packets that the guest or the network has made.            *)
MemTyped ==
    /\ mem \in [Buffers -> 0 .. MaxTx + MaxRx]
    /\ made \in 0 .. MaxRx /\ Len(accepted) \in 0 .. MaxTx

LEMMA CpuTypedStep ==
  ASSUME CpuTyped, [Next]_vars
  PROVE  CpuTyped'
<1> USE Lengths DEF vars, cpuVars
<1>1. CASE network_connect
  <2>1. PICK l \in LinkStates : link' = [link EXCEPT !.conf = l]
    BY <1>1 DEF network_connect
  <2>2. link' \in [conf : LinkStates, card : LinkStates] BY <2>1 DEF CpuTyped
  <2>3. UNCHANGED <<cpu, turn>> BY <1>1 DEF network_connect
  <2> QED BY <2>2, <2>3 DEF CpuTyped
<1>2. CASE network_rx_queue
  <2>1. link' \in [conf : LinkStates, card : LinkStates]
    BY <1>2 DEF network_rx_queue, CpuTyped
  <2>2. cpu' = "receive" /\ turn' = 0 BY <1>2 DEF network_rx_queue
  <2> QED BY <2>1, <2>2 DEF CpuTyped
<1>3. CASE ReceiveHeld \/ ReceiveNext \/ CardRefuses
  BY <1>3 DEF ReceiveHeld, ReceiveNext, CardRefuses, CpuTyped
<1>4. CASE CardTakes BY <1>4 DEF CardTakes, CpuTyped
<1>5. CASE Transmit
  <2>1. cpu' \in {"notify", "run"} /\ UNCHANGED <<turn, link>> BY <1>5 DEF Transmit
  <2> QED BY <2>1 DEF CpuTyped
<1>6. CASE net_slirp_in_available \/ netcard_close \/ NetcardClosed
  BY <1>6 DEF net_slirp_in_available, netcard_close, NetcardClosed, CpuTyped
<1>7. CASE network_tx \/ Gone \/ Host \/ HostReceive \/ HostAnswer \/ UNCHANGED vars
  <2>1. UNCHANGED <<cpu, turn, link>>
    BY <1>7 DEF network_tx, Gone, Host, HostReceive, HostAnswer, HostPoll, HostPut,
                HostStop, HostIdle, HostWake, HostPop, HostSend, HostSent, HostDeferred,
                HostForward, HostForwarded
  <2> QED BY <2>1 DEF CpuTyped
<1> QED BY <1>1, <1>2, <1>3, <1>4, <1>5, <1>6, <1>7 DEF Next, Poll

LEMMA HostTypedStep ==
  ASSUME Notified, HostTyped, [Next]_vars
  PROVE  HostTyped'
<1> USE NetworkAssumption DEF vars, hostVars
<1>1. CASE HostPoll
  <2>1. seen' \in [stop : BOOLEAN, tx : BOOLEAN] BY <1>1 DEF HostPoll, HostTyped
  <2>2. host' = "polled" /\ UNCHANGED <<tx_event, stop_event, recv_on_tx>>
    BY <1>1 DEF HostPoll
  <2> QED BY <2>1, <2>2 DEF HostTyped
<1>2. CASE HostWake
  <2>1. tx_event > 0 /\ tx_event' = tx_event - 1 BY <1>2 DEF HostWake, Notified
  <2>2. tx_event' \in 0 .. PipeCap BY <2>1 DEF HostTyped
  <2>3. host' = "pop" /\ UNCHANGED <<stop_event, seen, recv_on_tx>> BY <1>2 DEF HostWake
  <2> QED BY <2>2, <2>3 DEF HostTyped
<1>3. CASE net_slirp_in_available
  <2>1. tx_event \in Nat /\ PipeCap \in Nat BY DEF HostTyped
  <2>2. tx_event' \in 0 .. PipeCap BY <1>3, <2>1, MinOfTwo DEF net_slirp_in_available
  <2>3. UNCHANGED <<stop_event, seen, host, recv_on_tx>> BY <1>3 DEF net_slirp_in_available
  <2> QED BY <2>2, <2>3 DEF HostTyped
<1>4. CASE netcard_close \/ HostStop
  <2>1. stop_event' \in BOOLEAN /\ UNCHANGED <<tx_event, seen, recv_on_tx>>
    BY <1>4 DEF netcard_close, HostStop
  <2>2. host' = host \/ host' = "done" BY <1>4 DEF netcard_close, HostStop
  <2> QED BY <2>1, <2>2 DEF HostTyped
<1>5. CASE \/ HostPut \/ HostIdle \/ HostPop \/ HostSend \/ HostSent \/ HostForward
           \/ HostForwarded \/ HostReceive
  <2>1. UNCHANGED <<tx_event, stop_event, seen, recv_on_tx>>
    BY <1>5 DEF HostPut, HostIdle, HostPop, HostSend, HostSent, HostForward,
                HostForwarded, HostReceive
  <2>2. host' \in {"poll", "polled", "put", "send", "deferred", "forward"}
    BY <1>5 DEF HostPut, HostIdle, HostPop, HostSend, HostSent, HostForward,
                HostForwarded, HostReceive
  <2> QED BY <2>1, <2>2 DEF HostTyped
<1>6. CASE HostDeferred \/ HostAnswer
  <2>1. UNCHANGED <<tx_event, stop_event, seen>> BY <1>6 DEF HostDeferred, HostAnswer
  <2>2. host' \in {"poll", "forward", "send"}
    BY <1>6 DEF HostDeferred, HostAnswer
  <2>3. recv_on_tx' \in BOOLEAN BY <1>6 DEF HostDeferred, HostAnswer, HostTyped
  <2> QED BY <2>1, <2>2, <2>3 DEF HostTyped
<1>7. CASE \/ network_tx \/ network_connect \/ NetcardClosed \/ Gone \/ network_rx_queue
           \/ ReceiveHeld \/ ReceiveNext \/ CardTakes \/ CardRefuses \/ Transmit
           \/ UNCHANGED vars
  <2>1. UNCHANGED <<tx_event, stop_event, seen, host, recv_on_tx>>
    BY <1>7 DEF network_tx, network_connect, NetcardClosed, Gone, network_rx_queue,
                ReceiveHeld, ReceiveNext, CardTakes, CardRefuses, Transmit
  <2> QED BY <2>1 DEF HostTyped
<1> QED BY <1>1, <1>2, <1>3, <1>4, <1>5, <1>6, <1>7 DEF Next, Poll, Host

LEMMA MemTypedStep ==
  ASSUME Inv, Typed, MemTyped, [Next]_vars
  PROVE  MemTyped'
<1> USE NetworkAssumption DEF vars, slots, hostVars, history
<1>1. CASE network_tx
  <2>1. "TX_VM" \in Queues /\ head["TX_VM"] \in Index BY DEF Queues, Inv
  <2>2. data[<<"TX_VM", head["TX_VM"]>>] \in Buffers BY <2>1, SlotNames DEF Inv
  <2>3. Len(accepted) + 1 \in 0 .. MaxTx + MaxRx BY <1>1 DEF network_tx, MemTyped
  <2>4. mem' \in [Buffers -> 0 .. MaxTx + MaxRx]
    BY <1>1, <2>2, <2>3 DEF network_tx, Fill, MemTyped
  <2>5. Len(accepted') = Len(accepted) + 1
    <3>1. Len(accepted) + 1 \in Nat BY DEF MemTyped
    <3> QED BY <1>1, <3>1 DEF network_tx, Typed
  <2>6. Len(accepted') \in 0 .. MaxTx BY <1>1, <2>5 DEF network_tx, MemTyped
  <2>7. made' = made BY <1>1 DEF network_tx
  <2> QED BY <2>4, <2>6, <2>7 DEF MemTyped
<1>2. CASE HostReceive \/ HostAnswer
  <2>1. /\ made < MaxRx /\ made' = made + 1 /\ accepted' = accepted
        /\ mem' = [mem EXCEPT ![data[pkt]] = made + 1]
    BY <1>2 DEF HostReceive, HostAnswer, Fill
  <2>2. data[pkt] \in Buffers BY SlotNames DEF Inv
  <2>3. made + 1 \in 0 .. MaxRx /\ made + 1 \in 0 .. MaxTx + MaxRx BY <2>1 DEF MemTyped
  <2>4. mem' \in [Buffers -> 0 .. MaxTx + MaxRx] BY <2>1, <2>2, <2>3 DEF MemTyped
  <2> QED BY <2>1, <2>3, <2>4 DEF MemTyped
<1>3. CASE \/ network_connect \/ netcard_close \/ NetcardClosed \/ Gone \/ Poll \/ Host
           \/ UNCHANGED vars
  <2>1. UNCHANGED <<mem, made, accepted>>
    <3>1. CASE \/ network_connect \/ netcard_close \/ NetcardClosed \/ Gone \/ Poll
               \/ UNCHANGED vars
      BY <3>1 DEF network_connect, netcard_close, NetcardClosed, Gone, Poll,
                  network_rx_queue, ReceiveHeld, ReceiveNext, CardTakes, CardRefuses,
                  Transmit, net_slirp_in_available
    <3>2. CASE Host
      BY <3>2 DEF Host, HostPoll, HostPut, HostStop, HostIdle, HostWake, HostPop,
                  HostSend, HostSent, HostDeferred, HostForward, HostForwarded
    <3> QED BY <1>3, <3>1, <3>2
  <2> QED BY <2>1 DEF MemTyped
<1> QED BY <1>1, <1>2, <1>3 DEF Next

LEMMA TypesInit == Init => CpuTyped /\ HostTyped /\ MemTyped
<1> SUFFICES ASSUME Init PROVE CpuTyped /\ HostTyped /\ MemTyped OBVIOUS
<1>1. link \in [conf : LinkStates, card : LinkStates] BY DEF Init
<1>2. CpuTyped BY <1>1, Lengths DEF Init, CpuTyped
<1>3. seen \in [stop : BOOLEAN, tx : BOOLEAN] BY DEF Init
<1>4. HostTyped
  <2>1. tx_event \in 0 .. PipeCap BY NetworkAssumption DEF Init
  <2>2. stop_event \in BOOLEAN /\ recv_on_tx \in BOOLEAN /\ host = "poll" BY DEF Init
  <2> QED BY <1>3, <2>1, <2>2 DEF HostTyped
<1>5. Len(accepted) = 0 BY EmptySeq DEF Init
<1>6. MemTyped BY <1>5, NetworkAssumption DEF Init, MemTyped
<1> QED BY <1>2, <1>4, <1>6

(* Every variable of the card and of the provider keeps its type: indices  *)
(* stay within their arrays, no more notifications are pending than the    *)
(* pipe holds and none is taken that is not there, and a poll takes no     *)
(* more packets than a queue has slots.                                    *)
THEOREM NetworkTypeCorrect == Spec => []TypeOK
<1> DEFINE Types == Inv /\ Typed /\ Notified /\ CpuTyped /\ HostTyped /\ MemTyped
<1>1. Init => Types
  <2> SUFFICES ASSUME Init PROVE Types OBVIOUS
  <2>1. Inv /\ CpuTyped /\ HostTyped /\ MemTyped BY InvInit, TypesInit
  <2>2. Typed BY InOrderInit DEF InOrder
  <2>3. Notified BY DEF Init, Notified, NotifiedOfPackets, network_queue_empty, Queues
  <2> QED BY <2>1, <2>2, <2>3
<1>2. ASSUME Types, [Next]_vars PROVE Types'
  BY <1>2, InvStep, TypedStep, NotifiedStep, CpuTypedStep, HostTypedStep, MemTypedStep
<1>3. Types => TypeOK
  BY Lengths DEF Inv, CpuTyped, HostTyped, MemTyped, TypeOK, Index
<1> QED BY <1>1, <1>2, <1>3, PTL DEF Spec

-----------------------------------------------------------------------------
(* The end of the thread. *)

StopNotLost ==
    /\ cpu = "close" => stop_event \/ host = "done"
    /\ cpu = "closed" => host = "done"
    /\ host = "done" => cpu \in {"close", "closed"}

(* The event is set by netcard_close() alone, and what poll() saw of it is *)
(* still true when the thread acts on it.                                  *)
Stopping ==
    /\ StopNotLost
    /\ stop_event => cpu \in {"close", "closed"}
    /\ host \in {"polled", "put"} /\ seen.stop => stop_event

LEMMA StoppingCpuStep ==
  ASSUME Stopping,
         Poll \/ network_tx \/ network_connect \/ netcard_close \/ NetcardClosed \/ Gone
  PROVE  Stopping'
<1> USE DEF hostVars, cpuVars
<1>1. UNCHANGED <<host, seen>>
  BY DEF Poll, network_rx_queue, ReceiveHeld, ReceiveNext, CardTakes, CardRefuses, Transmit,
         net_slirp_in_available, network_tx, network_connect, netcard_close, NetcardClosed,
         Gone, vars
<1>2. CASE Poll \/ network_tx
  <2>1. /\ stop_event' = stop_event
        /\ cpu \notin {"close", "closed"} /\ cpu' \notin {"close", "closed"}
    BY <1>2 DEF Poll, network_rx_queue, ReceiveHeld, ReceiveNext, CardTakes, CardRefuses,
                Transmit, net_slirp_in_available, network_tx
  <2> QED BY <1>1, <2>1 DEF Stopping, StopNotLost
<1>3. CASE netcard_close
  <2>1. cpu = "run" /\ cpu' = "close" BY <1>3 DEF netcard_close
  <2>2. stop_event' = TRUE BY <1>3 DEF netcard_close
  <2>3. host # "done" BY <2>1 DEF Stopping, StopNotLost
  <2> QED BY <1>1, <2>1, <2>2, <2>3 DEF Stopping, StopNotLost
<1>4. CASE NetcardClosed
  <2>1. cpu = "close" /\ host = "done" /\ cpu' = "closed" /\ stop_event' = stop_event
    BY <1>4 DEF NetcardClosed
  <2> QED BY <1>1, <2>1 DEF Stopping, StopNotLost
<1>5. CASE network_connect \/ Gone
  <2>1. UNCHANGED <<cpu, stop_event>> BY <1>5 DEF network_connect, Gone, vars
  <2> QED BY <1>1, <2>1 DEF Stopping, StopNotLost
<1> QED BY <1>2, <1>3, <1>4, <1>5

LEMMA StoppingHostStep ==
  ASSUME Stopping, Host \/ HostReceive \/ HostAnswer
  PROVE  Stopping'
<1> USE DEF cpuVars
<1>1. cpu' = cpu
  BY DEF Host, HostPoll, HostPut, HostStop, HostIdle, HostWake, HostPop, HostSend, HostSent,
         HostDeferred, HostForward, HostForwarded, HostReceive, HostAnswer
<1>2. CASE HostPoll
  <2>1. /\ host = "poll" /\ host' = "polled" /\ stop_event' = stop_event
        /\ seen' = [stop |-> stop_event, tx |-> tx_event > 0]
    BY <1>2 DEF HostPoll
  <2>2. seen'.stop = stop_event BY <2>1
  <2> QED BY <1>1, <2>1, <2>2 DEF Stopping, StopNotLost
<1>3. CASE HostStop
  <2>1. host = "polled" /\ seen.stop /\ stop_event' = FALSE /\ host' = "done"
    BY <1>3 DEF HostStop
  <2>2. cpu \in {"close", "closed"} BY <2>1 DEF Stopping
  <2> QED BY <1>1, <2>1, <2>2 DEF Stopping, StopNotLost
<1>4. CASE HostReceive \/ HostPut
  <2>1. /\ UNCHANGED <<seen, stop_event>>
        /\ host \in {"polled", "put"} /\ host' \in {"polled", "put"}
    BY <1>4 DEF HostReceive, HostPut
  <2> QED BY <1>1, <2>1 DEF Stopping, StopNotLost
<1>5. CASE \/ HostIdle \/ HostWake \/ HostPop \/ HostSend \/ HostSent \/ HostDeferred
           \/ HostForward \/ HostForwarded \/ HostAnswer
  <2>1. /\ stop_event' = stop_event /\ host # "done"
        /\ host' \notin {"polled", "put", "done"}
    BY <1>5 DEF HostIdle, HostWake, HostPop, HostSend, HostSent, HostDeferred, HostForward,
                HostForwarded, HostAnswer
  <2> QED BY <1>1, <2>1 DEF Stopping, StopNotLost
<1> QED BY <1>2, <1>3, <1>4, <1>5 DEF Host

(* netcard_close() is never left waiting by a thread that missed the event *)
(* or ended without it, and frees nothing before the thread has ended: the *)
(* event stays set until the thread acts on it, whatever it was doing with *)
(* packets in between.                                                     *)
THEOREM NetworkStopNotLost == Spec => []StopNotLost
<1>1. Init => Stopping
  BY DEF Init, Stopping, StopNotLost
<1>2. ASSUME Stopping, [Next]_vars PROVE Stopping'
  <2>1. CASE UNCHANGED vars
    <3>1. UNCHANGED <<cpu, host, stop_event, seen>> BY <2>1 DEF vars, cpuVars, hostVars
    <3> QED BY <1>2, <3>1 DEF Stopping, StopNotLost
  <2> QED BY <1>2, <2>1, StoppingCpuStep, StoppingHostStep DEF Next
<1>3. Stopping => StopNotLost BY DEF Stopping
<1> QED BY <1>1, <1>2, <1>3, PTL DEF Spec
==============================================================================
