------------------------------- MODULE Switch -------------------------------
(***************************************************************************)
(* The central packet switch (switch.c): three ring buffers, one per sink, *)
(* filled by the interface tasks that call switch_rx() and drained by one  *)
(* dispatch task.  The rings' mutexes make each ring_push, ring_pop and    *)
(* ring_push_front_drop one step; everything between two of them is an     *)
(* interleaving point: a producer between two rings of the fan-out, the    *)
(* dispatch task inside a sink.                                            *)
(*                                                                         *)
(* A packet is identified by the task that received it and its number, and *)
(* carries its length, the only part of its content the switch looks at.   *)
(***************************************************************************)
EXTENDS Integers, Sequences

CONSTANTS
  Task,          (* interface tasks that call switch_rx                     *)
  Src,           (* Src[t]: the sw_src_t the task passes                    *)
  SW_RING_SIZE,  (* slots of a ring                                         *)
  SW_PKT_MAX,    (* longest packet a slot can hold                          *)
  Lens,          (* lengths the interfaces produce                          *)
  MaxRx,         (* bound: MaxRx[t] packets come in at task t               *)
  NoPkt          (* content of a slot or hand that holds no packet          *)

SW_SRC_BLE   == 0
SW_SRC_TCP   == 1
SW_SRC_HALOW == 2
Port == 0..2
Idle == 3        \* the fan-out loop counter of a task outside switch_rx

Packet == UNION {[task : {t}, n : 1..MaxRx[t], len : Lens] : t \in Task}

ASSUME SwitchAssumption ==
  /\ Src \in [Task -> Port]
  /\ SW_RING_SIZE \in Nat \ {0}
  /\ SW_PKT_MAX \in Nat
  /\ Lens \subseteq Nat
  /\ MaxRx \in [Task -> Nat]
  /\ NoPkt \notin Packet

VARIABLES
  ring,       (* s_rings[p]: slots, head, tail and count                    *)
  sink,       (* s_rings[p].sink is registered                              *)
  hand,       (* packet the dispatch task took out of ring p: s_halow_held  *)
              (* for the radio, the local pkt of the loop for BLE and TCP   *)
  dispatch,   (* the port sw_dispatch_task serves, and whether it is inside *)
              (* that port's sink                                           *)
  rx,         (* per task: the loop counter of switch_rx and its packet     *)
  received,   (* history: packets each task was given by its interface      *)
  accepted,   (* history: packets ring_push stored in ring p                *)
  delivered   (* history: packets sink p returned true for                  *)

vars == <<ring, sink, hand, dispatch, rx, received, accepted, delivered>>
-----------------------------------------------------------------------------
(* Ring primitives, under the ring's mutex.                                *)

\* Mutant: every ring overwrites.
DropOkAlways(p) == TRUE

DropOk(p) == p # SW_SRC_HALOW

RingFull(r)  == r.count >= SW_RING_SIZE
RingEmpty(r) == r.count = 0
Valid(pkt)   == pkt.len # 0 /\ pkt.len <= SW_PKT_MAX

Oldest(r) == r.slots[r.tail]

Write(r, pkt) ==
  [r EXCEPT !.slots = [@ EXCEPT ![r.head] = pkt],
            !.head  = (@ + 1) % SW_RING_SIZE,
            !.count = @ + 1]

RemoveOldest(r) ==
  [r EXCEPT !.tail  = (@ + 1) % SW_RING_SIZE,
            !.count = @ - 1]

\* ring_push on a ring that takes the packet: a full drop_ok ring loses its
\* oldest entry first.
RingPush(r, pkt) == Write(IF RingFull(r) THEN RemoveOldest(r) ELSE r, pkt)

\* Mutant: a refused packet is put in front even when the ring filled up
\* meanwhile.
PushFrontAlways(r, pkt) ==
  LET t == (r.tail + SW_RING_SIZE - 1) % SW_RING_SIZE
  IN  [r EXCEPT !.slots = [@ EXCEPT ![t] = pkt], !.tail = t]

\* ring_push_front_drop: the packet becomes the oldest entry, or is dropped
\* when the ring filled up meanwhile.
RingPushFrontDrop(r, pkt) ==
  LET t == (r.tail + SW_RING_SIZE - 1) % SW_RING_SIZE
  IN  IF RingFull(r) THEN r
      ELSE [r EXCEPT !.slots = [@ EXCEPT ![t] = pkt],
                     !.tail  = t,
                     !.count = @ + 1]
-----------------------------------------------------------------------------
Init ==
  /\ ring = [p \in Port |-> [slots |-> [i \in 0..(SW_RING_SIZE - 1) |-> NoPkt],
                             head |-> 0, tail |-> 0, count |-> 0]]
  /\ sink = [p \in Port |-> FALSE]
  /\ hand = [p \in Port |-> NoPkt]
  /\ dispatch = [port |-> SW_SRC_HALOW, calling |-> FALSE]
  /\ rx = [t \in Task |-> [at |-> Idle, pkt |-> NoPkt]]
  /\ received = [t \in Task |-> <<>>]
  /\ accepted = [p \in Port |-> <<>>]
  /\ delivered = [p \in Port |-> <<>>]

(* system_run registers BLE, then HaLow; rns_proxy_init registers TCP last, *)
(* after the BLE and radio tasks were created.                              *)
RegisterSink(p) ==
  /\ ~sink[p]
  /\ p = SW_SRC_HALOW => sink[SW_SRC_BLE]
  /\ p = SW_SRC_TCP => sink[SW_SRC_HALOW]
  /\ sink' = [sink EXCEPT ![p] = TRUE]
  /\ UNCHANGED <<ring, hand, dispatch, rx, received, accepted, delivered>>

-----------------------------------------------------------------------------
(* switch_rx, run by an interface task.                                     *)

\* The tasks are created after the sinks of their own side of system_run.
Started(t) ==
  /\ sink[SW_SRC_HALOW]
  /\ Src[t] = SW_SRC_TCP => sink[SW_SRC_TCP]

SwitchRx(t) ==
  /\ Started(t)
  /\ rx[t].at = Idle
  /\ Len(received[t]) < MaxRx[t]
  /\ \E len \in Lens :
       LET pkt == [task |-> t, n |-> Len(received[t]) + 1, len |-> len]
       IN  /\ rx' = [rx EXCEPT ![t] = [at |-> SW_SRC_BLE, pkt |-> pkt]]
           /\ received' = [received EXCEPT ![t] = Append(@, pkt)]
  /\ UNCHANGED <<ring, sink, hand, dispatch, accepted, delivered>>

NextRing(t) == rx' = [rx EXCEPT ![t].at = @ + 1]

\* Mutant: the caller does not wait for a slot of a full ring.
SkipFullRing(t) ==
  /\ rx[t].at \in Port
  /\ \/ rx[t].at = Src[t]
     \/ RingFull(ring[rx[t].at])
     \/ ~sink[rx[t].at]
     \/ ~Valid(rx[t].pkt)
  /\ NextRing(t)
  /\ UNCHANGED <<ring, sink, hand, dispatch, received, accepted, delivered>>

\* The source's own ring and rings without a sink are skipped; ring_push
\* treats a packet of length 0 or above SW_PKT_MAX as done.
SkipRing(t) ==
  /\ rx[t].at \in Port
  /\ \/ rx[t].at = Src[t]
     \/ ~sink[rx[t].at]
     \/ ~Valid(rx[t].pkt)
  /\ NextRing(t)
  /\ UNCHANGED <<ring, sink, hand, dispatch, received, accepted, delivered>>

\* A full HaLow ring refuses the packet and the caller sleeps and tries
\* again: no step of the task until a slot is free.
PushRing(t) ==
  LET p   == rx[t].at
      pkt == rx[t].pkt
  IN  /\ p \in Port \ {Src[t]}
      /\ sink[p]
      /\ Valid(pkt)
      /\ RingFull(ring[p]) => DropOk(p)
      /\ ring' = [ring EXCEPT ![p] = RingPush(@, pkt)]
      /\ accepted' = [accepted EXCEPT ![p] = Append(@, pkt)]
      /\ NextRing(t)
      /\ UNCHANGED <<sink, hand, dispatch, received, delivered>>
-----------------------------------------------------------------------------
(* sw_dispatch_task: one pass serves HaLow, then BLE, then TCP.             *)

NextPort == dispatch' = [port |-> (dispatch.port + 1) % 3, calling |-> FALSE]
CallSink == dispatch' = [dispatch EXCEPT !.calling = TRUE]

\* Mutant: a port whose last packet was refused is not served.
DispatchSkipHeld ==
  LET p == dispatch.port
  IN  /\ ~dispatch.calling
      /\ ~sink[p] \/ hand[p] # NoPkt \/ RingEmpty(ring[p])
      /\ NextPort
      /\ UNCHANGED <<ring, sink, hand, rx, received, accepted, delivered>>

DispatchSkip ==
  LET p == dispatch.port
  IN  /\ ~dispatch.calling
      /\ ~sink[p] \/ (hand[p] = NoPkt /\ RingEmpty(ring[p]))
      /\ NextPort
      /\ UNCHANGED <<ring, sink, hand, rx, received, accepted, delivered>>

DispatchPop ==
  LET p == dispatch.port
  IN  /\ ~dispatch.calling
      /\ sink[p]
      /\ hand[p] = NoPkt
      /\ ~RingEmpty(ring[p])
      /\ hand' = [hand EXCEPT ![p] = Oldest(ring[p])]
      /\ ring' = [ring EXCEPT ![p] = RemoveOldest(@)]
      /\ CallSink
      /\ UNCHANGED <<sink, rx, received, accepted, delivered>>

\* s_halow_holding: the held packet is offered again, nothing is popped.
DispatchHeld ==
  LET p == dispatch.port
  IN  /\ ~dispatch.calling
      /\ sink[p]
      /\ hand[p] # NoPkt
      /\ CallSink
      /\ UNCHANGED <<ring, sink, hand, rx, received, accepted, delivered>>

SinkAccepts(p) ==
  /\ dispatch = [port |-> p, calling |-> TRUE]
  /\ delivered' = [delivered EXCEPT ![p] = Append(@, hand[p])]
  /\ hand' = [hand EXCEPT ![p] = NoPkt]
  /\ NextPort
  /\ UNCHANGED <<ring, sink, rx, received, accepted>>

\* Mutant: the radio's refused packet is forgotten like a frame of the air.
SinkRefusesForgets(p) ==
  /\ dispatch = [port |-> p, calling |-> TRUE]
  /\ p # SW_SRC_BLE
  /\ hand' = [hand EXCEPT ![p] = NoPkt]
  /\ NextPort
  /\ UNCHANGED <<ring, sink, rx, received, accepted, delivered>>

\* ble_sink always returns true; halow_sink and tcp_sink may refuse.  HaLow
\* keeps the packet in the hand, TCP puts it back in front of its ring.
SinkRefuses(p) ==
  /\ dispatch = [port |-> p, calling |-> TRUE]
  /\ p # SW_SRC_BLE
  /\ IF DropOk(p)
     THEN /\ ring' = [ring EXCEPT ![p] = RingPushFrontDrop(@, hand[p])]
          /\ hand' = [hand EXCEPT ![p] = NoPkt]
     ELSE UNCHANGED <<ring, hand>>
  /\ NextPort
  /\ UNCHANGED <<sink, rx, received, accepted, delivered>>

Producer(t) == SwitchRx(t) \/ SkipRing(t) \/ PushRing(t)
Dispatcher ==
  \/ DispatchSkip
  \/ DispatchPop
  \/ DispatchHeld
  \/ \E p \in Port : SinkAccepts(p) \/ SinkRefuses(p)

Next ==
  \/ \E p \in Port : RegisterSink(p)
  \/ \E t \in Task : Producer(t)
  \/ Dispatcher

Spec == Init /\ [][Next]_vars

(* Every task that can run does (FreeRTOS time-slices tasks of priority 5), *)
(* boot completes, and a radio that is offered a packet again and again     *)
(* takes it at last.  Nothing is asked of the TCP sink: its client may      *)
(* never come back.  Polling a full ring is only weakly fair; what keeps    *)
(* one poller from starving another is that MaxRx bounds the other's load.  *)
Fairness ==
  /\ \A p \in Port : WF_vars(RegisterSink(p))
  /\ \A t \in Task : WF_vars(SkipRing(t) \/ PushRing(t))
  /\ WF_vars(Dispatcher)
  /\ SF_vars(SinkAccepts(SW_SRC_HALOW))

FairSpec == Spec /\ Fairness
-----------------------------------------------------------------------------
(* What is on its way to a sink, oldest first.                              *)

Contents(r) == [i \in 1..r.count |-> r.slots[(r.tail + i - 1) % SW_RING_SIZE]]
InHand(p)   == IF hand[p] = NoPkt THEN <<>> ELSE <<hand[p]>>
Path(p)     == delivered[p] \o InHand(p) \o Contents(ring[p])

TypeOK ==
  /\ ring \in [Port -> [slots : [0..(SW_RING_SIZE - 1) -> Packet \union {NoPkt}],
                       head  : 0..(SW_RING_SIZE - 1),
                       tail  : 0..(SW_RING_SIZE - 1),
                       count : 0..SW_RING_SIZE]]
  /\ sink \in [Port -> BOOLEAN]
  /\ hand \in [Port -> Packet \union {NoPkt}]
  /\ dispatch \in [port : Port, calling : BOOLEAN]
  /\ rx \in [Task -> [at : Port \union {Idle}, pkt : Packet \union {NoPkt}]]
  /\ received \in [Task -> Seq(Packet)]
  /\ accepted \in [Port -> Seq(Packet)]
  /\ delivered \in [Port -> Seq(Packet)]

(* The three indices of a ring agree: the free-running head is where the    *)
(* tail and the count say it is (switch.c keeps all three).                 *)
RingShape ==
  \A p \in Port : ring[p].head = (ring[p].tail + ring[p].count) % SW_RING_SIZE

(* "No HaLow packet is ever lost" (switch.h:35), inside the switch: every   *)
(* packet the HaLow ring took is, in the order it was taken and once, sunk, *)
(* held or still in the ring, whatever the radio link does.                 *)
HalowLossless == accepted[SW_SRC_HALOW] = Path(SW_SRC_HALOW)

(* The same end to end: for each BLE or TCP task, the packets of it on the  *)
(* HaLow path are exactly the valid ones it has taken past the HaLow ring,  *)
(* in the order the interface received them and once each.                  *)
PastHalow(t) ==
  IF rx[t].at <= SW_SRC_HALOW
  THEN SubSeq(received[t], 1, Len(received[t]) - 1)
  ELSE received[t]

HalowEndToEnd ==
  \A t \in Task : Src[t] # SW_SRC_HALOW =>
    LET path == Path(SW_SRC_HALOW)
        past == PastHalow(t)
        mine == {i \in DOMAIN path : path[i].task = t}
    IN  /\ {path[i] : i \in mine} = {past[n] : n \in {m \in DOMAIN past : Valid(past[m])}}
        /\ \A i, j \in mine : i < j => path[i].n < path[j].n

(* What BLE and TCP lose is old: the SW_RING_SIZE packets accepted last are *)
(* all sunk or still on their way (overwrite-oldest, switch.c:8-10).        *)
FreshestKept ==
  \A p \in Port : \A i \in DOMAIN accepted[p] :
    i + SW_RING_SIZE > Len(accepted[p]) =>
      \E j \in DOMAIN Path(p) : Path(p)[j] = accepted[p][i]

(* The rings, the hand and the dispatch loop implement the abstract channel *)
(* of each sink, with HaLow the reliable one.                               *)
Channel == INSTANCE SwitchChannel WITH
  Reliable <- {SW_SRC_HALOW},
  Capacity <- SW_RING_SIZE,
  chan <- [p \in Port |-> InHand(p) \o Contents(ring[p])],
  out <- delivered

ImplementsChannel == Channel!Spec

(* Back-pressure ends: a task inside switch_rx, even one that found the     *)
(* HaLow ring full, returns from it once the radio answers again.           *)
ProducersUnblock == \A t \in Task : rx[t].at # Idle ~> rx[t].at = Idle

HandedOver(t, n) == n <= Len(received[t]) /\ Valid(received[t][n])
SunkBy(p, t, n) ==
  \E i \in DOMAIN delivered[p] : delivered[p][i].task = t /\ delivered[p][i].n = n

(* Every valid packet from BLE or TCP reaches the radio's sink in the end,  *)
(* even if the TCP client never comes back.                                 *)
HalowDelivers ==
  \A t \in Task : \A n \in 1..MaxRx[t] :
    Src[t] # SW_SRC_HALOW => (HandedOver(t, n) ~> SunkBy(SW_SRC_HALOW, t, n))
-----------------------------------------------------------------------------
(* Said of this code and not so: each is refuted (README, Divergences).     *)

(* switch.h:72-73, "callers must register before the interfaces start       *)
(* producing packets": no interface task is given a packet before the last  *)
(* sink is registered.                                                      *)
RegisteredBeforeTraffic ==
  \A t \in Task, p \in Port : received[t] # <<>> => sink[p]
=============================================================================
