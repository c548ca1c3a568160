---------------------------- MODULE SwitchChannel ---------------------------
(***************************************************************************)
(* What the packet switch promises of each sink, without rings, indices,   *)
(* tasks or a dispatch loop: a queue of packets on their way to the sink.  *)
(* At most Capacity of them wait, one more is being offered.  A reliable   *)
(* port only takes and delivers; any other port makes room by giving up    *)
(* the oldest packet that waits, and never anything else.                  *)
(***************************************************************************)
EXTENDS Naturals, Sequences

CONSTANTS
  Port, Reliable,  (* sinks, and those that must lose nothing               *)
  Capacity,        (* packets that may wait for a sink, at least one        *)
  Packet

VARIABLES
  chan,  (* chan[p]: packets on their way to sink p, oldest first           *)
  out    (* out[p]: packets sink p took responsibility for                  *)

vars == <<chan, out>>

Init ==
  /\ chan = [p \in Port |-> <<>>]
  /\ out = [p \in Port |-> <<>>]

Put(p, pkt) ==
  /\ Len(chan[p]) <= Capacity
  /\ chan' = [chan EXCEPT ![p] = Append(@, pkt)]
  /\ UNCHANGED out

\* With Capacity + 1 packets underway the first is at the sink, not waiting.
OldestWaiting(p) == Len(chan[p]) - Capacity + 1

Without(s, i) == SubSeq(s, 1, i - 1) \o SubSeq(s, i + 1, Len(s))

PutOverOldest(p, pkt) ==
  /\ p \notin Reliable
  /\ Len(chan[p]) >= Capacity
  /\ chan' = [chan EXCEPT ![p] = Append(Without(@, OldestWaiting(p)), pkt)]
  /\ UNCHANGED out

\* A refused packet that finds Capacity newer ones waiting is given up.
GiveUp(p) ==
  /\ p \notin Reliable
  /\ Len(chan[p]) = Capacity + 1
  /\ chan' = [chan EXCEPT ![p] = Tail(@)]
  /\ UNCHANGED out

Take(p) ==
  /\ chan[p] # <<>>
  /\ out' = [out EXCEPT ![p] = Append(@, Head(chan[p]))]
  /\ chan' = [chan EXCEPT ![p] = Tail(@)]

Next ==
  \E p \in Port :
    \/ \E pkt \in Packet : Put(p, pkt) \/ PutOverOldest(p, pkt)
    \/ GiveUp(p)
    \/ Take(p)

Spec == Init /\ [][Next]_vars
=============================================================================
