------------------------------ MODULE HalowLink -----------------------------
(***************************************************************************)
(* The link to the radio (system.c): halow_link_task keeps one TCP socket  *)
(* to the radio open, publishes it in sock_fd and deframes what it reads;  *)
(* the switch's dispatch task calls halow_sink, which looks at sock_fd     *)
(* twice without the mutex, then sends under it.  The radio, the network   *)
(* and the other users of socket numbers are the environment.              *)
(***************************************************************************)
EXTENDS RnsFraming

CONSTANTS
  Fd,         (* socket numbers                                             *)
  NoFd,       (* -1                                                         *)
  RadioFrame, (* the packets the radio sends, in order                      *)
  MaxTx,      (* bound: packets the switch offers to halow_sink             *)
  MaxConn     (* bound: connections the radio accepts                       *)

ASSUME LinkAssumption ==
  /\ NoFd \notin Fd
  /\ RadioFrame \in Seq(Seq(Byte))
  /\ MaxTx \in Nat /\ MaxConn \in Nat

VARIABLES
  link,      (* where halow_link_task is                                    *)
  fd,        (* its local fd                                                *)
  sock_fd,   (* the published socket                                        *)
  mutex,     (* holder of send_mutex                                        *)
  socket,    (* who has opened each socket number                           *)
  alive,     (* the link's TCP connection is established                    *)
  wire,      (* bytes from the radio not yet read on that connection        *)
  rns,       (* the deframer                                                *)
  radioSent, (* packets the radio has sent                                  *)
  up,        (* history: packets handed to switch_rx(SW_SRC_HALOW)          *)
  sink,      (* where halow_sink is                                         *)
  offered,   (* the packet the switch offers, by number                     *)
  sendFd,    (* the socket send() was called with                           *)
  written,   (* history: packets a connection took from send()              *)
  conns      (* connections made                                            *)

linkVars == <<link, fd, sock_fd, alive, wire, rns, radioSent, up, conns>>
sinkVars == <<sink, offered, sendFd, written>>
vars == <<linkVars, sinkVars, mutex, socket>>

Free == "free"
NoTask == "none"

Init ==
  /\ link = "socket" /\ fd = NoFd /\ sock_fd = NoFd /\ mutex = NoTask
  /\ socket = [f \in Fd |-> Free]
  /\ alive = FALSE /\ wire = <<>> /\ rns = EmptyDeframer
  /\ radioSent = 0 /\ up = <<>>
  /\ sink = "idle" /\ offered = 1 /\ sendFd = NoFd /\ written = <<>>
  /\ conns = 0
-----------------------------------------------------------------------------
(* halow_link_task.  A failed socket() or connect() is retried after 1 s:   *)
(* the task is back where it was.                                           *)

LinkSocket ==
  /\ link = "socket"
  /\ \E f \in Fd :
       /\ socket[f] = Free
       /\ socket' = [socket EXCEPT ![f] = "link"]
       /\ fd' = f
  /\ link' = "connect"
  /\ UNCHANGED <<sock_fd, mutex, alive, wire, rns, radioSent, up, conns, sinkVars>>

LinkConnectFails ==
  /\ link = "connect"
  /\ socket' = [socket EXCEPT ![fd] = Free]
  /\ fd' = NoFd
  /\ link' = "socket"
  /\ UNCHANGED <<sock_fd, mutex, alive, wire, rns, radioSent, up, conns, sinkVars>>

\* connect() succeeds, radio_lock_tcp_whitelist() runs for up to 3 s and
\* changes nothing here; then the deframer is reset.
LinkConnect ==
  /\ link = "connect"
  /\ conns < MaxConn
  /\ conns' = conns + 1
  /\ alive' = TRUE
  /\ wire' = <<>>
  /\ link' = "reset"
  /\ UNCHANGED <<fd, sock_fd, mutex, socket, rns, radioSent, up, sinkVars>>

\* Mutant: the deframer survives the reconnection.
LinkKeepsDeframer ==
  /\ link = "reset"
  /\ link' = "publish"
  /\ UNCHANGED <<fd, sock_fd, mutex, socket, alive, wire, rns, radioSent, up, conns, sinkVars>>

LinkReset ==
  /\ link = "reset"
  /\ rns' = EmptyDeframer
  /\ link' = "publish"
  /\ UNCHANGED <<fd, sock_fd, mutex, socket, alive, wire, radioSent, up, conns, sinkVars>>

\* Mutant: the task goes on to recv() without storing the descriptor.
LinkPublishForgets ==
  /\ link = "publish"
  /\ link' = "recv"
  /\ UNCHANGED <<fd, sock_fd, mutex, socket, alive, wire, rns, radioSent, up, conns, sinkVars>>

LinkPublish ==
  /\ link = "publish"
  /\ mutex = NoTask
  /\ sock_fd' = fd
  /\ link' = "recv"
  /\ UNCHANGED <<fd, mutex, socket, alive, wire, rns, radioSent, up, conns, sinkVars>>

LinkRecv ==
  /\ link = "recv"
  /\ wire # <<>>
  /\ rns' = RxByte(rns, Head(wire))
  /\ up' = up \o RxFrame(rns, Head(wire))
  /\ wire' = Tail(wire)
  /\ UNCHANGED <<link, fd, sock_fd, mutex, socket, alive, radioSent, conns, sinkVars>>

LinkRecvEnds ==
  /\ link = "recv"
  /\ wire = <<>> /\ ~alive
  /\ link' = "withdraw"
  /\ UNCHANGED <<fd, sock_fd, mutex, socket, alive, wire, rns, radioSent, up, conns, sinkVars>>

\* Mutant: sock_fd is cleared without send_mutex.
LinkWithdrawUnlocked ==
  /\ link = "withdraw"
  /\ sock_fd' = NoFd
  /\ link' = "close"
  /\ UNCHANGED <<fd, mutex, socket, alive, wire, rns, radioSent, up, conns, sinkVars>>

LinkWithdraw ==
  /\ link = "withdraw"
  /\ mutex = NoTask
  /\ sock_fd' = NoFd
  /\ link' = "close"
  /\ UNCHANGED <<fd, mutex, socket, alive, wire, rns, radioSent, up, conns, sinkVars>>

LinkClose ==
  /\ link = "close"
  /\ socket' = [socket EXCEPT ![fd] = Free]
  /\ fd' = NoFd
  /\ link' = "socket"
  /\ UNCHANGED <<sock_fd, mutex, alive, wire, rns, radioSent, up, conns, sinkVars>>

LinkTask ==
  \/ LinkSocket \/ LinkConnect \/ LinkConnectFails \/ LinkReset \/ LinkPublish
  \/ LinkRecv \/ LinkRecvEnds \/ LinkWithdraw \/ LinkClose
-----------------------------------------------------------------------------
(* halow_sink and system_halow_send, called by the dispatch task with the   *)
(* packet it holds.  Taken: the sink returned true.                         *)

Taken ==
  /\ sink' = "idle"
  /\ offered' = offered + 1
  /\ sendFd' = NoFd

\* system_halow_connected(): with the link down the sink returns false and
\* the switch holds the packet, which changes nothing here.
SinkConnected ==
  /\ sink = "idle"
  /\ offered <= MaxTx
  /\ sock_fd # NoFd
  /\ sink' = "send"
  /\ UNCHANGED <<linkVars, mutex, socket, offered, sendFd, written>>

\* system_halow_send() finds no socket any more and drops the packet; the
\* sink returns true all the same.
SinkNoSocket ==
  /\ sink = "send"
  /\ sock_fd = NoFd
  /\ Taken
  /\ UNCHANGED <<linkVars, mutex, socket, written>>

SinkEncode ==
  /\ sink = "send"
  /\ sock_fd # NoFd
  /\ sink' = "lock"
  /\ UNCHANGED <<linkVars, mutex, socket, offered, sendFd, written>>

SinkLock ==
  /\ sink = "lock"
  /\ mutex = NoTask
  /\ mutex' = "dispatch"
  /\ sendFd' = sock_fd
  /\ sink' = "sending"
  /\ UNCHANGED <<linkVars, socket, offered, written>>

\* Mutants: the sink returns false after sending; it returns with the mutex.
SinkSendRefuses ==
  /\ sink = "sending"
  /\ IF sendFd # NoFd /\ sendFd = fd /\ alive
     THEN written' = Append(written, offered)
     ELSE UNCHANGED written
  /\ mutex' = NoTask
  /\ sink' = "idle" /\ sendFd' = NoFd
  /\ UNCHANGED <<linkVars, socket, offered>>

SinkSendKeepsMutex ==
  /\ sink = "sending"
  /\ written' = Append(written, offered)
  /\ Taken
  /\ UNCHANGED <<linkVars, mutex, socket>>

\* The result of send() is ignored.
SinkSend ==
  /\ sink = "sending"
  /\ IF sendFd # NoFd /\ sendFd = fd /\ alive
     THEN written' = Append(written, offered)
     ELSE UNCHANGED written
  /\ mutex' = NoTask
  /\ Taken
  /\ UNCHANGED <<linkVars, socket>>

Sink == SinkConnected \/ SinkNoSocket \/ SinkEncode \/ SinkLock \/ SinkSend
-----------------------------------------------------------------------------
(* Environment.                                                             *)

RadioSends ==
  /\ alive
  /\ radioSent < Len(RadioFrame)
  /\ radioSent' = radioSent + 1
  /\ wire' = wire \o Encode(RadioFrame[radioSent + 1])
  /\ UNCHANGED <<link, fd, sock_fd, alive, rns, up, conns, sinkVars, mutex, socket>>

\* The connection breaks; what was underway arrives up to some byte.
ConnectionBreaks ==
  /\ alive
  /\ alive' = FALSE
  /\ \E k \in 0..Len(wire) : wire' = SubSeq(wire, 1, k)
  /\ UNCHANGED <<link, fd, sock_fd, rns, radioSent, up, conns, sinkVars, mutex, socket>>

\* Another task (web server, DNS responder, TCP proxy) opens or closes a socket.
OtherOpens ==
  /\ \E f \in Fd : socket[f] = Free /\ socket' = [socket EXCEPT ![f] = "other"]
  /\ UNCHANGED <<linkVars, sinkVars, mutex>>

OtherCloses ==
  /\ \E f \in Fd : socket[f] = "other" /\ socket' = [socket EXCEPT ![f] = Free]
  /\ UNCHANGED <<linkVars, sinkVars, mutex>>

Next ==
  \/ LinkTask \/ Sink
  \/ RadioSends \/ ConnectionBreaks \/ OtherOpens \/ OtherCloses

Spec == Init /\ [][Next]_vars

(* The two tasks run; a connect() that is tried again and again succeeds    *)
(* while the bound lasts; other tasks close their sockets at last, so that  *)
(* socket() finds a free number again and again; the FreeRTOS mutex is      *)
(* handed over in order, so a taker is not passed by.                       *)
Fairness ==
  /\ SF_vars(LinkSocket) /\ SF_vars(LinkConnect)
  /\ WF_vars(LinkReset) /\ WF_vars(LinkRecv) /\ WF_vars(LinkRecvEnds)
  /\ SF_vars(LinkPublish) /\ SF_vars(LinkWithdraw) /\ WF_vars(LinkClose)
  /\ WF_vars(SinkConnected) /\ WF_vars(SinkNoSocket \/ SinkEncode)
  /\ SF_vars(SinkLock) /\ WF_vars(SinkSend)
  /\ WF_vars(OtherCloses)

FairSpec == Spec /\ Fairness
-----------------------------------------------------------------------------
TypeOK ==
  /\ link \in {"socket", "connect", "reset", "publish", "recv", "withdraw", "close"}
  /\ fd \in Fd \union {NoFd} /\ sock_fd \in Fd \union {NoFd}
  /\ fd = NoFd <=> link = "socket"
  /\ sendFd \in Fd \union {NoFd}
  /\ mutex \in {NoTask, "dispatch"}
  /\ socket \in [Fd -> {Free, "link", "other"}]
  /\ alive \in BOOLEAN
  /\ wire \in Seq(Byte)
  /\ rns \in [buf : Seq(Byte), escaped : BOOLEAN]
  /\ radioSent \in 0..Len(RadioFrame)
  /\ up \in Seq(Seq(Byte))
  /\ sink \in {"idle", "send", "lock", "sending"}
  /\ offered \in 1..(MaxTx + 1)
  /\ written \in Seq(1..MaxTx)
  /\ conns \in 0..MaxConn

(* While send() runs its socket number still is the link's: send_mutex      *)
(* keeps halow_link_task from closing it, so the bytes of a packet never go *)
(* into a socket another task got the number of.                            *)
SendOnOwnSocket ==
  sink = "sending" /\ sendFd # NoFd => socket[sendFd] = "link"

(* Packets go to the radio in the order the switch offers them and at most  *)
(* once, over all the connections: the retry in the switch and the recovery *)
(* of the link do not send one again.                                       *)
WrittenOnceInOrder ==
  \A i, j \in DOMAIN written : i < j => written[i] < written[j]

(* What reaches the switch is a whole packet of the radio, in order, even   *)
(* though connections break inside a frame: rns_framing_rx_reset throws the *)
(* torn beginning away.                                                     *)
FramesIntact ==
  \E pos \in [DOMAIN up -> 1..radioSent] :
    /\ \A i \in DOMAIN up : up[i] = RadioFrame[pos[i]]
    /\ \A i, j \in DOMAIN up : i < j => pos[i] < pos[j]

(* A link that stays published drains the switch: each packet the bound     *)
(* admits is taken, none is refused for ever.                               *)
StableLinkDrains ==
  <>[](sock_fd # NoFd) => <>(offered = MaxTx + 1)

(* The link comes back: as long as the radio accepts connections, a broken  *)
(* link is published again.                                                 *)
LinkRecovers ==
  (sock_fd = NoFd /\ conns < MaxConn) ~> sock_fd # NoFd
-----------------------------------------------------------------------------
(* Said of this code and not so: each is refuted (README, Divergences).     *)

(* "No HaLow packet is ever lost" (switch.h:35), where it counts: a packet  *)
(* that halow_sink took has been written to a connection to the radio.      *)
TakenIsWritten ==
  \A n \in 1..(offered - 1) : \E i \in DOMAIN written : written[i] = n
=============================================================================
