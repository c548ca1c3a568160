------------------------------- MODULE MCTasks ------------------------------
(***************************************************************************)
(* The parts of the firmware that are a few tasks around a lock, a handle  *)
(* or a slot, and share no state with each other: the TCP listener that is *)
(* replaced, the TCP clients it accepts (RnsProxy), the BLE transmit path  *)
(* (BleTransmit).  A behaviour runs one of them, and the others stay as    *)
(* they begin.                                                             *)
(***************************************************************************)
EXTENDS RnsListener, Sequences

CONSTANTS
  Client, Fd, NoFd, NoClient,                           (* RnsProxy         *)
  Sender, FlushTask, TX_BUFFER_SIZE, MAX_CHUNK,         (* BleTransmit      *)
  MaxFrames, MaxLinks

VARIABLES
  part,                                                 (* what runs        *)
  owner, conn, session, reading, client_fd,             (* RnsProxy         *)
  s_tcp_client_fd, listen,
  pc, frame, tx_scratch_lock, created, held, mine,      (* BleTransmit      *)
  tx_scratch, tx_buf, tx_mutex, ble_enabled,
  link, links, swept, carried, notified

Proxy    == INSTANCE RnsProxy
Transmit == INSTANCE BleTransmit

ASSUME TasksAssumption ==
  /\ Proxy!ProxyAssumption
  /\ Transmit!TransmitAssumption

proxyVars    == <<owner, conn, session, reading, client_fd, s_tcp_client_fd, listen>>
transmitVars == <<pc, frame, tx_scratch_lock, created, held, mine, tx_scratch, tx_buf,
                  tx_mutex, ble_enabled, link, links, swept, carried, notified>>
tasksVars == <<part, vars, proxyVars, transmitVars>>

\* The listener's configuration where it does not run: one is enough.
ListenerOut == cfg = [enabled |-> FALSE, port |-> CHOOSE p \in Port : TRUE]

TasksInit ==
  /\ part \in {"listener", "proxy", "transmit"}
  /\ Init /\ (part # "listener" => ListenerOut)
  /\ Proxy!Init
  /\ Transmit!Init

In(p, A) == part = p /\ A /\ UNCHANGED part
Listens(A)   == In("listener", A) /\ UNCHANGED <<proxyVars, transmitVars>>
Proxies(A)   == In("proxy", A) /\ UNCHANGED <<vars, transmitVars>>
Transmits(A) == In("transmit", A) /\ UNCHANGED <<vars, proxyVars>>

TasksNext ==
  \/ part = "listener" /\ Next /\ UNCHANGED <<part, proxyVars, transmitVars>>
  \/ part = "proxy" /\ Proxy!Next /\ UNCHANGED <<part, vars, transmitVars>>
  \/ part = "transmit" /\ Transmit!Next /\ UNCHANGED <<part, vars, proxyVars>>

\* The fairness of each part, where it runs.
TasksFairness ==
  /\ WF_tasksVars(Listens(HttpTask)) /\ \A t \in Task : WF_tasksVars(Listens(ListenTask(t)))
  /\ WF_tasksVars(Proxies(Proxy!Listener))
  /\ \A c \in Client : WF_tasksVars(Proxies(Proxy!Session(c)))
  /\ \A s \in Sender : SF_tasksVars(Transmits(Transmit!Send(s) \/ Transmit!Flush(s)))
  /\ SF_tasksVars(Transmits(Transmit!Flush(FlushTask)))
  /\ SF_tasksVars(Transmits(\E t \in Transmit!Caller : Transmit!FlushNotify(t)))

TasksSpec == TasksInit /\ [][TasksNext]_tasksVars /\ TasksFairness
-----------------------------------------------------------------------------
(* The properties of the parts; a part that does not run has them as it     *)
(* begins.                                                                  *)

(* RnsProxy: a dead client does not keep the slot (rns_proxy.c).            *)
SlotHeals == Proxy!SlotHeals

(* RnsProxy: of two clients that are connected, one is dropped              *)
(* (rns_proxy.c).                                                           *)
SingleClient == Proxy!SingleClient

(* BleTransmit: what a central is notified of are whole frames (ble.c).     *)
FrameAtomic == Transmit!FrameAtomic

(* BleTransmit: no frame is sent twice, and those of a task keep their      *)
(* order (ble.c).                                                           *)
SentOnceInOrder == Transmit!SentOnceInOrder

(* BleTransmit: send_kiss returns (kiss.c, ble.c).                          *)
SendersReturn == Transmit!SendersReturn

(* BleTransmit: what is buffered for a link that stays up is sent (ble.c).  *)
StableLinkFlushes == Transmit!StableLinkFlushes
=============================================================================
