---------------------------- MODULE TasksProofs -----------------------------
(***************************************************************************)
(* Theorems about the parts that are a few tasks around a handle, a slot   *)
(* or a lock: the listener that is replaced (RnsListener), the clients it  *)
(* accepts (RnsProxy) and the BLE transmit path (BleTransmit), for any     *)
(* tasks, clients, socket numbers, buffers and numbers of links.           *)
(***************************************************************************)
EXTENDS MCTasks, SequenceTheorems, TLAPS
-----------------------------------------------------------------------------
(* Restarting the listener.  As long as nothing failed and no round of a    *)
(* listener took longer than the restart waits, the handle names the only   *)
(* listener there is.                                                       *)

Smooth == fails = 0 /\ slow = 0

\* The listener the handle names is the only one; one that was asked to go, or
\* goes, is waited for; and a restart goes on only without one.
Orderly ==
  Smooth =>
    /\ \A t \in Task : t \in Alive <=> t = s_listen_task
    /\ http \in {"read", "start"} => s_listen_task = NULL
    /\ http = "start" => cfg.enabled
    /\ \A t \in Alive : s_restart_req \/ at[t] = "close" => http = "wait"
    /\ http = "idle" =>
         /\ s_listen_task # NULL <=> cfg.enabled
         /\ \A t \in Alive : at[t] = "open" \/ port[t] = cfg.port

ListenInv == TypeOK /\ Orderly

LEMMA HttpTypes ==
  ASSUME ListenerAssumption, TypeOK, HttpTask \/ \E c \in Config : Restart(c)
  PROVE  TypeOK'
<1>. USE DEF ListenerAssumption, TypeOK
<1>1. CASE \E c \in Config : Restart(c)
  BY <1>1 DEF Restart
<1>2. CASE WaitEnds \/ ReadsEnabled
  BY <1>2 DEF WaitEnds, ReadsEnabled
<1>3. CASE WaitTimesOut
  BY <1>3 DEF WaitTimesOut
<1>4. CASE StartListener
  <2>1. fails' \in 0..MaxFail
    BY <1>4 DEF StartListener
  <2>. QED  BY <1>4, <2>1 DEF StartListener
<1>. QED  BY <1>1, <1>2, <1>3, <1>4 DEF HttpTask

LEMMA ListenTypes ==
  ASSUME ListenerAssumption, TypeOK, NEW t \in Task, ListenTask(t)
  PROVE  TypeOK'
<1>. USE DEF ListenerAssumption, TypeOK
<1>1. CASE Opens(t)
  <2>1. cfg.port \in Port
    BY DEF Config
  <2>. QED  BY <1>1, <2>1 DEF Opens
<1>2. CASE OpenFails(t)
  <2>1. fails' \in 0..MaxFail
    BY <1>2 DEF OpenFails
  <2>. QED  BY <1>2, <2>1 DEF OpenFails
<1>3. CASE Accepts(t) \/ Serves(t) \/ Stops(t)
  BY <1>3 DEF Accepts, Serves, Stops
<1>4. CASE Exits(t)
  BY <1>4 DEF Exits
<1>. QED  BY <1>1, <1>2, <1>3, <1>4 DEF ListenTask

(* A restart goes on when the old listener is gone, and starts one if the   *)
(* configuration says so.                                                   *)
LEMMA HttpOrderly ==
  ASSUME ListenerAssumption, ListenInv, HttpTask \/ \E c \in Config : Restart(c)
  PROVE  Orderly'
<1>. USE DEF ListenerAssumption, ListenInv, TypeOK, Orderly, Smooth, Alive
<1>1. CASE \E c \in Config : Restart(c)
  BY <1>1 DEF Restart
<1>2. CASE WaitEnds
  BY <1>2 DEF WaitEnds
<1>3. CASE WaitTimesOut
  BY <1>3 DEF WaitTimesOut
<1>4. CASE ReadsEnabled
  BY <1>4 DEF ReadsEnabled
<1>5. CASE StartListener
  <2>1. CASE UNCHANGED fails
    BY <1>5, <2>1 DEF StartListener
  <2>2. CASE fails' = fails + 1
    BY <2>2
  <2>. QED  BY <1>5, <2>1, <2>2 DEF StartListener
<1>. QED  BY <1>1, <1>2, <1>3, <1>4, <1>5 DEF HttpTask

(* A listener alone finds its port free, and goes only when it is waited    *)
(* for.                                                                     *)
LEMMA ListenOrderly ==
  ASSUME ListenerAssumption, ListenInv, NEW t \in Task, ListenTask(t)
  PROVE  Orderly'
<1>. USE DEF ListenerAssumption, ListenInv, TypeOK, Orderly, Smooth, Alive
<1>1. CASE Opens(t)
  BY <1>1 DEF Opens
<1>2. CASE OpenFails(t)
  <2>1. CASE Smooth /\ UNCHANGED fails
    <3>1. PICK u \in Listening(cfg.port) : TRUE
      BY <1>2, <2>1 DEF OpenFails
    <3>2. u \in Task /\ u # t /\ u \in Alive /\ t \in Alive
      BY <1>2, <3>1 DEF OpenFails, Listening
    <3>. QED  BY <2>1, <3>2
  <2>2. CASE ~Smooth /\ UNCHANGED fails
    BY <1>2, <2>2 DEF OpenFails
  <2>3. CASE fails' = fails + 1
    BY <2>3
  <2>. QED  BY <1>2, <2>1, <2>2, <2>3 DEF OpenFails
<1>3. CASE Accepts(t) \/ Serves(t)
  BY <1>3 DEF Accepts, Serves
<1>4. CASE Stops(t)
  BY <1>4 DEF Stops
<1>5. CASE Exits(t)
  BY <1>5 DEF Exits
<1>. QED  BY <1>1, <1>2, <1>3, <1>4, <1>5 DEF ListenTask

LEMMA ListenInvariance == Spec => []ListenInv
<1>. USE ListenerAssumption
<1>1. Init => ListenInv
  <2>. SUFFICES ASSUME Init PROVE ListenInv
    OBVIOUS
  <2>1. TypeOK
    <3>1. cfg \in Config /\ cfg.port \in Port /\ port \in [Task -> Port]
      BY DEF Init, Config
    <3>2. 0 \in 0..MaxSlow /\ 0 \in 0..MaxFail
      BY DEF ListenerAssumption
    <3>. QED  BY <3>1, <3>2 DEF Init, TypeOK
  <2>2. Orderly
    BY DEF Init, Orderly, Alive, ListenerAssumption
  <2>. QED  BY <2>1, <2>2 DEF ListenInv
<1>2. ListenInv /\ [Next]_vars => ListenInv'
  <2>. SUFFICES ASSUME ListenInv, [Next]_vars PROVE ListenInv'
    OBVIOUS
  <2>1. CASE UNCHANGED vars
    BY <2>1 DEF ListenInv, TypeOK, Orderly, Smooth, Alive, vars
  <2>. QED
    BY <2>1, HttpTypes, HttpOrderly, ListenTypes, ListenOrderly DEF Next, ListenInv
<1>. QED  BY <1>1, <1>2, PTL DEF Spec
-----------------------------------------------------------------------------
(* The variables of rns_proxy.c keep their types, and s_listen_task never   *)
(* names a task that has ended, so that nobody waits for one.               *)
THEOREM HandleIsLive == Spec => []TypeOK
<1>1. ListenInv => TypeOK
  BY DEF ListenInv
<1>. QED  BY <1>1, ListenInvariance, PTL

(* rns_proxy_restart applies the configuration whenever nothing failed and  *)
(* no listener was slow, for any number of restarts (rns_proxy.c:386-440).  *)
THEOREM RestartWorks == Spec => []RestartApplies
<1>1. ListenInv => RestartApplies
  <2>. SUFFICES ASSUME ListenInv, http = "idle", Smooth
                PROVE  /\ Alive = IF cfg.enabled THEN {s_listen_task} ELSE {}
                       /\ \A t \in Alive :
                            at[t] = "open" \/ (port[t] = cfg.port /\ at[t] # "close")
    BY DEF RestartApplies, Smooth
  <2>. USE ListenerAssumption DEF ListenInv, Orderly, ListenerAssumption
  <2>1. s_listen_task # NULL <=> cfg.enabled
    OBVIOUS
  <2>2. Alive \subseteq Task
    BY DEF Alive
  <2>3. \A t \in Task : t \in Alive <=> t = s_listen_task
    OBVIOUS
  <2>4. s_listen_task \in Task \union {NULL}
    BY DEF TypeOK
  <2>5. Alive = IF cfg.enabled THEN {s_listen_task} ELSE {}
    BY <2>1, <2>2, <2>3, <2>4
  <2>6. \A t \in Alive : at[t] # "close"
    OBVIOUS
  <2>. QED  BY <2>5, <2>6
<1>. QED  BY <1>1, ListenInvariance, PTL
-----------------------------------------------------------------------------
(* The TCP clients.                                                         *)

\* Outside select() the listener has a client in hand; it and every session
\* have a number.
ProxyInv ==
  /\ Proxy!TypeOK
  /\ listen.at # "select" => listen.client \in Client /\ client_fd[listen.client] \in Fd
  /\ \A c \in Client : session[c] # "none" => client_fd[c] \in Fd

(* close() and shutdown() keep the types, whoever has the number now.       *)
LEMMA ProxyCloses ==
  ASSUME Proxy!TypeOK, NEW f
  PROVE  /\ Proxy!Ended(f) \in [Client -> {"away", "open", "over"}]
         /\ [owner EXCEPT ![f] = Proxy!Free] \in [Fd -> Client \union {Proxy!Free, Proxy!Other}]
  BY DEF Proxy!TypeOK, Proxy!Ended

LEMMA ProxyListens ==
  ASSUME Proxy!ProxyAssumption, ProxyInv, Proxy!Listener \/ \E c \in Client : Proxy!Accept(c)
  PROVE  ProxyInv'
<1>. USE DEF Proxy!ProxyAssumption, ProxyInv, Proxy!TypeOK, Proxy!sessionVars
<1>1. ASSUME NEW c \in Client, Proxy!Accept(c)
      PROVE  ProxyInv'
  <2>1. PICK f \in Fd : /\ owner' = [owner EXCEPT ![f] = c]
                        /\ client_fd' = [client_fd EXCEPT ![c] = f]
    BY <1>1 DEF Proxy!Accept
  <2>2. listen' = [listen EXCEPT !.at = "admit", !.client = c]
    BY <1>1 DEF Proxy!Accept
  <2>3. listen' \in [at : {"select", "admit", "shutdown", "close", "spawn", "clear"},
                     client : Client \union {NoClient}, prev : Fd \union {NoFd}]
        /\ listen'.at = "admit" /\ listen'.client = c
    BY <2>2
  <2>4. owner' \in [Fd -> Client \union {Proxy!Free, Proxy!Other}]
    BY <2>1
  <2>5. client_fd' \in [Client -> Fd \union {NoFd}] /\ client_fd'[c] \in Fd
        /\ \A d \in Client : client_fd[d] \in Fd => client_fd'[d] \in Fd
    BY <2>1
  <2>6. conn' \in [Client -> {"away", "open", "over"}]
        /\ UNCHANGED <<Proxy!sessionVars, s_tcp_client_fd>>
    BY <1>1 DEF Proxy!Accept
  <2>. QED  BY <2>3, <2>4, <2>5, <2>6
<1>2. CASE Proxy!Reject
  BY <1>2, ProxyCloses DEF Proxy!Reject, Proxy!Close, Proxy!Waiting
<1>3. CASE Proxy!TakeSlot
  <2>1. Proxy!NewFd \in Fd \union {NoFd}
    BY <1>3 DEF Proxy!TakeSlot, Proxy!New, Proxy!NewFd
  <2>2. CASE s_tcp_client_fd # NoFd
    BY <1>3, <2>1, <2>2 DEF Proxy!TakeSlot
  <2>3. CASE s_tcp_client_fd = NoFd
    BY <1>3, <2>1, <2>3 DEF Proxy!TakeSlot
  <2>. QED  BY <2>2, <2>3
<1>4. CASE Proxy!ShutdownPrevious
  BY <1>4, ProxyCloses DEF Proxy!ShutdownPrevious
<1>5. CASE Proxy!ClosePrevious
  BY <1>5, ProxyCloses DEF Proxy!ClosePrevious, Proxy!Close
<1>6. CASE Proxy!Spawn
  BY <1>6 DEF Proxy!Spawn, Proxy!New, Proxy!Waiting
<1>7. CASE Proxy!SpawnFails
  BY <1>7, ProxyCloses DEF Proxy!SpawnFails, Proxy!Close
<1>8. CASE Proxy!ClearSlot
  BY <1>8 DEF Proxy!ClearSlot, Proxy!Waiting
<1>. QED  BY <1>1, <1>2, <1>3, <1>4, <1>5, <1>6, <1>7, <1>8 DEF Proxy!Listener

LEMMA ProxySessions ==
  ASSUME Proxy!ProxyAssumption, ProxyInv, NEW c \in Client,
         \/ Proxy!Session(c) \/ Proxy!ConnectionEnds(c)
         \/ Proxy!SessionReads(c) \/ Proxy!OtherEnds(c)
  PROVE  ProxyInv'
<1>. USE DEF Proxy!ProxyAssumption, ProxyInv, Proxy!TypeOK, Proxy!sessionVars
<1>1. CASE Proxy!SessionReads(c) \/ Proxy!SessionEnds(c) \/ Proxy!OtherEnds(c)
  BY <1>1 DEF Proxy!SessionReads, Proxy!SessionEnds, Proxy!OtherEnds, Proxy!RecvReturns
<1>2. CASE Proxy!SessionDetach(c)
  BY <1>2 DEF Proxy!SessionDetach
<1>3. CASE Proxy!SessionClose(c)
  BY <1>3, ProxyCloses DEF Proxy!SessionClose, Proxy!Close
<1>4. CASE Proxy!ConnectionEnds(c)
  BY <1>4 DEF Proxy!ConnectionEnds
<1>5. CASE Proxy!SessionRecv(c)
  <2>1. CASE owner[client_fd[c]] = Proxy!Free
    BY <1>5, <2>1 DEF Proxy!SessionRecv
  <2>2. CASE owner[client_fd[c]] # Proxy!Free
    BY <1>5, <2>2 DEF Proxy!SessionRecv
  <2>. QED  BY <2>1, <2>2
<1>. QED  BY <1>1, <1>2, <1>3, <1>4, <1>5 DEF Proxy!Session

LEMMA ProxyOthers ==
  ASSUME ProxyInv, (\E f \in Fd : Proxy!OtherOpens(f) \/ Proxy!OtherCloses(f)) \/ UNCHANGED Proxy!vars
  PROVE  ProxyInv'
  BY DEF ProxyInv, Proxy!TypeOK, Proxy!OtherOpens, Proxy!OtherCloses, Proxy!vars, Proxy!sessionVars

(* Every variable of rns_proxy.c keeps its type; what the listener shuts    *)
(* down and closes for a new client is a number it found in the slot, never *)
(* -1 (rns_proxy.c:340-382).                                                *)
THEOREM TypeCorrect ==
  ASSUME Proxy!ProxyAssumption
  PROVE  Proxy!Spec => []Proxy!TypeOK
<1>1. Proxy!Init => ProxyInv
  BY DEF Proxy!Init, ProxyInv, Proxy!TypeOK, Proxy!Waiting, Proxy!ProxyAssumption
<1>2. ProxyInv /\ [Proxy!Next]_(Proxy!vars) => ProxyInv'
  BY ProxyListens, ProxySessions, ProxyOthers DEF Proxy!Next
<1>3. ProxyInv => Proxy!TypeOK
  BY DEF ProxyInv
<1>. QED  BY <1>1, <1>2, <1>3, PTL DEF Proxy!Spec
-----------------------------------------------------------------------------
(* Sequences: what is appended, and a sequence cut in two.                  *)

LEMMA Appended ==
  ASSUME NEW S, NEW a \in Seq(S), NEW b \in Seq(S)
  PROVE  /\ a \o b \in Seq(S) /\ Len(a) \in Nat /\ Len(b) \in Nat
         /\ Len(a \o b) = Len(a) + Len(b)
         /\ DOMAIN a = 1..Len(a) /\ DOMAIN b = 1..Len(b)
         /\ DOMAIN (a \o b) = 1..(Len(a) + Len(b))
         /\ \A i \in 1..Len(a) : (a \o b)[i] = a[i]
         /\ \A i \in (Len(a) + 1)..(Len(a) + Len(b)) : (a \o b)[i] = b[i - Len(a)]
  OBVIOUS

LEMMA Cut ==
  ASSUME NEW S, NEW b \in Seq(S), NEW n \in 0..Len(b)
  PROVE  /\ SubSeq(b, 1, n) \in Seq(S) /\ Len(SubSeq(b, 1, n)) = n
         /\ \A i \in 1..n : SubSeq(b, 1, n)[i] = b[i]
         /\ SubSeq(b, n + 1, Len(b)) \in Seq(S) /\ Len(SubSeq(b, n + 1, Len(b))) = Len(b) - n
         /\ \A i \in 1..(Len(b) - n) : SubSeq(b, n + 1, Len(b))[i] = b[n + i]
  OBVIOUS

LEMMA Rejoined ==
  ASSUME NEW S, NEW a \in Seq(S), NEW b \in Seq(S), NEW n \in 0..Len(b)
  PROVE  /\ (a \o SubSeq(b, 1, n)) \o SubSeq(b, n + 1, Len(b)) = a \o b
         /\ SubSeq(b, 1, n) \o SubSeq(b, n + 1, Len(b)) = b
<1>. DEFINE c == SubSeq(b, 1, n)
            d == SubSeq(b, n + 1, Len(b))
<1>1. /\ c \in Seq(S) /\ Len(c) = n /\ \A i \in 1..n : c[i] = b[i]
      /\ d \in Seq(S) /\ Len(d) = Len(b) - n /\ \A i \in 1..(Len(b) - n) : d[i] = b[n + i]
  BY Cut
<1>. HIDE DEF c, d
<1>2. c \o d = b
  <2>. DEFINE e == c \o d
  <2>0. Len(b) \in Nat /\ n \in Nat /\ n <= Len(b) /\ n + (Len(b) - n) = Len(b)
    OBVIOUS
  <2>1. e \in Seq(S) /\ Len(e) = Len(b)
    BY <1>1, <2>0
  <2>2. /\ \A i \in 1..Len(c) : e[i] = c[i]
        /\ \A i \in (Len(c) + 1)..(Len(c) + Len(d)) : e[i] = d[i - Len(c)]
    BY <1>1, Appended
  <2>. HIDE DEF e
  <2>3. \A i \in 1..Len(b) : e[i] = b[i]
    <3>. SUFFICES ASSUME NEW i \in 1..Len(b)
                  PROVE  e[i] = b[i]
      OBVIOUS
    <3>1. CASE i <= n
      BY <1>1, <2>0, <2>2, <3>1
    <3>2. CASE i > n
      <4>1. i \in (n + 1)..(n + (Len(b) - n)) /\ i - n \in 1..(Len(b) - n) /\ n + (i - n) = i
        BY <2>0, <3>2
      <4>2. e[i] = d[i - n]
        BY <1>1, <2>2, <4>1
      <4>. QED  BY <1>1, <4>1, <4>2
    <3>3. i <= n \/ i > n
      BY <2>0
    <3>. QED  BY <3>1, <3>2, <3>3
  <2>4. e = b
    BY <2>1, <2>3, SeqEqual
  <2>. QED  BY <2>4 DEF e
<1>3. (a \o c) \o d = a \o (c \o d)
  BY <1>1
<1>. QED  BY <1>2, <1>3 DEF c, d
-----------------------------------------------------------------------------
(* BLE transmit: whole frames and their order, in bytes cut and joined.     *)

\* What stands in tx_scratch and tx_buf: a byte of a frame, or none yet.
Letter == (Transmit!Caller \X Nat) \X {"head", "tail", "none"}

LEMMA WholeStart ==
  ASSUME NEW S, NEW a \in Seq(S), NEW b \in Seq(S), Transmit!Whole(a \o b)
  PROVE  Transmit!Whole(a)
<1>1. \A i \in DOMAIN a : i \in DOMAIN (a \o b) /\ a[i] = (a \o b)[i]
  BY Appended
<1>2. Len(a) \in Nat /\ DOMAIN a = 1..Len(a)
  BY Appended
<1>3. \A i \in DOMAIN a : i % 2 = 1 \/ i - 1 \in DOMAIN a
  BY <1>2
<1>. QED  BY <1>1, <1>3 DEF Transmit!Whole

LEMMA Parity ==
  ASSUME NEW m \in Nat, m % 2 = 0, NEW i \in Nat, i >= m
  PROVE  (i - m) % 2 = i % 2
  OBVIOUS

LEMMA WholeJoin ==
  ASSUME NEW S, NEW a \in Seq(S), NEW b \in Seq(S), Len(a) % 2 = 0,
         Transmit!Whole(a), Transmit!Whole(b)
  PROVE  Transmit!Whole(a \o b)
<1>. DEFINE c == a \o b
<1>1. /\ Len(a) \in Nat /\ Len(b) \in Nat /\ DOMAIN c = 1..(Len(a) + Len(b))
      /\ DOMAIN a = 1..Len(a) /\ DOMAIN b = 1..Len(b)
      /\ \A i \in 1..Len(a) : c[i] = a[i]
      /\ \A i \in (Len(a) + 1)..(Len(a) + Len(b)) : c[i] = b[i - Len(a)]
  BY Appended
<1>. HIDE DEF c
<1>. SUFFICES ASSUME NEW i \in DOMAIN c
              PROVE  c[i] = IF i % 2 = 1 THEN <<c[i][1], "head">> ELSE <<c[i - 1][1], "tail">>
  BY DEF Transmit!Whole, c
<1>2. CASE i <= Len(a)
  <2>1. i \in DOMAIN a /\ c[i] = a[i] /\ (i % 2 = 1 \/ c[i - 1] = a[i - 1])
    BY <1>1, <1>2
  <2>. QED  BY <2>1 DEF Transmit!Whole
<1>3. CASE i > Len(a)
  <2>. DEFINE j == i - Len(a)
  <2>0. i \in Nat /\ i <= Len(a) + Len(b)
    BY <1>1
  <2>1. j \in Nat /\ j >= 1 /\ j <= Len(b) /\ i = j + Len(a)
    BY <1>1, <1>3, <2>0
  <2>2. j \in DOMAIN b /\ c[i] = b[j]
    BY <1>1, <1>3, <2>0, <2>1
  <2>3. j % 2 = i % 2
    BY <1>1, <1>3, <2>0, Parity
  <2>. HIDE DEF j
  <2>4. j % 2 = 1 \/ c[i - 1] = b[j - 1]
    <3>. SUFFICES ASSUME j # 1 PROVE c[i - 1] = b[j - 1]
      OBVIOUS
    <3>1. i - 1 \in (Len(a) + 1)..(Len(a) + Len(b)) /\ (i - 1) - Len(a) = j - 1
      BY <1>1, <2>1
    <3>. QED  BY <1>1, <3>1
  <2>5. b[j] = IF j % 2 = 1 THEN <<b[j][1], "head">> ELSE <<b[j - 1][1], "tail">>
    BY <2>2 DEF Transmit!Whole
  <2>. QED  BY <2>2, <2>3, <2>4, <2>5
<1>. QED  BY <1>1, <1>2, <1>3

LEMMA WholeFrame ==
  ASSUME NEW f
  PROVE  /\ Transmit!Whole(Transmit!Bytes(f)) /\ Len(Transmit!Bytes(f)) = 2
         /\ Transmit!Whole(<<>>)
<1>. DEFINE b == Transmit!Bytes(f)
<1>1. DOMAIN b = {1, 2} /\ Len(b) = 2 /\ b[1] = <<f, "head">> /\ b[2] = <<f, "tail">>
  BY DEF Transmit!Bytes
<1>2. 1 % 2 = 1 /\ 2 % 2 = 0 /\ 2 - 1 = 1
  OBVIOUS
<1>. HIDE DEF b
<1>3. Transmit!Whole(b)
  BY <1>1, <1>2 DEF Transmit!Whole
<1>4. Transmit!Whole(<<>>)
  BY DEF Transmit!Whole
<1>. QED  BY <1>1, <1>3, <1>4 DEF b

LEMMA HeadsApart ==
  ASSUME NEW S, NEW a \in Seq(S), NEW b \in Seq(S), NEW i \in Transmit!Heads(a \o b)
  PROVE  \/ i \in Transmit!Heads(a) /\ (a \o b)[i] = a[i]
         \/ i > Len(a) /\ i - Len(a) \in Transmit!Heads(b) /\ (a \o b)[i] = b[i - Len(a)]
<1>. DEFINE c == a \o b
<1>1. /\ Len(a) \in Nat /\ Len(b) \in Nat /\ DOMAIN c = 1..(Len(a) + Len(b))
      /\ DOMAIN a = 1..Len(a) /\ DOMAIN b = 1..Len(b)
      /\ \A k \in 1..Len(a) : c[k] = a[k]
      /\ \A k \in (Len(a) + 1)..(Len(a) + Len(b)) : c[k] = b[k - Len(a)]
  BY Appended
<1>2. i \in DOMAIN c /\ c[i][2] = "head"
  BY DEF Transmit!Heads
<1>. HIDE DEF c
<1>3. CASE i <= Len(a)
  BY <1>1, <1>2, <1>3 DEF Transmit!Heads, c
<1>4. CASE i > Len(a)
  BY <1>1, <1>2, <1>4 DEF Transmit!Heads, c
<1>. QED  BY <1>1, <1>2, <1>3, <1>4

LEMMA PrecedesBoth ==
  ASSUME NEW S, NEW a \in Seq(S), NEW b \in Seq(S), NEW c \in Seq(S)
  PROVE  /\ Transmit!Precedes(a, b) /\ Transmit!Precedes(a, c) => Transmit!Precedes(a, b \o c)
         /\ Transmit!Precedes(a, c) /\ Transmit!Precedes(b, c) => Transmit!Precedes(a \o b, c)
<1>1. ASSUME Transmit!Precedes(a, b), Transmit!Precedes(a, c)
      PROVE  Transmit!Precedes(a, b \o c)
  <2>. SUFFICES ASSUME NEW i \in Transmit!Heads(a), NEW j \in Transmit!Heads(b \o c)
                PROVE  Transmit!Before(a[i][1], (b \o c)[j][1])
    BY DEF Transmit!Precedes
  <2>1. \/ j \in Transmit!Heads(b) /\ (b \o c)[j] = b[j]
        \/ j - Len(b) \in Transmit!Heads(c) /\ (b \o c)[j] = c[j - Len(b)]
    BY HeadsApart
  <2>. QED  BY <1>1, <2>1 DEF Transmit!Precedes
<1>2. ASSUME Transmit!Precedes(a, c), Transmit!Precedes(b, c)
      PROVE  Transmit!Precedes(a \o b, c)
  <2>. SUFFICES ASSUME NEW i \in Transmit!Heads(a \o b), NEW j \in Transmit!Heads(c)
                PROVE  Transmit!Before((a \o b)[i][1], c[j][1])
    BY DEF Transmit!Precedes
  <2>1. \/ i \in Transmit!Heads(a) /\ (a \o b)[i] = a[i]
        \/ i - Len(a) \in Transmit!Heads(b) /\ (a \o b)[i] = b[i - Len(a)]
    BY HeadsApart
  <2>. QED  BY <1>2, <2>1 DEF Transmit!Precedes
<1>. QED  BY <1>1, <1>2

LEMMA InOrderJoin ==
  ASSUME NEW S, NEW a \in Seq(S), NEW b \in Seq(S),
         Transmit!InOrder(a), Transmit!InOrder(b), Transmit!Precedes(a, b)
  PROVE  Transmit!InOrder(a \o b)
<1>. DEFINE c == a \o b
<1>. SUFFICES ASSUME NEW i \in Transmit!Heads(c), NEW j \in Transmit!Heads(c), i < j
              PROVE  Transmit!Before(c[i][1], c[j][1])
  BY DEF Transmit!InOrder
<1>1. /\ \/ i \in Transmit!Heads(a) /\ c[i] = a[i]
         \/ i > Len(a) /\ i - Len(a) \in Transmit!Heads(b) /\ c[i] = b[i - Len(a)]
      /\ \/ j \in Transmit!Heads(a) /\ c[j] = a[j]
         \/ j > Len(a) /\ j - Len(a) \in Transmit!Heads(b) /\ c[j] = b[j - Len(a)]
  BY HeadsApart
<1>2. i \in Nat /\ j \in Nat /\ Len(a) \in Nat /\ \A k \in Transmit!Heads(a) : k \in 1..Len(a)
  BY Appended DEF Transmit!Heads
<1>. HIDE DEF c
<1>3. CASE j \in Transmit!Heads(a) /\ c[j] = a[j]
  <2>1. i \in Transmit!Heads(a) /\ c[i] = a[i]
    BY <1>1, <1>2, <1>3
  <2>. QED  BY <1>3, <2>1 DEF Transmit!InOrder
<1>4. CASE j > Len(a) /\ j - Len(a) \in Transmit!Heads(b) /\ c[j] = b[j - Len(a)]
  <2>1. CASE i \in Transmit!Heads(a) /\ c[i] = a[i]
    BY <1>4, <2>1 DEF Transmit!Precedes
  <2>2. CASE i > Len(a) /\ i - Len(a) \in Transmit!Heads(b) /\ c[i] = b[i - Len(a)]
    <3>1. i - Len(a) < j - Len(a)
      BY <1>2
    <3>. QED  BY <1>4, <2>2, <3>1 DEF Transmit!InOrder
  <2>. QED  BY <1>1, <2>1, <2>2
<1>. QED  BY <1>1, <1>3, <1>4

LEMMA OrderCut ==
  ASSUME NEW S, NEW b \in Seq(S), NEW n \in 0..Len(b)
  PROVE  LET c == SubSeq(b, 1, n)
             d == SubSeq(b, n + 1, Len(b))
         IN  /\ \A i \in Transmit!Heads(c) : i \in Transmit!Heads(b) /\ c[i] = b[i] /\ i <= n
             /\ \A i \in Transmit!Heads(d) : n + i \in Transmit!Heads(b) /\ d[i] = b[n + i] /\ i > 0
             /\ Transmit!InOrder(b) =>
                  Transmit!InOrder(c) /\ Transmit!InOrder(d) /\ Transmit!Precedes(c, d)
             /\ \A a : Transmit!Precedes(a, b) =>
                  Transmit!Precedes(a, c) /\ Transmit!Precedes(a, d)
<1>. DEFINE c == SubSeq(b, 1, n)
            d == SubSeq(b, n + 1, Len(b))
<1>1. /\ c \in Seq(S) /\ Len(c) = n /\ \A i \in 1..n : c[i] = b[i]
      /\ d \in Seq(S) /\ Len(d) = Len(b) - n /\ \A i \in 1..(Len(b) - n) : d[i] = b[n + i]
      /\ Len(b) \in Nat /\ n \in Nat /\ n <= Len(b)
  BY Cut
<1>2. DOMAIN c = 1..n /\ DOMAIN d = 1..(Len(b) - n) /\ DOMAIN b = 1..Len(b)
  BY <1>1
<1>. HIDE DEF c, d
<1>3. \A i \in Transmit!Heads(c) : i \in Nat /\ i \in Transmit!Heads(b) /\ c[i] = b[i] /\ i <= n
  BY <1>1, <1>2 DEF Transmit!Heads
<1>4. \A i \in Transmit!Heads(d) : i \in Nat /\ n + i \in Transmit!Heads(b) /\ d[i] = b[n + i] /\ i > 0
  BY <1>1, <1>2 DEF Transmit!Heads
<1>5. ASSUME Transmit!InOrder(b)
      PROVE  Transmit!InOrder(c) /\ Transmit!InOrder(d) /\ Transmit!Precedes(c, d)
  <2>1. Transmit!InOrder(c)
    BY <1>3, <1>5 DEF Transmit!InOrder
  <2>2. \A i, j \in Transmit!Heads(d) : i < j => n + i < n + j
    BY <1>1, <1>4
  <2>3. Transmit!InOrder(d)
    BY <1>4, <1>5, <2>2 DEF Transmit!InOrder
  <2>4. \A i \in Transmit!Heads(c), j \in Transmit!Heads(d) : i < n + j
    BY <1>1, <1>3, <1>4
  <2>5. Transmit!Precedes(c, d)
    BY <1>3, <1>4, <1>5, <2>4 DEF Transmit!InOrder, Transmit!Precedes
  <2>. QED  BY <2>1, <2>3, <2>5
<1>6. ASSUME NEW a, Transmit!Precedes(a, b)
      PROVE  Transmit!Precedes(a, c) /\ Transmit!Precedes(a, d)
  BY <1>3, <1>4, <1>6 DEF Transmit!Precedes
<1>. QED  BY <1>3, <1>4, <1>5, <1>6 DEF c, d
-----------------------------------------------------------------------------
(* BLE transmit: the inductive invariant.                                   *)

TransmitTyped ==
  /\ pc \in [Transmit!Caller -> {"idle", "create", "load", "take"} \union Transmit!Building]
  /\ frame \in [Sender -> Nat]
  /\ tx_scratch \in Seq(Letter) /\ Len(tx_scratch) = 2
  /\ tx_buf \in Seq(Letter)
  /\ links \in 0..MaxLinks /\ link \in {Transmit!LinkDown, links}
  /\ swept \in {"no", "passed", "emptied"} /\ carried \in BOOLEAN
  /\ notified \in [1..MaxLinks -> Seq(Letter)]
  /\ \A l \in 1..MaxLinks : l > links => notified[l] = <<>>

LocksTyped ==
  /\ created \subseteq Sender /\ mine \in [Sender -> created \union {Transmit!NoLock}]
  /\ (tx_scratch_lock = Transmit!NoLock /\ created = {}) \/ tx_scratch_lock \in created

\* Who is past the lock found it created, and took it; with one lock, who holds
\* it is alone, and tx_scratch holds what that task has built.
OneBuilder ==
  /\ LocksTyped
  /\ \A s \in Sender :
       /\ pc[s] = "load" => created # {}
       /\ pc[s] \in {"take"} \union Transmit!Building => mine[s] \in created
  /\ Transmit!OneLock =>
       \A s \in Sender :
         /\ pc[s] \in Transmit!Building =>
              /\ mine[s] \in held
              /\ \A u \in Sender \ {s} : pc[u] \notin Transmit!Building
         /\ pc[s] = "rest" => tx_scratch[1] = Transmit!Bytes(<<s, frame[s]>>)[1]
         /\ pc[s] = "append" => tx_scratch = Transmit!Bytes(<<s, frame[s]>>)

\* tx_buf goes on where the link that is up was left; what a lost link leaves
\* there is gone before the next link.
WholeFrames ==
  Transmit!OneLock /\ ~carried =>
    /\ \A l \in 1..MaxLinks : Transmit!Whole(notified[l])
    /\ link # Transmit!LinkDown =>
         /\ Transmit!Whole(notified[link] \o tx_buf)
         /\ (Len(notified[link]) + Len(tx_buf)) % 2 = 0
    /\ link = Transmit!LinkDown /\ swept = "emptied" =>
         Transmit!Whole(tx_buf) /\ Len(tx_buf) % 2 = 0

\* The number of the frame of s that may be appended next.
Due(s) == IF pc[s] \in {"idle", "flush", "notify"} THEN frame[s] + 1 ELSE frame[s]

Ordered ==
  Transmit!OneLock =>
    /\ Transmit!InOrder(tx_buf)
    /\ \A s \in Sender : Transmit!Precedes(tx_buf, Transmit!Bytes(<<s, Due(s)>>))
    /\ \A l \in 1..MaxLinks :
         /\ Transmit!InOrder(notified[l])
         /\ Transmit!Precedes(notified[l], tx_buf)
         /\ \A s \in Sender : Transmit!Precedes(notified[l], Transmit!Bytes(<<s, Due(s)>>))
         /\ \A k \in 1..(l - 1) : Transmit!Precedes(notified[k], notified[l])

TransmitInv == TransmitTyped /\ OneBuilder /\ WholeFrames /\ Ordered

LEMMA FrameLetters ==
  ASSUME NEW s \in Sender, NEW n \in Nat
  PROVE  /\ Transmit!Bytes(<<s, n>>) \in Seq(Letter) /\ Len(Transmit!Bytes(<<s, n>>)) = 2
         /\ Transmit!Bytes(<<s, n>>)[1] \in Letter /\ Transmit!Bytes(<<s, n>>)[2] \in Letter
         /\ Transmit!Heads(Transmit!Bytes(<<s, n>>)) = {1}
         /\ Transmit!Bytes(<<s, n>>)[1][1] = <<s, n>>
         /\ Transmit!InOrder(Transmit!Bytes(<<s, n>>))
<1>. DEFINE b == Transmit!Bytes(<<s, n>>)
            h == <<<<s, n>>, "head">>
            t == <<<<s, n>>, "tail">>
<1>1. h \in Letter /\ t \in Letter /\ h[2] = "head" /\ t[2] = "tail" /\ h[1] = <<s, n>>
  BY DEF Letter, Transmit!Caller
<1>2. b = <<h, t>>
  BY DEF Transmit!Bytes
<1>. HIDE DEF b, h, t
<1>3. b \in Seq(Letter) /\ Len(b) = 2 /\ DOMAIN b = {1, 2} /\ b[1] = h /\ b[2] = t
  BY <1>1, <1>2
<1>4. Transmit!Heads(b) = {1}
  BY <1>1, <1>3 DEF Transmit!Heads
<1>5. Transmit!InOrder(b)
  BY <1>4 DEF Transmit!InOrder
<1>. QED  BY <1>1, <1>3, <1>4, <1>5 DEF b

\* What comes before a frame comes before a later one of the task.
LEMMA PrecedesLater ==
  ASSUME NEW a \in Seq(Letter), NEW s \in Sender, NEW n \in Nat, NEW m \in Nat, n <= m,
         Transmit!Precedes(a, Transmit!Bytes(<<s, n>>))
  PROVE  Transmit!Precedes(a, Transmit!Bytes(<<s, m>>))
<1>1. \A i \in Transmit!Heads(a) : a[i][1][2] \in Nat
  BY DEF Transmit!Heads, Letter
<1>2. \A i \in Transmit!Heads(a) : Transmit!Before(a[i][1], <<s, n>>)
  BY FrameLetters DEF Transmit!Precedes
<1>3. \A i \in Transmit!Heads(a) : Transmit!Before(a[i][1], <<s, m>>)
  BY <1>1, <1>2 DEF Transmit!Before
<1>. QED  BY <1>3, FrameLetters DEF Transmit!Precedes

LEMMA NothingPrecedes ==
  ASSUME NEW a
  PROVE  /\ Transmit!Precedes(<<>>, a) /\ Transmit!Precedes(a, <<>>) /\ Transmit!InOrder(<<>>)
         /\ Transmit!Whole(<<>>)
<1>1. Transmit!Heads(<<>>) = {}
  BY DEF Transmit!Heads
<1>. QED  BY <1>1 DEF Transmit!Precedes, Transmit!InOrder, Transmit!Whole
-----------------------------------------------------------------------------
(* BLE transmit: the steps.                                                 *)

LEMMA StaysWhole ==
  ASSUME WholeFrames, UNCHANGED <<tx_buf, Transmit!linkVars, notified>>,
         Transmit!OneLock' => Transmit!OneLock
  PROVE  WholeFrames'
  BY DEF WholeFrames, Transmit!linkVars

LEMMA StaysOrdered ==
  ASSUME TransmitTyped, Ordered, UNCHANGED <<tx_buf, notified>>,
         Transmit!OneLock' => Transmit!OneLock,
         \A s \in Sender : Due(s)' \in Nat /\ Due(s) <= Due(s)'
  PROVE  Ordered'
<1>. SUFFICES ASSUME Transmit!OneLock'
              PROVE  Ordered'
  BY DEF Ordered
<1>1. \A s \in Sender : Due(s) \in Nat
  BY DEF TransmitTyped, Due
<1>2. \A s \in Sender : Transmit!Precedes(tx_buf, Transmit!Bytes(<<s, Due(s)'>>))
  BY <1>1, PrecedesLater DEF TransmitTyped, Ordered
<1>3. \A l \in 1..MaxLinks, s \in Sender :
        Transmit!Precedes(notified[l], Transmit!Bytes(<<s, Due(s)'>>))
  <2>. SUFFICES ASSUME NEW l \in 1..MaxLinks, NEW s \in Sender
                PROVE  Transmit!Precedes(notified[l], Transmit!Bytes(<<s, Due(s)'>>))
    OBVIOUS
  <2>1. notified[l] \in Seq(Letter)
    BY DEF TransmitTyped
  <2>2. Transmit!Precedes(notified[l], Transmit!Bytes(<<s, Due(s)>>))
    BY DEF Ordered
  <2>. QED  BY <1>1, <2>1, <2>2, PrecedesLater
<1>. HIDE DEF Due
<1>. QED  BY <1>2, <1>3 DEF Ordered

\* The steps of send_kiss up to the flags of ble_write.
LEMMA BuildInv ==
  ASSUME Transmit!TransmitAssumption, TransmitInv, NEW s \in Sender,
         \/ Transmit!SendKiss(s) \/ Transmit!CreateLock(s) \/ Transmit!LoadLock(s)
         \/ Transmit!TakeLock(s) \/ Transmit!BuildRest(s)
  PROVE  TransmitInv'
<1>. USE DEF TransmitInv, Transmit!Goto, Transmit!scratchVars, Transmit!lockVars, Transmit!linkVars,
             Transmit!Building, Transmit!Caller
<1>0. frame[s] \in Nat /\ frame[s] + 1 \in Nat
  BY DEF TransmitTyped
<1>1. /\ UNCHANGED <<tx_buf, Transmit!linkVars, notified>>
      /\ created \subseteq created'
      /\ \/ frame' = [frame EXCEPT ![s] = frame[s] + 1] /\ pc[s] = "idle"
         \/ frame' = frame /\ pc[s] \in {"create", "load", "take", "rest"}
      /\ \E p \in {"create", "load", "take", "rest", "append", "flush"} :
           /\ pc' = [pc EXCEPT ![s] = p]
           /\ p = "flush" => pc[s] = "rest"
  BY DEF Transmit!SendKiss, Transmit!CreateLock, Transmit!LoadLock, Transmit!TakeLock,
         Transmit!BuildRest
<1>2. \A u \in Sender : Due(u)' \in Nat /\ Due(u) <= Due(u)'
  BY <1>0, <1>1 DEF TransmitTyped, Due
<1>3. Transmit!OneLock' => Transmit!OneLock
  BY <1>1 DEF Transmit!OneLock
<1>4. WholeFrames' /\ Ordered'
  BY <1>1, <1>2, <1>3, StaysWhole, StaysOrdered
<1>5. TransmitTyped' /\ OneBuilder'
  <2>. DEFINE f == Transmit!Bytes(<<s, frame[s]>>)
  <2>1. tx_scratch' \in Seq(Letter) /\ Len(tx_scratch') = 2
        /\ (pc[s] = "take" /\ pc'[s] = "rest" => tx_scratch'[1] = f[1])
        /\ (pc[s] = "rest" => tx_scratch' = <<tx_scratch[1], f[2]>>)
        /\ (pc[s] \notin {"take", "rest"} => tx_scratch' = tx_scratch)
    <3>0. tx_scratch \in Seq(Letter) /\ Len(tx_scratch) = 2 /\ f[1] \in Letter /\ f[2] \in Letter
      BY <1>0, FrameLetters DEF TransmitTyped
    <3>. HIDE DEF f
    <3>1. CASE Transmit!TakeLock(s)
      <4>1. tx_scratch' = <<f[1]>> \o Tail(tx_scratch) /\ pc[s] = "take"
        BY <3>1 DEF Transmit!TakeLock, f
      <4>. QED  BY <3>0, <4>1
    <3>2. CASE Transmit!BuildRest(s)
      <4>1. tx_scratch' = <<Head(tx_scratch), f[2]>> /\ pc[s] = "rest"
        BY <3>2 DEF Transmit!BuildRest, f
      <4>2. Head(tx_scratch) = tx_scratch[1] /\ tx_scratch[1] \in Letter
        <5>1. tx_scratch \in Seq(Letter) /\ Len(tx_scratch) = 2
          BY <3>0
        <5>. HIDE DEF Letter
        <5>. QED  BY <5>1
      <4>. QED  BY <3>0, <4>1, <4>2
    <3>3. CASE Transmit!SendKiss(s) \/ Transmit!CreateLock(s) \/ Transmit!LoadLock(s)
      BY <3>0, <3>3 DEF Transmit!SendKiss, Transmit!CreateLock, Transmit!LoadLock
    <3>. QED  BY <3>1, <3>2, <3>3
  <2>2. TransmitTyped'
    BY <1>0, <1>1, <2>1 DEF TransmitTyped
  <2>3. f = <<f[1], f[2]>>
    BY DEF Transmit!Bytes
  <2>. HIDE DEF f
  <2>4. OneBuilder'
    <3>1. CASE Transmit!SendKiss(s)
      BY <3>1 DEF Transmit!SendKiss, TransmitTyped, OneBuilder, LocksTyped, Transmit!OneLock,
                  Transmit!TransmitAssumption
    <3>2. CASE Transmit!CreateLock(s)
      BY <3>2 DEF Transmit!CreateLock, TransmitTyped, OneBuilder, LocksTyped, Transmit!OneLock
    <3>3. CASE Transmit!LoadLock(s)
      BY <3>3 DEF Transmit!LoadLock, TransmitTyped, OneBuilder, LocksTyped, Transmit!OneLock
    <3>4. CASE Transmit!TakeLock(s)
      <4>1. /\ pc[s] = "take" /\ pc' = [pc EXCEPT ![s] = "rest"] /\ pc'[s] = "rest"
            /\ mine[s] \notin held /\ held' = held \union {mine[s]}
            /\ UNCHANGED <<frame, tx_scratch_lock, created, mine>>
        BY <3>4 DEF Transmit!TakeLock, TransmitTyped
      <4>2. LocksTyped'
        BY <4>1 DEF OneBuilder, LocksTyped
      <4>3. \A u \in Sender : mine[u] \in held => mine[u] \in held'
        BY <4>1
      <4>4. ASSUME Transmit!OneLock
            PROVE  \A u \in Sender : pc[u] \notin Transmit!Building
        <5>1. SUFFICES ASSUME NEW u \in Sender, pc[u] \in Transmit!Building
                       PROVE  FALSE
          OBVIOUS
        <5>2. mine[u] \in held /\ mine[u] \in created
          BY <1>0, <4>4, <5>1 DEF OneBuilder, LocksTyped
        <5>3. mine[s] \in created
          BY <1>0, <4>1 DEF OneBuilder, LocksTyped
        <5>. QED  BY <4>1, <4>4, <5>2, <5>3 DEF Transmit!OneLock
      <4>. QED
        BY <2>1, <4>1, <4>2, <4>3, <4>4 DEF TransmitTyped, OneBuilder, Transmit!OneLock, f
    <3>5. CASE Transmit!BuildRest(s)
      BY <2>1, <2>3, <3>5 DEF Transmit!BuildRest, TransmitTyped, OneBuilder, LocksTyped, Transmit!OneLock, f
    <3>. QED  BY <3>1, <3>2, <3>3, <3>4, <3>5
  <2>. QED  BY <2>2, <2>4
<1>. QED  BY <1>4, <1>5

\* ble_write under its mutex: the frame that was built goes behind the others,
\* or is dropped.
LEMMA AppendInv ==
  ASSUME TransmitInv, NEW s \in Sender, Transmit!WriteAppend(s)
  PROVE  TransmitInv'
<1>. USE DEF Transmit!Goto, Transmit!scratchVars, Transmit!lockVars, Transmit!linkVars, Transmit!Building, Transmit!Caller
<1>. DEFINE f == Transmit!Bytes(<<s, frame[s]>>)
<1>1. /\ TransmitTyped /\ OneBuilder /\ WholeFrames /\ Ordered
      /\ pc' = [pc EXCEPT ![s] = "flush"] /\ pc[s] = "append"
      /\ UNCHANGED <<frame, mine, held, created, tx_scratch_lock, tx_scratch, links, link, swept, carried,
                      notified>>
      /\ tx_buf' = tx_buf \/ tx_buf' = tx_buf \o tx_scratch
  BY DEF TransmitInv, Transmit!WriteAppend
<1>2. /\ tx_buf \in Seq(Letter) /\ tx_scratch \in Seq(Letter) /\ frame[s] \in Nat
      /\ Transmit!OneLock => tx_scratch = f
  BY <1>1 DEF TransmitTyped, OneBuilder
<1>3. TransmitTyped' /\ OneBuilder'
  <2>0. tx_buf \o tx_scratch \in Seq(Letter)
    BY <1>2, Appended
  <2>1. tx_buf' \in Seq(Letter)
    BY <1>1, <1>2, <2>0
  <2>2. TransmitTyped'
    BY <1>1, <2>1 DEF TransmitTyped
  <2>3. OneBuilder'
    BY <1>1 DEF TransmitTyped, OneBuilder, LocksTyped, Transmit!OneLock
  <2>. QED  BY <2>2, <2>3
<1>4. \A u \in Sender : /\ Due(u) \in Nat /\ Due(u)' \in Nat /\ Due(u) <= Due(u)'
                        /\ u = s => Due(u) = frame[s] /\ Due(u)' = frame[s] + 1
  BY <1>1 DEF TransmitTyped, Due
<1>5. Transmit!OneLock' => Transmit!OneLock
  BY <1>1 DEF Transmit!OneLock
<1>6. CASE tx_buf' = tx_buf
  <2>1. WholeFrames' /\ Ordered'
    BY <1>1, <1>4, <1>5, <1>6, StaysWhole, StaysOrdered
  <2>. QED  BY <1>3, <2>1 DEF TransmitInv
<1>7. CASE tx_buf' = tx_buf \o tx_scratch /\ Transmit!OneLock
  <2>1. /\ tx_buf' = tx_buf \o f /\ f \in Seq(Letter) /\ Len(f) = 2 /\ Transmit!Whole(f)
        /\ Transmit!Heads(f) = {1} /\ f[1][1] = <<s, frame[s]>> /\ Transmit!InOrder(f)
        /\ Len(tx_buf) \in Nat /\ Len(tx_buf') = Len(tx_buf) + 2
    <3>1. /\ f \in Seq(Letter) /\ Len(f) = 2 /\ Transmit!Whole(f)
          /\ Transmit!Heads(f) = {1} /\ f[1][1] = <<s, frame[s]>> /\ Transmit!InOrder(f)
      BY <1>2, FrameLetters, WholeFrame
    <3>2. tx_buf' = tx_buf \o f
      BY <1>2, <1>7
    <3>. HIDE DEF f
    <3>3. Len(tx_buf) \in Nat /\ Len(tx_buf \o f) = Len(tx_buf) + 2
      <4>1. tx_buf \in Seq(Letter) /\ f \in Seq(Letter) /\ Len(f) = 2
        BY <1>2, <3>1
      <4>2. Len(tx_buf) \in Nat /\ Len(tx_buf \o f) = Len(tx_buf) + Len(f)
        BY <4>1, Appended
      <4>. QED  BY <4>1, <4>2
    <3>. QED  BY <3>1, <3>2, <3>3
  <2>. HIDE DEF f
  <2>2. WholeFrames'
    <3>. SUFFICES ASSUME ~carried
                  PROVE  WholeFrames'
      BY <1>1 DEF WholeFrames
    <3>1. ASSUME link # Transmit!LinkDown
          PROVE  /\ Transmit!Whole(notified[link] \o tx_buf')
                 /\ (Len(notified[link]) + Len(tx_buf')) % 2 = 0
      <4>. DEFINE sent_ == notified[link]
      <4>1. sent_ \in Seq(Letter) /\ Len(sent_) \in Nat
        BY <1>1, <3>1 DEF TransmitTyped, Transmit!LinkDown
      <4>2. Transmit!Whole(sent_ \o tx_buf) /\ (Len(sent_) + Len(tx_buf)) % 2 = 0
        BY <1>1, <1>7, <3>1 DEF WholeFrames
      <4>. HIDE DEF sent_
      <4>3. /\ sent_ \o tx_buf \in Seq(Letter) /\ Len(sent_ \o tx_buf) = Len(sent_) + Len(tx_buf)
            /\ (sent_ \o tx_buf) \o f = sent_ \o (tx_buf \o f)
        BY <1>2, <2>1, <4>1
      <4>4. Transmit!Whole((sent_ \o tx_buf) \o f)
        BY <2>1, <4>2, <4>3, WholeJoin
      <4>5. (Len(sent_) + (Len(tx_buf) + 2)) % 2 = 0
        BY <2>1, <4>1, <4>2
      <4>. QED  BY <2>1, <4>3, <4>4, <4>5 DEF sent_
    <3>2. ASSUME link = Transmit!LinkDown, swept = "emptied"
          PROVE  Transmit!Whole(tx_buf') /\ Len(tx_buf') % 2 = 0
      <4>1. Transmit!Whole(tx_buf) /\ Len(tx_buf) % 2 = 0
        BY <1>1, <1>7, <3>2 DEF WholeFrames
      <4>2. Transmit!Whole(tx_buf \o f)
        BY <1>2, <2>1, <4>1, WholeJoin
      <4>3. (Len(tx_buf) + 2) % 2 = 0
        BY <2>1, <4>1
      <4>. QED  BY <2>1, <4>2, <4>3
    <3>. QED  BY <1>1, <1>7, <3>1, <3>2 DEF WholeFrames
  <2>3. Ordered'
    <3>1. Transmit!Precedes(tx_buf, f) /\ Transmit!InOrder(tx_buf)
      BY <1>1, <1>4, <1>7 DEF Ordered, f
    <3>2. Transmit!InOrder(tx_buf')
      BY <1>2, <2>1, <3>1, InOrderJoin
    <3>3. \A l \in 1..MaxLinks : notified[l] \in Seq(Letter) /\ Transmit!Precedes(notified[l], f)
      BY <1>1, <1>4, <1>7 DEF Ordered, TransmitTyped, f
    <3>4. \A l \in 1..MaxLinks : Transmit!Precedes(notified[l], tx_buf')
      <4>1. \A l \in 1..MaxLinks : Transmit!Precedes(notified[l], tx_buf)
        BY <1>1, <1>7 DEF Ordered
      <4>. QED  BY <1>2, <2>1, <3>3, <4>1, PrecedesBoth
    <3>5. ASSUME NEW u \in Sender
          PROVE  /\ Transmit!Precedes(tx_buf', Transmit!Bytes(<<u, Due(u)'>>))
                 /\ \A l \in 1..MaxLinks : Transmit!Precedes(notified[l], Transmit!Bytes(<<u, Due(u)'>>))
      <4>. DEFINE g == Transmit!Bytes(<<u, Due(u)'>>)
      <4>1. /\ Transmit!Precedes(tx_buf, Transmit!Bytes(<<u, Due(u)>>))
            /\ \A l \in 1..MaxLinks : Transmit!Precedes(notified[l], Transmit!Bytes(<<u, Due(u)>>))
        BY <1>1, <1>7 DEF Ordered
      <4>2. Transmit!Precedes(tx_buf, g) /\ \A l \in 1..MaxLinks : Transmit!Precedes(notified[l], g)
        BY <1>2, <1>4, <3>3, <4>1, PrecedesLater
      <4>3. g \in Seq(Letter) /\ Transmit!Heads(g) = {1} /\ g[1][1] = <<u, Due(u)'>>
        BY <1>4, FrameLetters
      <4>4. Transmit!Before(<<s, frame[s]>>, <<u, Due(u)'>>)
        BY <1>2, <1>4 DEF Transmit!Before
      <4>. HIDE DEF g
      <4>5. Transmit!Precedes(f, g)
        BY <2>1, <4>3, <4>4 DEF Transmit!Precedes
      <4>6. Transmit!Precedes(tx_buf', g)
        BY <1>2, <2>1, <4>2, <4>3, <4>5, PrecedesBoth
      <4>. QED  BY <4>2, <4>6 DEF g
    <3>6. /\ notified' = notified
          /\ \A l \in 1..MaxLinks : /\ Transmit!InOrder(notified[l])
                                    /\ \A k \in 1..(l - 1) : Transmit!Precedes(notified[k], notified[l])
      BY <1>1, <1>7 DEF Ordered
    <3>. HIDE DEF Due
    <3>. QED  BY <3>2, <3>4, <3>5, <3>6 DEF Ordered
  <2>. QED  BY <1>3, <2>2, <2>3 DEF TransmitInv
<1>8. CASE ~Transmit!OneLock
  BY <1>3, <1>5, <1>8 DEF TransmitInv, WholeFrames, Ordered
<1>. QED  BY <1>1, <1>6, <1>7, <1>8

\* ble_flush: tx_buf is dropped, or a part of it goes to the link, or nothing.
LEMMA NotifyInv ==
  ASSUME Transmit!TransmitAssumption, TransmitInv, NEW t \in Transmit!Caller, Transmit!FlushNotify(t)
  PROVE  TransmitInv'
<1>. DEFINE n == IF Len(tx_buf) > MAX_CHUNK THEN MAX_CHUNK ELSE Len(tx_buf)
            a == notified[link]
            c == SubSeq(tx_buf, 1, n)
            d == SubSeq(tx_buf, n + 1, Len(tx_buf))
<1>0. MaxLinks \in Nat /\ MAX_CHUNK \in Nat \ {0}
  BY DEF Transmit!TransmitAssumption
<1>1. /\ TransmitTyped /\ OneBuilder /\ WholeFrames /\ Ordered
      /\ link # Transmit!LinkDown
      /\ UNCHANGED <<pc, frame, mine, held, created, tx_scratch_lock, tx_scratch, links, link, swept,
                      carried>>
      /\ notified' = [notified EXCEPT ![link] = a \o c] /\ tx_buf' = d
  BY DEF TransmitInv, Transmit!FlushNotify, Transmit!scratchVars, Transmit!lockVars, Transmit!linkVars
<1>2. /\ link \in 1..MaxLinks /\ link = links /\ a \in Seq(Letter) /\ tx_buf \in Seq(Letter)
      /\ notified \in [1..MaxLinks -> Seq(Letter)]
  <2>1. /\ link \in 1..MaxLinks /\ link = links /\ tx_buf \in Seq(Letter)
        /\ notified \in [1..MaxLinks -> Seq(Letter)]
    BY <1>0, <1>1 DEF TransmitTyped, Transmit!LinkDown
  <2>. QED  BY <2>1
<1>3. n \in 0..Len(tx_buf)
  BY <1>0, <1>2
<1>. HIDE DEF n
<1>4. /\ c \in Seq(Letter) /\ d \in Seq(Letter) /\ Len(c) = n /\ Len(d) = Len(tx_buf) - n
      /\ (a \o c) \o d = a \o tx_buf
  <2>1. c \in Seq(Letter) /\ d \in Seq(Letter) /\ Len(c) = n /\ Len(d) = Len(tx_buf) - n
    BY <1>2, <1>3, Cut
  <2>2. (a \o c) \o d = a \o tx_buf
    <3>. HIDE DEF a
    <3>. QED  BY <1>2, <1>3, Rejoined, Zenon
  <2>. QED  BY <2>1, <2>2
<1>5. Transmit!InOrder(tx_buf) =>
        Transmit!InOrder(c) /\ Transmit!InOrder(d) /\ Transmit!Precedes(c, d)
  BY <1>2, <1>3, OrderCut
<1>6. \A b : Transmit!Precedes(b, tx_buf) => Transmit!Precedes(b, c) /\ Transmit!Precedes(b, d)
  BY <1>2, <1>3, OrderCut
<1>7. /\ \A i \in Transmit!Heads(c) : i \in Transmit!Heads(tx_buf) /\ c[i] = tx_buf[i]
      /\ \A i \in Transmit!Heads(d) : n + i \in Transmit!Heads(tx_buf) /\ d[i] = tx_buf[n + i]
  BY <1>2, <1>3, OrderCut
<1>8. \A b : Transmit!Precedes(tx_buf, b) => Transmit!Precedes(c, b) /\ Transmit!Precedes(d, b)
  BY <1>7 DEF Transmit!Precedes
<1>. HIDE DEF a, c, d
<1>9. a \o c \in Seq(Letter) /\ Len(a \o c) = Len(a) + n /\ Len(a) \in Nat /\ Len(tx_buf) \in Nat /\ n \in Nat
  BY <1>2, <1>3, <1>4, Appended
<1>10. /\ notified'[link] = a \o c
       /\ \A l \in (1..MaxLinks) \ {link} : notified'[l] = notified[l]
       /\ notified' \in [1..MaxLinks -> Seq(Letter)]
  BY <1>1, <1>2, <1>9
<1>11. TransmitTyped' /\ OneBuilder'
  <2>1. TransmitTyped'
    <3>1. \A l \in 1..MaxLinks : l > links => l # link
      BY <1>0, <1>2
    <3>. QED  BY <1>1, <1>4, <1>10, <3>1 DEF TransmitTyped
  <2>2. OneBuilder'
    BY <1>1 DEF OneBuilder, LocksTyped, Transmit!OneLock
  <2>. QED  BY <2>1, <2>2
<1>. SUFFICES ASSUME Transmit!OneLock
              PROVE  WholeFrames' /\ Ordered'
  BY <1>1, <1>11 DEF TransmitInv, WholeFrames, Ordered, Transmit!OneLock
<1>12. WholeFrames'
  <2>. SUFFICES ASSUME ~carried
                PROVE  WholeFrames'
    BY <1>1 DEF WholeFrames
  <2>1. /\ Transmit!Whole(a \o tx_buf) /\ (Len(a) + Len(tx_buf)) % 2 = 0
        /\ \A l \in 1..MaxLinks : Transmit!Whole(notified[l])
    BY <1>1 DEF WholeFrames, a
  <2>2. Transmit!Whole((a \o c) \o d) /\ Transmit!Whole(a \o c)
    BY <1>4, <1>9, <2>1, WholeStart
  <2>3. Len(a \o c) + Len(d) = Len(a) + Len(tx_buf)
    BY <1>4, <1>9
  <2>4. \A l \in 1..MaxLinks : Transmit!Whole(notified'[l])
    BY <1>10, <2>1, <2>2
  <2>5. Transmit!Whole(notified'[link] \o tx_buf') /\ (Len(notified'[link]) + Len(tx_buf')) % 2 = 0
    BY <1>1, <1>10, <2>1, <2>2, <2>3
  <2>. QED  BY <1>1, <2>4, <2>5 DEF WholeFrames
<1>13. Ordered'
  <2>1. /\ Transmit!InOrder(tx_buf)
        /\ \A s \in Sender : Transmit!Precedes(tx_buf, Transmit!Bytes(<<s, Due(s)>>))
        /\ \A l \in 1..MaxLinks :
             /\ Transmit!InOrder(notified[l])
             /\ Transmit!Precedes(notified[l], tx_buf)
             /\ \A s \in Sender : Transmit!Precedes(notified[l], Transmit!Bytes(<<s, Due(s)>>))
             /\ \A k \in 1..(l - 1) : Transmit!Precedes(notified[k], notified[l])
    BY <1>1 DEF Ordered
  <2>2. \A s \in Sender : Due(s)' = Due(s) /\ Due(s) \in Nat
    BY <1>1 DEF Due, TransmitTyped
  <2>3. Transmit!InOrder(d) /\ Transmit!InOrder(c) /\ Transmit!Precedes(c, d)
    BY <1>5, <2>1
  <2>4. Transmit!InOrder(a) /\ Transmit!Precedes(a, c) /\ Transmit!Precedes(a, d)
    BY <1>2, <1>6, <2>1 DEF a
  <2>5. Transmit!InOrder(a \o c) /\ Transmit!Precedes(a \o c, d)
    BY <1>2, <1>4, <2>3, <2>4, InOrderJoin, PrecedesBoth
  <2>6. \A s \in Sender : /\ Transmit!Precedes(d, Transmit!Bytes(<<s, Due(s)>>))
                          /\ Transmit!Precedes(a \o c, Transmit!Bytes(<<s, Due(s)>>))
    <3>. SUFFICES ASSUME NEW s \in Sender
                  PROVE  /\ Transmit!Precedes(d, Transmit!Bytes(<<s, Due(s)>>))
                         /\ Transmit!Precedes(a \o c, Transmit!Bytes(<<s, Due(s)>>))
      OBVIOUS
    <3>. DEFINE g == Transmit!Bytes(<<s, Due(s)>>)
    <3>1. g \in Seq(Letter)
      BY <2>2, FrameLetters
    <3>2. Transmit!Precedes(tx_buf, g) /\ Transmit!Precedes(a, g)
      BY <1>2, <2>1 DEF a
    <3>. HIDE DEF g
    <3>3. Transmit!Precedes(c, g) /\ Transmit!Precedes(d, g)
      BY <1>8, <3>2
    <3>4. Transmit!Precedes(a \o c, g)
      BY <1>2, <1>4, <3>1, <3>2, <3>3, PrecedesBoth
    <3>. QED  BY <3>3, <3>4 DEF g
  <2>7. \A l \in 1..MaxLinks :
          /\ Transmit!InOrder(notified'[l])
          /\ Transmit!Precedes(notified'[l], d)
          /\ \A s \in Sender : Transmit!Precedes(notified'[l], Transmit!Bytes(<<s, Due(s)>>))
    <3>. SUFFICES ASSUME NEW l \in 1..MaxLinks
                  PROVE  /\ Transmit!InOrder(notified'[l])
                         /\ Transmit!Precedes(notified'[l], d)
                         /\ \A s \in Sender : Transmit!Precedes(notified'[l], Transmit!Bytes(<<s, Due(s)>>))
      OBVIOUS
    <3>1. CASE l = link
      BY <1>10, <2>5, <2>6, <3>1
    <3>2. CASE l # link
      BY <1>6, <1>10, <2>1, <3>2
    <3>. QED  BY <3>1, <3>2
  <2>8. ASSUME NEW l \in 1..MaxLinks, NEW k \in 1..(l - 1)
        PROVE  Transmit!Precedes(notified'[k], notified'[l])
    <3>1. k \in 1..MaxLinks /\ k < l
      BY <1>0
    <3>2. CASE l = link
      <4>1. notified'[k] = notified[k] /\ notified[k] \in Seq(Letter)
        BY <1>2, <1>10, <3>1, <3>2
      <4>2. Transmit!Precedes(notified[k], a) /\ Transmit!Precedes(notified[k], c)
        BY <1>6, <2>1, <3>1, <3>2 DEF a
      <4>3. Transmit!Precedes(notified[k], a \o c)
        BY <1>2, <1>4, <4>1, <4>2, PrecedesBoth
      <4>. QED  BY <1>10, <3>2, <4>1, <4>3
    <3>3. CASE l > link
      <4>1. notified'[l] = <<>>
        BY <1>1, <1>2, <1>10, <3>3 DEF TransmitTyped
      <4>. QED  BY <4>1, NothingPrecedes
    <3>4. CASE l < link
      BY <1>2, <1>10, <2>1, <3>1, <3>4
    <3>. QED  BY <1>2, <3>2, <3>3, <3>4
  <2>. HIDE DEF Due
  <2>. QED  BY <1>1, <2>2, <2>3, <2>6, <2>7, <2>8 DEF Ordered
<1>. QED  BY <1>12, <1>13

LEMMA FlushInv ==
  ASSUME Transmit!TransmitAssumption, TransmitInv, NEW t \in Transmit!Caller,
         Transmit!FlushEnter(t) \/ Transmit!FlushStops(t)
  PROVE  TransmitInv'
<1>1. /\ TransmitTyped /\ OneBuilder /\ WholeFrames /\ Ordered
      /\ \E p \in {"idle", "notify"} : pc' = [pc EXCEPT ![t] = p]
      /\ pc[t] \in {"flush", "notify"} \/ (t = FlushTask /\ pc[t] = "idle")
      /\ UNCHANGED <<frame, mine, created, tx_scratch_lock, tx_scratch, links, link, carried, notified>>
      /\ (t \in Sender /\ pc'[t] = "idle") \/ held' = held
      /\ \/ tx_buf' = tx_buf /\ (swept' = swept \/ swept' = "passed")
         \/ link = Transmit!LinkDown /\ tx_buf' = <<>> /\ swept' = "emptied"
  BY DEF TransmitInv, TransmitTyped, Transmit!FlushEnter, Transmit!FlushStops, Transmit!FlushEnds, Transmit!Goto,
         Transmit!FlushLeaves, Transmit!scratchVars, Transmit!lockVars, Transmit!linkVars
<1>2. /\ \A s \in Sender : Due(s) \in Nat /\ Due(s)' = Due(s)
      /\ Transmit!OneLock' => Transmit!OneLock
  BY <1>1 DEF TransmitTyped, Due, Transmit!OneLock
<1>3. TransmitTyped' /\ OneBuilder'
  <2>1. <<>> \in Seq(Letter)
    OBVIOUS
  <2>2. TransmitTyped'
    BY <1>1, <2>1 DEF TransmitTyped, Transmit!Building
  <2>3. OneBuilder'
    <3>1. \A s \in Sender : pc'[s] = pc[s] \/ (pc[s] \in Transmit!Building /\ pc'[s] \in {"idle", "notify"})
      <4>1. t \in Sender => t # FlushTask
        BY DEF Transmit!TransmitAssumption
      <4>. QED  BY <1>1, <4>1 DEF TransmitTyped, Transmit!Building, Transmit!Caller
    <3>2. LocksTyped'
      BY <1>1 DEF OneBuilder, LocksTyped
    <3>3. \A s \in Sender : pc'[s] \in Transmit!Building => pc[s] \in Transmit!Building
      BY <3>1 DEF Transmit!Building
    <3>4. ASSUME Transmit!OneLock, NEW s \in Sender, pc'[s] \in Transmit!Building
          PROVE  mine[s] \in held'
      <4>1. mine[s] \in held /\ \A u \in Sender \ {s} : pc[u] \notin Transmit!Building
        BY <1>1, <3>3, <3>4 DEF OneBuilder
      <4>2. CASE t \in Sender /\ pc'[t] = "idle"
        <5>1. t # s
          BY <3>4, <4>2 DEF Transmit!Building
        <5>2. pc[t] \in Transmit!Building
          BY <1>1, <4>2 DEF Transmit!TransmitAssumption, Transmit!Building
        <5>. QED  BY <4>1, <4>2, <5>1, <5>2
      <4>. QED  BY <1>1, <4>1, <4>2
    <3>. QED  BY <1>1, <3>1, <3>2, <3>3, <3>4 DEF OneBuilder, Transmit!OneLock
  <2>. QED  BY <2>2, <2>3
<1>4. CASE tx_buf' = tx_buf /\ (swept' = swept \/ swept' = "passed")
  <2>1. WholeFrames'
    BY <1>1, <1>2, <1>4 DEF WholeFrames
  <2>2. Ordered'
    BY <1>1, <1>2, <1>4, StaysOrdered
  <2>. QED  BY <1>3, <2>1, <2>2 DEF TransmitInv
<1>5. CASE link = Transmit!LinkDown /\ tx_buf' = <<>>
  <2>1. WholeFrames'
    BY <1>1, <1>2, <1>5, WholeFrame DEF WholeFrames
  <2>. HIDE DEF Due
  <2>2. Ordered'
    BY <1>1, <1>2, <1>5, NothingPrecedes DEF Ordered
  <2>. QED  BY <1>3, <2>1, <2>2 DEF TransmitInv
<1>. QED  BY <1>1, <1>4, <1>5

\* A link that comes up finds whole frames in tx_buf; one that is lost keeps
\* what it got.
LEMMA LinkInv ==
  ASSUME Transmit!TransmitAssumption, TransmitInv, Transmit!LinkUp \/ Transmit!LinkLost
  PROVE  TransmitInv'
<1>0. MaxLinks \in Nat
  BY DEF Transmit!TransmitAssumption
<1>1. /\ TransmitTyped /\ OneBuilder /\ WholeFrames /\ Ordered
      /\ UNCHANGED <<pc, frame, mine, held, created, tx_scratch_lock, tx_scratch, tx_buf, notified>>
      /\ \/ /\ link = Transmit!LinkDown /\ swept' = swept /\ links < MaxLinks
            /\ links' = links + 1 /\ link' = links'
            /\ ~carried' => swept = "emptied" /\ ~carried
         \/ link' = Transmit!LinkDown /\ swept' = "no" /\ links' = links /\ carried' = carried
  BY DEF TransmitInv, TransmitTyped, Transmit!LinkUp, Transmit!LinkLost, Transmit!scratchVars,
         Transmit!lockVars
<1>2. links \in 0..MaxLinks /\ links' \in 0..MaxLinks /\ links <= links'
  BY <1>0, <1>1 DEF TransmitTyped
<1>3. swept' \in {"no", "passed", "emptied"} /\ carried' \in BOOLEAN
  BY DEF TransmitInv, TransmitTyped, Transmit!LinkUp, Transmit!LinkLost
<1>3a. \A l \in 1..MaxLinks : l > links' => l > links
  BY <1>0, <1>2
<1>4. TransmitTyped' /\ OneBuilder'
  BY <1>1, <1>2, <1>3, <1>3a DEF TransmitTyped, OneBuilder, LocksTyped, Transmit!OneLock
<1>5. \A s \in Sender : Due(s) \in Nat /\ Due(s)' = Due(s)
  BY <1>1 DEF TransmitTyped, Due
<1>6. Ordered'
  BY <1>1, <1>5, StaysOrdered DEF Transmit!OneLock
<1>7. WholeFrames'
  <2>. SUFFICES ASSUME Transmit!OneLock, ~carried'
                PROVE  WholeFrames'
    BY <1>1 DEF WholeFrames, Transmit!OneLock
  <2>0. ~carried
    BY <1>1
  <2>1. \A l \in 1..MaxLinks : Transmit!Whole(notified[l])
    BY <1>1, <2>0 DEF WholeFrames
  <2>2. CASE link' = Transmit!LinkDown /\ swept' = "no"
    BY <1>1, <2>1, <2>2 DEF WholeFrames
  <2>3. CASE link = Transmit!LinkDown /\ swept = "emptied" /\ links < MaxLinks /\ links' = links + 1 /\ link' = links'
    <3>1. Transmit!Whole(tx_buf) /\ Len(tx_buf) % 2 = 0 /\ tx_buf \in Seq(Letter)
      BY <1>1, <2>0, <2>3 DEF WholeFrames, TransmitTyped
    <3>2. link' \in 1..MaxLinks /\ link' > links
      BY <1>0, <1>2, <2>3
    <3>3. notified[link'] = <<>>
      BY <1>1, <3>2 DEF TransmitTyped
    <3>4. <<>> \o tx_buf = tx_buf /\ Len(<<>>) + Len(tx_buf) = Len(tx_buf)
      BY <3>1
    <3>5. link' # Transmit!LinkDown
      BY <3>2 DEF Transmit!LinkDown
    <3>. QED  BY <1>1, <2>1, <3>1, <3>3, <3>4, <3>5 DEF WholeFrames
  <2>. QED  BY <1>1, <2>2, <2>3
<1>. QED  BY <1>4, <1>6, <1>7 DEF TransmitInv

LEMMA TransmitBegins ==
  ASSUME Transmit!TransmitAssumption, Transmit!Init
  PROVE  TransmitInv
<1>1. <<Transmit!NoByte, Transmit!NoByte>> \in Seq(Letter) /\ <<>> \in Seq(Letter)
  <2>1. Transmit!NoByte \in Letter
    BY DEF Transmit!NoByte, Letter, Transmit!Caller
  <2>. QED  BY <2>1
<1>2. TransmitTyped /\ OneBuilder
  <2>. HIDE DEF Letter
  <2>1. OneBuilder
    BY DEF Transmit!Init, OneBuilder, LocksTyped, Transmit!Building, Transmit!Caller
  <2>2. TransmitTyped
    <3>1. pc = [t \in Transmit!Caller |-> "idle"] /\ frame = [s \in Sender |-> 0]
          /\ links = 0 /\ link = 0 /\ notified = [l \in 1..MaxLinks |-> <<>>]
          /\ tx_buf = <<>> /\ tx_scratch = <<Transmit!NoByte, Transmit!NoByte>>
          /\ tx_mutex = Transmit!NoTask /\ swept = "emptied" /\ carried = FALSE
      BY DEF Transmit!Init, Transmit!LinkDown
    <3>2. /\ pc \in [Transmit!Caller -> {"idle", "create", "load", "take"} \union Transmit!Building]
          /\ frame \in [Sender -> Nat]
          /\ links \in 0..MaxLinks /\ link \in {Transmit!LinkDown, links}
      BY <3>1 DEF Transmit!LinkDown, Transmit!TransmitAssumption
    <3>3. notified \in [1..MaxLinks -> Seq(Letter)] /\ \A l \in 1..MaxLinks : notified[l] = <<>>
      BY <1>1, <3>1
    <3>4. tx_scratch \in Seq(Letter) /\ Len(tx_scratch) = 2
      BY <1>1, <3>1
    <3>. QED  BY <1>1, <3>1, <3>2, <3>3, <3>4 DEF TransmitTyped
  <2>. QED  BY <2>1, <2>2
<1>3. WholeFrames
  BY WholeFrame DEF Transmit!Init, WholeFrames, Transmit!LinkDown, Transmit!TransmitAssumption
<1>4. Ordered
  BY NothingPrecedes DEF Transmit!Init, Ordered
<1>. QED  BY <1>2, <1>3, <1>4 DEF TransmitInv

LEMMA TransmitSteps ==
  ASSUME Transmit!TransmitAssumption, TransmitInv, [Transmit!Next]_(Transmit!vars)
  PROVE  TransmitInv'
<1>1. CASE Transmit!SetBleEnabled \/ UNCHANGED Transmit!vars
  <2>1. UNCHANGED <<pc, frame, mine, held, created, tx_scratch_lock, tx_scratch, tx_buf, link, links, swept,
                  carried, notified>>
    BY <1>1 DEF Transmit!SetBleEnabled, Transmit!vars, Transmit!scratchVars, Transmit!lockVars,
                Transmit!linkVars
  <2>. QED  BY <2>1 DEF TransmitInv, TransmitTyped, OneBuilder, LocksTyped, WholeFrames, Ordered, Due,
                      Transmit!OneLock
<1>2. ASSUME NEW s \in Sender, Transmit!SendKiss(s) \/ Transmit!Send(s)
      PROVE  TransmitInv'
  BY <1>2, BuildInv, AppendInv DEF Transmit!Send
<1>3. ASSUME NEW t \in Transmit!Caller, Transmit!Flush(t)
      PROVE  TransmitInv'
  BY <1>3, FlushInv, NotifyInv DEF Transmit!Flush
<1>. QED  BY <1>1, <1>2, <1>3, LinkInv DEF Transmit!Next
-----------------------------------------------------------------------------
LEMMA TransmitInvariance ==
  ASSUME Transmit!TransmitAssumption
  PROVE  Transmit!Spec => []TransmitInv
<1>1. Transmit!Init => TransmitInv
  BY TransmitBegins
<1>2. TransmitInv /\ [Transmit!Next]_(Transmit!vars) => TransmitInv'
  BY TransmitSteps
<1>. QED  BY <1>1, <1>2, PTL DEF Transmit!Spec

(* With one tx_scratch_lock, and no link over what the one before it left   *)
(* in the buffer, what a central is notified of are whole frames back to    *)
(* back, for any tasks, buffer and chunk sizes and numbers of links         *)
(* (ble.c:753-858).                                                         *)
THEOREM FramesGoOutWhole ==
  ASSUME Transmit!TransmitAssumption
  PROVE  Transmit!Spec => []FrameAtomic
<1>1. TransmitInv => FrameAtomic
  BY DEF TransmitInv, WholeFrames, FrameAtomic, Transmit!FrameAtomic
<1>. QED  BY <1>1, TransmitInvariance, PTL

(* With one tx_scratch_lock, no frame is sent twice and the frames of a     *)
(* task keep their order, over all links (kiss.c:57-97, ble.c:753-858).    *)
THEOREM FramesGoOutOnce ==
  ASSUME Transmit!TransmitAssumption
  PROVE  Transmit!Spec => []SentOnceInOrder
<1>1. TransmitInv => SentOnceInOrder
  BY DEF TransmitInv, Ordered, SentOnceInOrder, Transmit!SentOnceInOrder
<1>. QED  BY <1>1, TransmitInvariance, PTL
=============================================================================
