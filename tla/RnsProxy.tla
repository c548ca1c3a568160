------------------------------- MODULE RnsProxy -----------------------------
(***************************************************************************)
(* The TCP interface (rns_proxy.c): the listener task accepts Reticulum    *)
(* clients and puts the newest into the single slot s_tcp_client_fd, a     *)
(* session task per client reads until its connection ends.  tcp_sink,     *)
(* which sends to whatever the slot names, changes nothing here (what it   *)
(* answers the switch is in Switch); starting and replacing the listener   *)
(* is the business of RnsListener.                                         *)
(*                                                                         *)
(* Socket numbers are a small pool shared with the rest of the firmware: a *)
(* number that was closed is handed out again by the next socket() or      *)
(* accept(), to whoever calls it.  A session receives by number too, so    *)
(* what it reads next may be somebody else's.  What it read goes through   *)
(* RnsFraming into Switch, which may take long, and changes nothing here.  *)
(***************************************************************************)
CONSTANTS
  Client,     (* connections that clients make, each once                   *)
  Fd, NoFd,   (* socket numbers, and -1                                     *)
  NoClient    (* nobody: that the listener sets up, or that a session reads *)

ProxyAssumption == NoFd \notin Fd /\ NoClient \notin Client

Free  == "free"
Other == "other"

VARIABLES
  owner,           (* who has each socket number: a client's connection,    *)
                   (* another part of the firmware, or nobody               *)
  conn,            (* conn[c]: away, open, or over                          *)
  session,         (* session[c]: where the session task of c is            *)
  reading,         (* reading[c]: whose socket its recv() waits on          *)
  client_fd,       (* client_fd[c]: the number accept() returned for c      *)
  s_tcp_client_fd, (* the slot                                              *)
  listen           (* the listener: its step, the client it sets up and the *)
                   (* number it found in the slot                           *)

sessionVars == <<session, reading>>
vars == <<owner, conn, sessionVars, client_fd, s_tcp_client_fd, listen>>

Waiting == [at |-> "select", client |-> NoClient, prev |-> NoFd]

Init ==
  /\ owner = [f \in Fd |-> Free]
  /\ conn = [c \in Client |-> "away"]
  /\ session = [c \in Client |-> "none"]
  /\ reading = [c \in Client |-> NoClient]
  /\ client_fd = [c \in Client |-> NoFd]
  /\ s_tcp_client_fd = NoFd
  /\ listen = Waiting

\* close(f) and shutdown(f) hit the connection that has the number now.
Ended(f) == IF owner[f] \in Client THEN [conn EXCEPT ![owner[f]] = "over"] ELSE conn
Close(f) ==
  /\ conn' = Ended(f)
  /\ owner' = [owner EXCEPT ![f] = Free]
-----------------------------------------------------------------------------
(* The listener task, from accept() on.                                     *)

\* select and accept: any number that is free.
Accept(c) ==
  /\ listen.at = "select"
  /\ conn[c] = "away"
  /\ \E f \in Fd :
       /\ owner[f] = Free
       /\ owner' = [owner EXCEPT ![f] = c]
       /\ client_fd' = [client_fd EXCEPT ![c] = f]
  /\ conn' = [conn EXCEPT ![c] = "open"]
  /\ listen' = [listen EXCEPT !.at = "admit", !.client = c]
  /\ UNCHANGED <<sessionVars, s_tcp_client_fd>>

New == listen.client
NewFd == client_fd[New]

\* peer_allowed() says no.
Reject ==
  /\ listen.at = "admit"
  /\ Close(NewFd)
  /\ listen' = Waiting
  /\ UNCHANGED <<sessionVars, client_fd, s_tcp_client_fd>>

\* Mutant: the previous client is left alone.
TakeSlotOnly ==
  /\ listen.at = "admit"
  /\ s_tcp_client_fd' = NewFd
  /\ listen' = [listen EXCEPT !.at = "spawn", !.prev = s_tcp_client_fd]
  /\ UNCHANGED <<owner, conn, sessionVars, client_fd>>

TakeSlot ==
  /\ listen.at = "admit"
  /\ s_tcp_client_fd' = NewFd
  /\ listen' = [listen EXCEPT !.at = IF s_tcp_client_fd # NoFd THEN "shutdown" ELSE "spawn",
                              !.prev = s_tcp_client_fd]
  /\ UNCHANGED <<owner, conn, sessionVars, client_fd>>

ShutdownPrevious ==
  /\ listen.at = "shutdown"
  /\ conn' = Ended(listen.prev)
  /\ listen' = [listen EXCEPT !.at = "close"]
  /\ UNCHANGED <<owner, sessionVars, client_fd, s_tcp_client_fd>>

ClosePrevious ==
  /\ listen.at = "close"
  /\ Close(listen.prev)
  /\ listen' = [listen EXCEPT !.at = "spawn"]
  /\ UNCHANGED <<sessionVars, client_fd, s_tcp_client_fd>>

Spawn ==
  /\ listen.at = "spawn"
  /\ session' = [session EXCEPT ![New] = "busy"]
  /\ listen' = Waiting
  /\ UNCHANGED <<reading, owner, conn, client_fd, s_tcp_client_fd>>

\* No memory for the context or the task: close, then clear the slot.
SpawnFails ==
  /\ listen.at = "spawn"
  /\ Close(NewFd)
  /\ listen' = [listen EXCEPT !.at = "clear"]
  /\ UNCHANGED <<sessionVars, client_fd, s_tcp_client_fd>>

ClearSlot ==
  /\ listen.at = "clear"
  /\ s_tcp_client_fd' = IF s_tcp_client_fd = NewFd THEN NoFd ELSE s_tcp_client_fd
  /\ listen' = Waiting
  /\ UNCHANGED <<owner, conn, sessionVars, client_fd>>

Listener ==
  \/ Reject \/ TakeSlot \/ ShutdownPrevious \/ ClosePrevious
  \/ Spawn \/ SpawnFails \/ ClearSlot
-----------------------------------------------------------------------------
(* rns_proxy_session_task.                                                  *)

\* The session calls recv(), for the first time or after it handed on what it
\* had read: it waits on the socket that has the number now.
SessionRecv(c) ==
  /\ session[c] = "busy"
  /\ IF owner[client_fd[c]] = Free
     THEN session' = [session EXCEPT ![c] = "detach"] /\ UNCHANGED reading
     ELSE /\ session' = [session EXCEPT ![c] = "recv"]
          /\ reading' = [reading EXCEPT ![c] = owner[client_fd[c]]]
  /\ UNCHANGED <<owner, conn, client_fd, s_tcp_client_fd, listen>>

RecvReturns(c, step) ==
  /\ session[c] = "recv"
  /\ session' = [session EXCEPT ![c] = step]
  /\ reading' = [reading EXCEPT ![c] = NoClient]
  /\ UNCHANGED <<owner, conn, client_fd, s_tcp_client_fd, listen>>

\* With bytes; with the end of the connection; with whatever a socket that
\* is not a client's does.
SessionReads(c) ==
  /\ reading[c] \in Client => conn[reading[c]] = "open"
  /\ RecvReturns(c, "busy")

SessionEnds(c) ==
  /\ reading[c] \in Client /\ conn[reading[c]] = "over"
  /\ RecvReturns(c, "detach")

OtherEnds(c) ==
  /\ reading[c] = Other
  /\ RecvReturns(c, "detach")

\* Mutant: the slot keeps the number of an ended session.
SessionStaysInSlot(c) ==
  /\ session[c] = "detach"
  /\ session' = [session EXCEPT ![c] = "close"]
  /\ UNCHANGED <<reading, owner, conn, client_fd, s_tcp_client_fd, listen>>

SessionDetach(c) ==
  /\ session[c] = "detach"
  /\ s_tcp_client_fd' = IF s_tcp_client_fd = client_fd[c] THEN NoFd ELSE s_tcp_client_fd
  /\ session' = [session EXCEPT ![c] = "close"]
  /\ UNCHANGED <<reading, owner, conn, client_fd, listen>>

SessionClose(c) ==
  /\ session[c] = "close"
  /\ Close(client_fd[c])
  /\ session' = [session EXCEPT ![c] = "gone"]
  /\ UNCHANGED <<reading, client_fd, s_tcp_client_fd, listen>>

Session(c) == SessionRecv(c) \/ SessionEnds(c) \/ SessionDetach(c) \/ SessionClose(c)
-----------------------------------------------------------------------------
(* Clients, the network and the other users of sockets.                     *)

ConnectionEnds(c) ==
  /\ conn[c] = "open"
  /\ conn' = [conn EXCEPT ![c] = "over"]
  /\ UNCHANGED <<owner, sessionVars, client_fd, s_tcp_client_fd, listen>>

OtherOpens(f) ==
  /\ owner[f] = Free
  /\ owner' = [owner EXCEPT ![f] = Other]
  /\ UNCHANGED <<conn, sessionVars, client_fd, s_tcp_client_fd, listen>>

OtherCloses(f) ==
  /\ owner[f] = Other
  /\ owner' = [owner EXCEPT ![f] = Free]
  /\ UNCHANGED <<conn, sessionVars, client_fd, s_tcp_client_fd, listen>>

Next ==
  \/ \E c \in Client : Accept(c) \/ Session(c) \/ ConnectionEnds(c)
  \/ \E c \in Client : SessionReads(c) \/ OtherEnds(c)
  \/ Listener
  \/ \E f \in Fd : OtherOpens(f) \/ OtherCloses(f)

Spec == Init /\ [][Next]_vars

(* The tasks run, and none of their calls but recv() blocks for ever; that  *)
(* one returns when the connection it waits on has ended.  Clients come,    *)
(* send, stay and go as they like, and so do the other sockets.             *)
Fairness == WF_vars(Listener) /\ \A c \in Client : WF_vars(Session(c))

FairSpec == Spec /\ Fairness
-----------------------------------------------------------------------------
TypeOK ==
  /\ owner \in [Fd -> Client \union {Free, Other}]
  /\ conn \in [Client -> {"away", "open", "over"}]
  /\ session \in [Client -> {"none", "busy", "recv", "detach", "close", "gone"}]
  /\ reading \in [Client -> Client \union {Other, NoClient}]
  /\ client_fd \in [Client -> Fd \union {NoFd}]
  /\ s_tcp_client_fd \in Fd \union {NoFd}
  /\ listen \in [at : {"select", "admit", "shutdown", "close", "spawn", "clear"},
                 client : Client \union {NoClient}, prev : Fd \union {NoFd}]
  /\ listen.at \in {"shutdown", "close"} => listen.prev # NoFd

(* "A single inbound TCP Reticulum client at a time" (rns_proxy.c:3-4): of  *)
(* the connections that are open, all but one end, whatever the sessions    *)
(* read and whatever numbers are reused meanwhile.                          *)
OneAtMost == \A c, d \in Client : conn[c] = "open" /\ conn[d] = "open" => c = d
SingleClient == ~OneAtMost ~> OneAtMost

(* A dead client does not keep the slot: a number in the slot that is not   *)
(* that of an open connection leaves it, so the switch stops offering       *)
(* packets to it, unless the session that is to take it out waits on a      *)
(* socket that is not a client's.                                           *)
Dead(f) == f # NoFd /\ (owner[f] \in Client => conn[owner[f]] # "open")
Astray(f) == \E c \in Client : client_fd[c] = f /\ reading[c] = Other
SlotHeals == Dead(s_tcp_client_fd) ~> (~Dead(s_tcp_client_fd) \/ Astray(s_tcp_client_fd))
-----------------------------------------------------------------------------
(* Said of this code and not so: each is refuted (README, Divergences).     *)

(* rns_proxy.c:349-350, "it then closes the fd and detaches itself": the    *)
(* number a session closes is its own, or nobody's, but not somebody        *)
(* else's.                                                                  *)
ClosesOnlyItsOwn ==
  \A c \in Client : session[c] = "close" => owner[client_fd[c]] \in {c, Free}

(* The same, "shutdown() wakes the session task's recv()": a session reads  *)
(* its own client's connection and no other.                                *)
ReadsItsOwn == \A c \in Client : session[c] = "recv" => reading[c] = c

(* rns_proxy.c:183-184, "write it on the current client_fd": the number     *)
(* tcp_sink finds in the slot is that of a client.                          *)
SendsToClients ==
  s_tcp_client_fd # NoFd => owner[s_tcp_client_fd] # Other

(* rns_proxy.h:15-16, "idle connections are closed": every session ends,    *)
(* even that of a client that neither sends nor leaves.                     *)
IdleClosed ==
  \A c \in Client : session[c] = "recv" ~> session[c] = "gone"
=============================================================================
