----------------------------- MODULE RnsListener ----------------------------
(***************************************************************************)
(* Starting, stopping and replacing the listener task of the RNS TCP proxy *)
(* (rns_proxy.c).  The HTTP task saves a configuration and calls           *)
(* rns_proxy_restart(), which asks the running listener to go, waits for   *)
(* it at most one second and starts another.  What a listener does with a  *)
(* client it accepts is the business of RnsProxy; here it only takes time. *)
(***************************************************************************)
EXTENDS Naturals, FiniteSets

CONSTANTS
  Task, NULL,   (* listener tasks, each created once; no task               *)
  Port,         (* listening ports                                          *)
  MaxSlow,      (* bound: rounds of a listener that take over a second      *)
  MaxFail       (* bound: calls of xTaskCreate or socket() that fail        *)

ASSUME ListenerAssumption ==
  /\ NULL \notin Task
  /\ MaxSlow \in Nat /\ MaxFail \in Nat

VARIABLES
  cfg,            (* the saved rns_proxy_enabled and rns_proxy_port         *)
  at, port,       (* where each listener task is, and the port it bound     *)
  s_listen_task,  (* handle of the running listener                         *)
  s_restart_req,
  http,           (* where rns_proxy_restart is; idle outside it            *)
  slow, fails     (* counters for the bounds                                *)

vars == <<cfg, at, port, s_listen_task, s_restart_req, http, slow, fails>>

Config == [enabled : BOOLEAN, port : Port]

\* rns_proxy_init: the boot starts a listener when it is enabled.
Init ==
  /\ cfg \in Config
  /\ at = [t \in Task |-> "unborn"]
  /\ port \in [Task -> {cfg.port}]
  /\ s_listen_task = NULL
  /\ s_restart_req = FALSE
  /\ http = IF cfg.enabled THEN "start" ELSE "idle"
  /\ slow = 0 /\ fails = 0

Alive == {t \in Task : at[t] \notin {"unborn", "gone"}}
Listening(p) == {t \in Task : at[t] \in {"select", "serve", "close"} /\ port[t] = p}
-----------------------------------------------------------------------------
(* The HTTP task.                                                           *)

\* A configuration is saved and rns_proxy_restart() called.
Restart(c) ==
  /\ http = "idle"
  /\ \E t \in Task : at[t] = "unborn"
  /\ cfg' = c
  /\ IF s_listen_task # NULL
     THEN s_restart_req' = TRUE /\ http' = "wait"
     ELSE UNCHANGED s_restart_req /\ http' = "read"
  /\ UNCHANGED <<at, port, s_listen_task, slow, fails>>

WaitEnds ==
  /\ http = "wait"
  /\ s_listen_task = NULL
  /\ http' = "read"
  /\ UNCHANGED <<cfg, at, port, s_listen_task, s_restart_req, slow, fails>>

\* 50 polls of 20 ms: the listener polls every 250 ms, unless one round of
\* it takes too long.
WaitTimesOut ==
  /\ http = "wait"
  /\ s_listen_task # NULL
  /\ \E t \in Task : at[t] = "serve"
  /\ slow < MaxSlow
  /\ slow' = slow + 1
  /\ http' = "read"
  /\ UNCHANGED <<cfg, at, port, s_listen_task, s_restart_req, fails>>

ReadsEnabled ==
  /\ http = "read"
  /\ http' = IF cfg.enabled THEN "start" ELSE "idle"
  /\ UNCHANGED <<cfg, at, port, s_listen_task, s_restart_req, slow, fails>>

\* start_listener.
StartListener ==
  /\ http = "start"
  /\ s_restart_req' = FALSE
  /\ \/ \E t \in Task : /\ at[t] = "unborn"
                        /\ at' = [at EXCEPT ![t] = "open"]
                        /\ s_listen_task' = t
                        /\ UNCHANGED fails
     \/ /\ fails < MaxFail
        /\ fails' = fails + 1
        /\ s_listen_task' = NULL
        /\ UNCHANGED at
  /\ http' = "idle"
  /\ UNCHANGED <<cfg, port, slow>>

HttpTask == WaitEnds \/ WaitTimesOut \/ ReadsEnabled \/ StartListener
-----------------------------------------------------------------------------
(* A listener task.                                                         *)

\* The port is read when the task runs.
Opens(t) ==
  /\ at[t] = "open"
  /\ Listening(cfg.port) = {}
  /\ at' = [at EXCEPT ![t] = "select"]
  /\ port' = [port EXCEPT ![t] = cfg.port]
  /\ UNCHANGED <<cfg, s_listen_task, s_restart_req, http, slow, fails>>

\* No socket, or the port is taken.
OpenFails(t) ==
  /\ at[t] = "open"
  /\ \/ Listening(cfg.port) # {} /\ UNCHANGED fails
     \/ fails < MaxFail /\ fails' = fails + 1
  /\ s_listen_task' = NULL
  /\ at' = [at EXCEPT ![t] = "gone"]
  /\ UNCHANGED <<cfg, port, s_restart_req, http, slow>>

\* Every round of the loop: the request is looked at after select() and
\* before accept().
Accepts(t) ==
  /\ at[t] = "select"
  /\ ~s_restart_req
  /\ at' = [at EXCEPT ![t] = "serve"]
  /\ UNCHANGED <<cfg, port, s_listen_task, s_restart_req, http, slow, fails>>

Serves(t) ==
  /\ at[t] = "serve"
  /\ at' = [at EXCEPT ![t] = "select"]
  /\ UNCHANGED <<cfg, port, s_listen_task, s_restart_req, http, slow, fails>>

\* The handle is forgotten while the socket still listens.
StopsEarly(t) ==
  /\ at[t] = "select"
  /\ s_restart_req
  /\ s_listen_task' = NULL
  /\ UNCHANGED <<cfg, at, port, s_restart_req, http, slow, fails>>

Stops(t) ==
  /\ at[t] = "select"
  /\ s_restart_req
  /\ at' = [at EXCEPT ![t] = "close"]
  /\ UNCHANGED <<cfg, port, s_listen_task, s_restart_req, http, slow, fails>>

\* close(listen_fd) has released the port.
Exits(t) ==
  /\ at[t] = "close"
  /\ s_listen_task' = NULL
  /\ at' = [at EXCEPT ![t] = "gone"]
  /\ UNCHANGED <<cfg, port, s_restart_req, http, slow, fails>>

ListenTask(t) ==
  Opens(t) \/ OpenFails(t) \/ Accepts(t) \/ Serves(t) \/ Stops(t) \/ Exits(t)

Next ==
  \/ \E c \in Config : Restart(c)
  \/ HttpTask
  \/ \E t \in Task : ListenTask(t)

Spec == Init /\ [][Next]_vars

\* Both tasks run; a listener's round ends.
FairSpec == Spec /\ WF_vars(HttpTask) /\ \A t \in Task : WF_vars(ListenTask(t))
-----------------------------------------------------------------------------
(* Types, and the handle of a live task is nobody else's.                   *)
TypeOK ==
  /\ cfg \in Config
  /\ at \in [Task -> {"unborn", "open", "select", "serve", "close", "gone"}]
  /\ port \in [Task -> Port]
  /\ s_listen_task \in Task \union {NULL}
  /\ s_listen_task # NULL => at[s_listen_task] \notin {"unborn", "gone"}
  /\ s_restart_req \in BOOLEAN
  /\ http \in {"idle", "wait", "read", "start"}
  /\ slow \in 0..MaxSlow /\ fails \in 0..MaxFail

(* rns_proxy_restart applies the configuration: when it has returned, and  *)
(* nothing failed and no listener was slow, a disabled proxy has no         *)
(* listener and an enabled one has exactly one, the one the handle names,   *)
(* which listens on the configured port or is about to.                     *)
RestartApplies ==
  http = "idle" /\ fails = 0 /\ slow = 0 =>
    /\ Alive = IF cfg.enabled THEN {s_listen_task} ELSE {}
    /\ \A t \in Alive : at[t] = "open" \/ (port[t] = cfg.port /\ at[t] # "close")

-----------------------------------------------------------------------------
(* Said of this code and not so: each is refuted (README, Divergences).     *)

(* inc/rns_proxy.h:21-22, "If the proxy is being disabled, the listener is  *)
(* stopped": once the proxy is disabled and rns_proxy_restart has returned, *)
(* every listener goes, unless the proxy is enabled again.                  *)
DisabledStops == (http = "idle" /\ ~cfg.enabled) ~> (Alive = {} \/ cfg.enabled)
=============================================================================
