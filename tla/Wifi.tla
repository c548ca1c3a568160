--------------------------------- MODULE Wifi --------------------------------
(***************************************************************************)
(* The WiFi station (wifi.c): the event task that reconnects for ever with *)
(* exponential backoff, the one-shot timer that does it for long delays,   *)
(* and the HTTP server's task, the only one that changes the configuration *)
(* (wifi_apply) or tries a network out and takes the old one back if that  *)
(* fails (wifi_sta_connect).  The driver posts its events into a queue and *)
(* is the environment, with the networks it finds or loses.                *)
(*                                                                         *)
(* The access point is enabled throughout: without the station the mode is *)
(* AP.  A saved configuration is the station's switch and network; that a  *)
(* network was not reached before is part of its name.                     *)
(***************************************************************************)
EXTENDS Integers, Sequences

CONSTANTS
  Net,                  (* network names                                    *)
  Reachable,            (* those that answer with the right password        *)
  STA_CONNECT_TRIES,
  STA_BACKOFF_MIN, STA_BACKOFF_MAX,  (* in any unit of time                 *)
  INT_RANGE,            (* values of the int that holds a delay, same unit  *)
  MaxRetry,             (* bound: sta_retry stops counting here             *)
  MaxConnect,           (* bound: calls of wifi_sta_connect                 *)
  MaxPost,              (* bound: configurations posted                     *)
  MaxDrop               (* bound: connections lost                          *)

ASSUME WifiAssumption ==
  /\ Reachable \subseteq Net
  /\ {STA_CONNECT_TRIES, STA_BACKOFF_MIN, MaxRetry} \subseteq Nat \ {0}
  /\ STA_BACKOFF_MAX \in Nat /\ STA_BACKOFF_MIN <= STA_BACKOFF_MAX
  /\ STA_BACKOFF_MAX < INT_RANGE \div 2
  /\ {MaxConnect, MaxPost, MaxDrop} \subseteq Nat

Config == [enabled : BOOLEAN, ssid : Net]

VARIABLES
  cfg,          (* the saved configuration                                  *)
  driver,       (* what the station does (off, idle, trying, up), and with  *)
                (* which network                                            *)
  sta_config,   (* the network of esp_wifi_set_config                       *)
  queue,        (* events posted and not handled                            *)
  sleeping,     (* the event task is in the vTaskDelay of a short backoff   *)
  sta_retry, backoff,           (* retries, and the delay of the last       *)
  reconnect_armed,              (* the one-shot timer runs                  *)
  s_connect_pending, s_connect_tries, s_wifi_eg,
  s_sta_connected,
  http,         (* where the HTTP task is, the network it tries, the        *)
                (* configuration before, its answer, what gave an IP since  *)
  connects, posts, drops        (* counters for the bounds                  *)

eventVars == <<sleeping, sta_retry, backoff, reconnect_armed>>
pendingVars == <<s_connect_pending, s_connect_tries, s_wifi_eg>>
bounds == <<connects, posts, drops>>
vars == <<cfg, driver, sta_config, queue, eventVars, pendingVars, s_sta_connected,
          http, bounds>>

Init ==
  /\ cfg \in Config
  /\ sta_config = cfg.ssid
  /\ driver = [at |-> IF cfg.enabled THEN "idle" ELSE "off", net |-> cfg.ssid]
  /\ queue = IF cfg.enabled THEN <<"start">> ELSE <<>>
  /\ sleeping = FALSE /\ reconnect_armed = FALSE
  /\ sta_retry = 0 /\ backoff = STA_BACKOFF_MIN
  /\ s_connect_pending = FALSE /\ s_connect_tries = 0 /\ s_wifi_eg = {}
  /\ s_sta_connected = FALSE
  /\ http = [at |-> "idle", ssid |-> cfg.ssid, prev |-> cfg, answer |-> "none",
             reached |-> FALSE]
  /\ connects = 0 /\ posts = 0 /\ drops = 0
-----------------------------------------------------------------------------
(* Driver calls, as their effect on driver and queue.                       *)

\* esp_wifi_connect: refused, with no event, unless the station is idle.
EspConnect == driver' = IF driver.at = "idle"
                        THEN [at |-> "trying", net |-> sta_config] ELSE driver

\* A disconnect or stop that ends something posts reason ASSOC_LEAVE.
Leaving(q) == IF driver.at \in {"trying", "up"} THEN Append(q, "leave") ELSE q
-----------------------------------------------------------------------------
(* on_wifi_event.                                                           *)

Handles(event) ==
  /\ ~sleeping
  /\ queue # <<>> /\ Head(queue) = event
  /\ queue' = Tail(queue)

HandleStart ==
  /\ Handles("start")
  /\ IF cfg.enabled \/ s_connect_pending
     THEN sta_retry' = 0 /\ EspConnect
     ELSE UNCHANGED <<sta_retry, driver>>
  /\ UNCHANGED <<cfg, sta_config, sleeping, backoff, reconnect_armed, pendingVars,
                 s_sta_connected, http, bounds>>

\* An interactive attempt is repeated at once, or has failed.
RetryInteractive(reason) ==
  LET tries == IF reason = "leave" THEN s_connect_tries ELSE s_connect_tries + 1
  IN  /\ s_connect_tries' = tries
      /\ IF reason \notin {"auth", "no_ap"} /\ tries < STA_CONNECT_TRIES
         THEN EspConnect /\ UNCHANGED s_wifi_eg
         ELSE s_wifi_eg' = s_wifi_eg \union {"fail"} /\ UNCHANGED driver
      /\ UNCHANGED <<eventVars, s_connect_pending>>

\* STA_BACKOFF_MIN << n in an int of INT_RANGE values, two's complement.
Shifted[n \in 0..MaxRetry] ==
  IF n = 0 THEN STA_BACKOFF_MIN ELSE (2 * Shifted[n - 1]) % INT_RANGE
Delay(retry) ==
  LET raw == Shifted[retry - 1]
      d   == IF raw >= INT_RANGE \div 2 THEN raw - INT_RANGE ELSE raw
  IN  IF d > STA_BACKOFF_MAX THEN STA_BACKOFF_MAX ELSE d

\* The long delay is forgotten.
RetryBackgroundOnce ==
  LET retry == IF sta_retry < MaxRetry THEN sta_retry + 1 ELSE MaxRetry
  IN  /\ sta_retry' = retry
      /\ backoff' = Delay(retry)
      /\ sleeping' = (Delay(retry) <= STA_BACKOFF_MIN)
      /\ UNCHANGED <<reconnect_armed, driver, pendingVars>>

\* A short delay is slept through, a longer one is the timer's.
RetryBackground ==
  LET retry == IF sta_retry < MaxRetry THEN sta_retry + 1 ELSE MaxRetry
  IN  /\ sta_retry' = retry
      /\ backoff' = Delay(retry)
      /\ IF Delay(retry) <= STA_BACKOFF_MIN
         THEN sleeping' = TRUE /\ UNCHANGED reconnect_armed
         ELSE reconnect_armed' = TRUE /\ UNCHANGED sleeping
      /\ UNCHANGED <<driver, pendingVars>>

\* The status is left as it was.
HandleDisconnectedKeepsStatus(reason) ==
  /\ Handles(reason)
  /\ CASE s_connect_pending -> RetryInteractive(reason)
       [] ~s_connect_pending /\ cfg.enabled -> RetryBackground
       [] OTHER -> UNCHANGED <<driver, eventVars, pendingVars>>
  /\ UNCHANGED <<cfg, sta_config, s_sta_connected, http, bounds>>

HandleDisconnected(reason) ==
  /\ Handles(reason)
  /\ s_sta_connected' = FALSE
  /\ CASE s_connect_pending -> RetryInteractive(reason)
       [] ~s_connect_pending /\ cfg.enabled -> RetryBackground
       [] OTHER -> UNCHANGED <<driver, eventVars, pendingVars>>
  /\ UNCHANGED <<cfg, sta_config, http, bounds>>

SleepEnds ==
  /\ sleeping
  /\ sleeping' = FALSE
  /\ EspConnect
  /\ UNCHANGED <<cfg, sta_config, queue, sta_retry, backoff, reconnect_armed,
                 pendingVars, s_sta_connected, http, bounds>>

HandleGotIp ==
  /\ Handles("ip")
  /\ sta_retry' = 0
  /\ s_sta_connected' = TRUE
  /\ reconnect_armed' = FALSE
  /\ s_wifi_eg' = IF s_connect_pending THEN s_wifi_eg \union {"connected"} ELSE s_wifi_eg
  /\ UNCHANGED <<cfg, driver, sta_config, sleeping, backoff, s_connect_pending,
                 s_connect_tries, http, bounds>>

\* sta_reconnect_timer_cb, in the timer task.
TimerFires ==
  /\ reconnect_armed
  /\ reconnect_armed' = FALSE
  /\ IF cfg.enabled /\ ~s_connect_pending THEN EspConnect ELSE UNCHANGED driver
  /\ UNCHANGED <<cfg, sta_config, queue, sleeping, sta_retry, backoff, pendingVars,
                 s_sta_connected, http, bounds>>

Reason == {"leave", "auth", "no_ap", "lost"}
EventTask ==
  \/ HandleStart \/ SleepEnds \/ HandleGotIp
  \/ \E reason \in Reason : HandleDisconnected(reason)
-----------------------------------------------------------------------------
(* The HTTP task: wifi_sta_connect.                                         *)

HttpAt(step) == http' = [http EXCEPT !.at = step]
Returns(answer) == http' = [http EXCEPT !.at = "idle", !.answer = answer]

ConnectSaves(ssid) ==
  /\ http.at = "idle"
  /\ connects < MaxConnect
  /\ connects' = connects + 1
  /\ http' = [at |-> "set", ssid |-> ssid, prev |-> cfg, answer |-> "none",
              reached |-> FALSE]
  /\ cfg' = [enabled |-> TRUE, ssid |-> ssid]
  /\ UNCHANGED <<driver, sta_config, queue, eventVars, pendingVars, s_sta_connected,
                 posts, drops>>

\* In AP mode there is no station to configure, and a driver that connects
\* may refuse another configuration.
ConnectSetFails ==
  /\ http.at = "set"
  /\ driver.at \in {"off", "trying"}
  /\ Returns("refused")
  /\ UNCHANGED <<cfg, driver, sta_config, queue, eventVars, pendingVars,
                 s_sta_connected, bounds>>

ConnectSets ==
  /\ http.at = "set"
  /\ driver.at # "off"
  /\ sta_config' = http.ssid
  /\ s_wifi_eg' = {} /\ s_connect_tries' = 0 /\ s_connect_pending' = TRUE
  /\ HttpAt("disconnect")
  /\ UNCHANGED <<cfg, driver, queue, eventVars, s_sta_connected, bounds>>

ConnectDisconnects ==
  /\ http.at = "disconnect"
  /\ queue' = Leaving(queue)
  /\ driver' = [driver EXCEPT !.at = "idle"]
  /\ HttpAt("connect")
  /\ UNCHANGED <<cfg, sta_config, eventVars, pendingVars, s_sta_connected, bounds>>

ConnectConnects ==
  /\ http.at = "connect"
  /\ EspConnect
  /\ HttpAt("wait")
  /\ UNCHANGED <<cfg, sta_config, queue, eventVars, pendingVars, s_sta_connected, bounds>>

\* An error other than "a connect is in flight".
ConnectRefused ==
  /\ http.at = "connect"
  /\ s_connect_pending' = FALSE
  /\ Returns("refused")
  /\ UNCHANGED <<cfg, driver, sta_config, queue, eventVars, s_connect_tries, s_wifi_eg,
                 s_sta_connected, bounds>>

\* A bit is set, or the time is up.
ConnectEnds ==
  /\ http.at = "wait"
  /\ s_connect_pending' = FALSE
  /\ IF "connected" \in s_wifi_eg
     THEN Returns("ok") /\ UNCHANGED cfg
     ELSE /\ cfg' = [enabled |-> http.prev.enabled,
                     ssid |-> IF http.prev.enabled THEN http.prev.ssid ELSE cfg.ssid]
          /\ http' = [http EXCEPT !.at = "stop", !.answer = "failed"]
  /\ UNCHANGED <<driver, sta_config, queue, eventVars, s_connect_tries, s_wifi_eg,
                 s_sta_connected, bounds>>

(* A posted configuration is saved; then, and after a roll back, wifi_apply *)
(* stops the driver and starts it with what is configured.                  *)
PostConfig(c) ==
  /\ http.at = "idle"
  /\ posts < MaxPost
  /\ posts' = posts + 1
  /\ cfg' = c
  /\ http' = [http EXCEPT !.at = "stop", !.answer = "none"]
  /\ UNCHANGED <<driver, sta_config, queue, eventVars, pendingVars, s_sta_connected,
                 connects, drops>>

\* The new configuration is applied without stopping the driver.
ApplyStopsNothing ==
  /\ http.at = "stop"
  /\ HttpAt("start")
  /\ UNCHANGED <<cfg, driver, sta_config, queue, eventVars, pendingVars,
                 s_sta_connected, bounds>>

ApplyStops ==
  /\ http.at = "stop"
  /\ queue' = Leaving(queue)
  /\ driver' = [driver EXCEPT !.at = "off"]
  /\ HttpAt("start")
  /\ UNCHANGED <<cfg, sta_config, eventVars, pendingVars, s_sta_connected, bounds>>

ApplyStarts ==
  /\ http.at = "start"
  /\ IF cfg.enabled
     THEN /\ sta_config' = cfg.ssid
          /\ driver' = [at |-> "trying", net |-> cfg.ssid]
          /\ queue' = Append(queue, "start")
          /\ UNCHANGED s_sta_connected
     ELSE /\ s_sta_connected' = FALSE
          /\ UNCHANGED <<driver, sta_config, queue>>
  /\ HttpAt("idle")
  /\ UNCHANGED <<cfg, eventVars, pendingVars, bounds>>

HttpTask ==
  \/ ConnectSetFails \/ ConnectSets \/ ConnectDisconnects \/ ConnectConnects
  \/ ConnectRefused \/ ConnectEnds \/ ApplyStops \/ ApplyStarts
-----------------------------------------------------------------------------
(* The driver and the networks.                                             *)

DriverGetsIp ==
  /\ driver.at = "trying" /\ driver.net \in Reachable
  /\ driver' = [driver EXCEPT !.at = "up"]
  /\ queue' = Append(queue, "ip")
  /\ http' = [http EXCEPT !.reached = @ \/ driver.net = http.ssid]
  /\ UNCHANGED <<cfg, sta_config, eventVars, pendingVars, s_sta_connected, bounds>>

DriverFails(reason) ==
  /\ driver.at = "trying" /\ reason # "leave"
  /\ driver.net \in Reachable => reason = "lost"
  /\ driver' = [driver EXCEPT !.at = "idle"]
  /\ queue' = Append(queue, reason)
  /\ UNCHANGED <<cfg, sta_config, eventVars, pendingVars, s_sta_connected, http, bounds>>

\* The beacon is lost, or the access point sends the station away.
LinkDrops(reason) ==
  /\ driver.at = "up" /\ reason # "leave"
  /\ drops < MaxDrop
  /\ drops' = drops + 1
  /\ driver' = [driver EXCEPT !.at = "idle"]
  /\ queue' = Append(queue, reason)
  /\ UNCHANGED <<cfg, sta_config, eventVars, pendingVars, s_sta_connected, http,
                 connects, posts>>

Next ==
  \/ EventTask \/ TimerFires \/ HttpTask \/ DriverGetsIp
  \/ \E ssid \in Net : ConnectSaves(ssid)
  \/ \E c \in Config : PostConfig(c)
  \/ \E reason \in Reason : DriverFails(reason) \/ LinkDrops(reason)

Spec == Init /\ [][Next]_vars

(* The tasks run, the timer fires, an attempt of the driver ends, and a     *)
(* reachable network that is tried again and again answers at last.         *)
FairSpec ==
  /\ Spec
  /\ WF_vars(EventTask) /\ WF_vars(TimerFires) /\ WF_vars(HttpTask)
  /\ WF_vars(DriverGetsIp \/ \E reason \in Reason : DriverFails(reason))
  /\ SF_vars(DriverGetsIp)
-----------------------------------------------------------------------------
TypeOK ==
  /\ cfg \in Config /\ sta_config \in Net
  /\ driver \in [at : {"off", "idle", "trying", "up"}, net : Net]
  /\ queue \in Seq(Reason \union {"start", "ip"})
  /\ {sleeping, reconnect_armed, s_connect_pending, s_sta_connected} \subseteq BOOLEAN
  /\ sta_retry \in 0..MaxRetry /\ backoff \in Int
  /\ s_connect_tries \in Nat
  /\ s_connect_pending <=> http.at \in {"disconnect", "connect", "wait"}
  /\ s_wifi_eg \subseteq {"connected", "fail"}
  /\ http \in [at : {"idle", "set", "disconnect", "connect", "wait", "stop", "start"},
               ssid : Net, prev : Config, answer : {"none", "ok", "failed", "refused"},
               reached : BOOLEAN]

(* The status page tells the truth: once the events are handled the station *)
(* is reported connected exactly when it is, however driver events, retries *)
(* and configuration changes overlap.                                       *)
StatusFollowsLink ==
  queue = <<>> => (s_sta_connected <=> driver.at = "up")

(* The station uses the saved configuration and nothing else: no retry that *)
(* was put off (sleep, timer, queued event) joins a network after it was    *)
(* replaced or the station switched off.  A wifi_sta_connect that the       *)
(* driver refused leaves the configuration and the link apart: see          *)
(* FailureRestores.                                                         *)
LinkMatchesConfig ==
  http.at = "idle" /\ http.answer # "refused" /\ driver.at \in {"trying", "up"} =>
    cfg.enabled /\ driver.net = cfg.ssid

(* An enabled station whose network answers is connected again and again,   *)
(* or for good, whatever was posted meanwhile, and also after an            *)
(* interactive connect that timed out and was rolled back.                  *)
Enabled == http.at = "idle" /\ cfg.enabled /\ cfg.ssid \in Reachable

Reconnects ==
  <>[](Enabled /\ http.answer \in {"none", "failed"}) => []<>(driver.at = "up")
-----------------------------------------------------------------------------
(* Said of this code and not so: each is refuted (README, Divergences).     *)

(* wifi.c:50-53, "Background reconnect never gives up": the same after an   *)
(* interactive connect that succeeded.                                      *)
NeverGivesUp ==
  <>[](Enabled /\ http.answer # "refused") => []<>(driver.at = "up")

(* wifi.c:50-53, "exponential backoff capped at 60 s": the delay before a   *)
(* background reconnect is at least the minimum and at most the maximum.    *)
BackoffCapped == backoff \in STA_BACKOFF_MIN..STA_BACKOFF_MAX

(* wifi.c:586-592, "if this connect fails we restore the snapshot", and     *)
(* web_proxy.c:1674: when wifi_sta_connect has returned failure, the saved  *)
(* configuration is the one before the call.                                *)
FailureRestores ==
  http.at = "idle" /\ http.answer \in {"failed", "refused"} =>
    /\ cfg.enabled = http.prev.enabled
    /\ cfg.enabled => cfg.ssid = http.prev.ssid

(* wifi.c:586-592, "instead of being stranded on a dead SSID": when         *)
(* wifi_sta_connect has returned success and left the new network in the    *)
(* configuration, that network has given the station an address.            *)
SuccessIsReal ==
  http.at = "idle" /\ http.answer = "ok" => http.reached
=============================================================================
