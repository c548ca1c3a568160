------------------------------ MODULE WifiProofs -----------------------------
(***************************************************************************)
(* Safety of the WiFi station for any networks, any bounds and any queue   *)
(* of events.  Two arguments: the events not yet handled say what the      *)
(* status will be, and each place of the HTTP task says what the driver    *)
(* can be doing there.  Neither looks at the delays of the backoff.        *)
(***************************************************************************)
EXTENDS Wifi, SequenceTheorems, TLAPS

Event == Reason \union {"start", "ip"}

Types ==
  /\ cfg \in Config
  /\ sta_config \in Net
  /\ driver \in [at : {"off", "idle", "trying", "up"}, net : Net]
  /\ queue \in Seq(Event)
  /\ s_sta_connected \in BOOLEAN
  /\ http \in [at : {"idle", "set", "disconnect", "connect", "wait", "stop", "start"},
               ssid : Net, prev : Config, answer : {"none", "ok", "failed", "refused"},
               reached : BOOLEAN]

\* With status s and the events q to handle the station will be reported
\* connected exactly if up: by the last event of the link, and without one
\* by the status as it is.
Tells(q, s, up) ==
  /\ (\A i \in DOMAIN q : q[i] = "start") => (s <=> up)
  /\ \A i \in DOMAIN q :
       q[i] # "start" /\ (\A j \in DOMAIN q : i < j => q[j] = "start") => (q[i] = "ip" <=> up)

Up == driver.at = "up"
Settled == Tells(queue, s_sta_connected, Up)

Joined == driver.at \in {"trying", "up"}

\* The HTTP task alone changes the configuration, the station's network and
\* whether the driver runs; whoever connects meanwhile does so with them.
Linked ==
  /\ http.at \in {"set", "disconnect", "connect", "wait"} => cfg.enabled /\ cfg.ssid = http.ssid
  /\ http.at \in {"disconnect", "connect", "wait"} => sta_config = http.ssid
  /\ http.at \in {"connect", "wait"} /\ Joined => driver.net = http.ssid
  /\ http.at = "start" => driver.at = "off"
  /\ http.at = "idle" /\ http.answer # "refused" /\ driver.at # "off" =>
       cfg.enabled /\ sta_config = cfg.ssid /\ (Joined => driver.net = cfg.ssid)

Inv == Types /\ Settled /\ Linked
-----------------------------------------------------------------------------
(* Events are posted and handled.                                           *)

LEMMA TailOf ==
  ASSUME NEW q \in Seq(Event), q # <<>>
  PROVE  /\ Head(q) \in Event /\ Tail(q) \in Seq(Event)
         /\ Len(q) \in Nat \ {0} /\ DOMAIN q = 1..Len(q) /\ DOMAIN Tail(q) = 1..(Len(q) - 1)
         /\ q[1] = Head(q)
         /\ \A i \in 1..(Len(q) - 1) : Tail(q)[i] = q[i + 1]
<1>1. Len(q) \in Nat \ {0} /\ DOMAIN q = 1..Len(q)
  BY EmptySeq, LenProperties
<1>2. Tail(q) \in Seq(Event) /\ Len(Tail(q)) = Len(q) - 1
  BY HeadTailProperties
<1>. QED  BY <1>1, <1>2

LEMMA TellsStartPosted ==
  ASSUME NEW q \in Seq(Event), NEW s \in BOOLEAN, NEW up \in BOOLEAN, Tells(q, s, up)
  PROVE  Tells(Append(q, "start"), s, up)
<1>. DEFINE l == Len(q)
            b == Append(q, "start")
<1>1. /\ l \in Nat /\ DOMAIN q = 1..l /\ DOMAIN b = 1..l + 1
      /\ \A i \in 1..l : b[i] = q[i]
      /\ b[l + 1] = "start"
  BY DEF Event
<1>. HIDE DEF l, b
<1>2. \A i \in DOMAIN q : i \in DOMAIN b /\ b[i] = q[i]
  BY <1>1
<1>3. ASSUME NEW i \in DOMAIN b, b[i] # "start"
      PROVE  i \in DOMAIN q /\ b[i] = q[i]
  BY <1>1, <1>3
<1>. QED  BY <1>2, <1>3 DEF Tells, b

LEMMA TellsLinkPosted ==
  ASSUME NEW q \in Seq(Event), NEW s \in BOOLEAN, NEW e \in Event, e # "start"
  PROVE  Tells(Append(q, e), s, e = "ip")
<1>. DEFINE l == Len(q)
            b == Append(q, e)
<1>1. l \in Nat /\ DOMAIN b = 1..l + 1 /\ b[l + 1] = e
  OBVIOUS
<1>. HIDE DEF l, b
<1>2. l + 1 \in DOMAIN b /\ b[l + 1] # "start"
  BY <1>1
<1>3. \A i \in DOMAIN b : i = l + 1 \/ i < l + 1
  BY <1>1
<1>4. Tells(b, s, e = "ip")
  BY <1>1, <1>2, <1>3 DEF Tells
<1>. QED  BY <1>4 DEF b

LEMMA TellsHandled ==
  ASSUME NEW q \in Seq(Event), q # <<>>, NEW s \in BOOLEAN, NEW up \in BOOLEAN, Tells(q, s, up)
  PROVE  /\ Head(q) = "start" => Tells(Tail(q), s, up)
         /\ Head(q) # "start" => Tells(Tail(q), Head(q) = "ip", up)
<1>. DEFINE l == Len(q) - 1
            b == Tail(q)
<1>1. /\ l \in Nat /\ DOMAIN q = 1..l + 1 /\ DOMAIN b = 1..l /\ q[1] = Head(q)
      /\ \A i \in 1..l : b[i] = q[i + 1]
  BY TailOf
<1>. HIDE DEF l, b
<1>2. \A i \in DOMAIN b : i + 1 \in DOMAIN q /\ b[i] = q[i + 1]
  BY <1>1
<1>3. \A i \in DOMAIN q : i = 1 \/ (i - 1 \in DOMAIN b /\ q[i] = b[i - 1])
  BY <1>1
<1>4. 1 \in DOMAIN q /\ \A i \in DOMAIN q : 1 < i => i - 1 \in DOMAIN b
  BY <1>1
<1>5. (\A i \in DOMAIN b : b[i] = "start") => \A i \in DOMAIN q : 1 < i => q[i] = "start"
  BY <1>1, <1>3
<1>6. ASSUME NEW i \in DOMAIN b, b[i] # "start", \A j \in DOMAIN b : i < j => b[j] = "start"
      PROVE  b[i] = "ip" <=> up
  <2>1. ASSUME NEW j \in DOMAIN q, i + 1 < j PROVE q[j] = "start"
    <3>1. j - 1 \in DOMAIN b /\ q[j] = b[j - 1] /\ i < j - 1
      BY <1>1, <1>3, <2>1
    <3>. QED  BY <1>6, <3>1
  <2>2. i + 1 \in DOMAIN q /\ q[i + 1] = b[i]
    BY <1>2
  <2>. QED  BY <1>6, <2>1, <2>2 DEF Tells
<1>7. CASE Head(q) = "start"
  <2>1. (\A i \in DOMAIN b : b[i] = "start") => (s <=> up)
    <3>1. (\A i \in DOMAIN b : b[i] = "start") => \A i \in DOMAIN q : q[i] = "start"
      BY <1>1, <1>3, <1>7
    <3>. QED  BY <3>1 DEF Tells
  <2>. QED  BY <1>6, <1>7, <2>1 DEF Tells, b
<1>8. CASE Head(q) # "start"
  <2>1. (\A i \in DOMAIN b : b[i] = "start") => (Head(q) = "ip" <=> up)
    BY <1>1, <1>4, <1>5, <1>8 DEF Tells
  <2>. QED  BY <1>6, <1>8, <2>1 DEF Tells, b
<1>. QED  BY <1>7, <1>8
-----------------------------------------------------------------------------
LEMMA InitInv ==
  ASSUME WifiAssumption, Init
  PROVE  Inv
<1>1. Types
  <2>1. cfg \in Config /\ cfg.ssid \in Net /\ cfg.enabled \in BOOLEAN
    BY DEF Init, Config
  <2>2. queue \in Seq(Event)
    <3>1. <<>> \in Seq(Event) /\ "start" \in Event
      BY DEF Event
    <3>2. <<"start">> \in Seq(Event)
      BY <3>1
    <3>. QED  BY <3>1, <3>2 DEF Init
  <2>3. driver \in [at : {"off", "idle", "trying", "up"}, net : Net]
    BY <2>1 DEF Init
  <2>. QED  BY <2>1, <2>2, <2>3 DEF Init, Types
<1>2. Settled
  BY DEF Init, Settled, Tells, Up
<1>3. Linked
  BY DEF Init, Linked, Joined, Config
<1>. QED  BY <1>1, <1>2, <1>3 DEF Inv

(* A connect by whichever task leaves the station on the network it is      *)
(* configured with, and never up.                                           *)
LEMMA Connects ==
  ASSUME Inv, EspConnect \/ UNCHANGED driver, UNCHANGED <<cfg, sta_config, http>>
  PROVE  /\ driver' \in [at : {"off", "idle", "trying", "up"}, net : Net]
         /\ Up' <=> Up
         /\ Linked'
<1>1. driver \in [at : {"off", "idle", "trying", "up"}, net : Net] /\ sta_config \in Net
  BY DEF Inv, Types
<1>2. CASE UNCHANGED driver
  BY <1>1, <1>2 DEF Inv, Linked, Joined, Up
<1>3. CASE EspConnect /\ driver.at = "idle"
  <2>1. driver' = [at |-> "trying", net |-> sta_config]
    BY <1>3 DEF EspConnect
  <2>2. driver'.at = "trying" /\ driver'.net = sta_config
    BY <2>1
  <2>. QED  BY <1>1, <1>3, <2>1, <2>2 DEF Inv, Linked, Joined, Up
<1>4. CASE EspConnect /\ driver.at # "idle"
  BY <1>1, <1>2, <1>4 DEF EspConnect
<1>. QED  BY <1>2, <1>3, <1>4

(* The event task and the timer.                                            *)
LEMMA EventTaskInv ==
  ASSUME Inv, EventTask \/ TimerFires
  PROVE  Inv'
<1>1. /\ EspConnect \/ UNCHANGED driver
      /\ UNCHANGED <<cfg, sta_config, http>>
  BY DEF EventTask, HandleStart, SleepEnds, HandleGotIp, HandleDisconnected, TimerFires,
         RetryInteractive, RetryBackground
<1>2. Linked' /\ (Up' <=> Up) /\ driver' \in [at : {"off", "idle", "trying", "up"}, net : Net]
  BY <1>1, Connects
<1>3. Types /\ queue \in Seq(Event) /\ s_sta_connected \in BOOLEAN /\ Up \in BOOLEAN /\ Up' \in BOOLEAN
  BY DEF Inv, Types, Up
<1>4. ASSUME NEW e \in Event, Handles(e)
      PROVE  /\ queue' \in Seq(Event)
             /\ e = "start" => Tells(queue', s_sta_connected, Up)
             /\ e # "start" => Tells(queue', e = "ip", Up)
  <2>1. queue # <<>> /\ Head(queue) = e /\ queue' = Tail(queue)
    BY <1>4 DEF Handles
  <2>2. Tells(queue, s_sta_connected, Up)
    BY DEF Inv, Settled
  <2>. QED  BY <1>3, <2>1, <2>2, TellsHandled, TailOf
<1>5. ASSUME queue' \in Seq(Event), s_sta_connected' \in BOOLEAN, Tells(queue', s_sta_connected', Up)
      PROVE  Inv'
  <2>1. Types'
    BY <1>1, <1>2, <1>3, <1>5 DEF Types
  <2>2. Settled'
    BY <1>2, <1>3, <1>5 DEF Settled, Tells
  <2>. QED  BY <1>2, <2>1, <2>2 DEF Inv
<1>6. CASE HandleStart
  <2>1. Handles("start") /\ UNCHANGED s_sta_connected
    BY <1>6 DEF HandleStart
  <2>2. queue' \in Seq(Event) /\ Tells(queue', s_sta_connected, Up)
    BY <1>4, <2>1 DEF Event
  <2>. QED  BY <1>3, <1>5, <2>1, <2>2
<1>7. ASSUME NEW e \in Reason, HandleDisconnected(e) PROVE Inv'
  <2>1. Handles(e) /\ s_sta_connected' = FALSE
    BY <1>7 DEF HandleDisconnected
  <2>2. e \in Event /\ e # "start" /\ (e = "ip") = FALSE
    BY DEF Event, Reason
  <2>3. queue' \in Seq(Event) /\ Tells(queue', FALSE, Up)
    BY <1>4, <2>1, <2>2
  <2>. QED  BY <1>5, <2>1, <2>3
<1>8. CASE HandleGotIp
  <2>1. Handles("ip") /\ s_sta_connected' = TRUE
    BY <1>8 DEF HandleGotIp
  <2>2. "ip" \in Event /\ "ip" # "start" /\ ("ip" = "ip") = TRUE
    BY DEF Event
  <2>3. queue' \in Seq(Event) /\ Tells(queue', TRUE, Up)
    BY <1>4, <2>1, <2>2
  <2>. QED  BY <1>5, <2>1, <2>3
<1>9. CASE SleepEnds \/ TimerFires
  <2>1. UNCHANGED <<queue, s_sta_connected>>
    BY <1>9 DEF SleepEnds, TimerFires
  <2>. QED  BY <1>3, <1>5, <2>1 DEF Inv, Settled
<1>. QED  BY <1>6, <1>7, <1>8, <1>9 DEF EventTask


(* An event that ends or makes the link is posted with the change.          *)
LEMMA LinkPosted ==
  ASSUME Inv, NEW e \in Event, e # "start", queue' = Append(queue, e),
         s_sta_connected' = s_sta_connected, Up' <=> (e = "ip")
  PROVE  Settled' /\ queue' \in Seq(Event)
<1>1. queue \in Seq(Event) /\ s_sta_connected \in BOOLEAN
  BY DEF Inv, Types
<1>2. Tells(queue', s_sta_connected, e = "ip") /\ queue' \in Seq(Event)
  BY <1>1, TellsLinkPosted
<1>. QED  BY <1>2 DEF Settled, Tells

(* esp_wifi_disconnect and esp_wifi_stop tell of the link they end, and a   *)
(* station that is neither up nor trying has told already.                  *)
LEMMA LeavingTells ==
  ASSUME Inv, queue' = Leaving(queue), driver'.at \in {"idle", "off"},
         s_sta_connected' = s_sta_connected
  PROVE  Settled' /\ queue' \in Seq(Event)
<1>1. ~Up'
  BY DEF Up
<1>2. CASE driver.at \in {"trying", "up"}
  <2>1. queue' = Append(queue, "leave")
    BY <1>2 DEF Leaving
  <2>2. "leave" \in Event /\ "leave" # "start" /\ "leave" # "ip"
    BY DEF Event, Reason
  <2>. QED  BY <1>1, <2>1, <2>2, LinkPosted
<1>3. CASE driver.at \notin {"trying", "up"}
  <2>1. queue' = queue /\ ~Up
    BY <1>3 DEF Leaving, Up
  <2>2. queue \in Seq(Event) /\ Tells(queue, s_sta_connected, Up)
    BY DEF Inv, Types, Settled
  <2>. QED  BY <1>1, <2>1, <2>2 DEF Settled, Tells
<1>. QED  BY <1>2, <1>3

(* A step that leaves the events and the link alone.                        *)
LEMMA LinkAlone ==
  ASSUME Inv, UNCHANGED <<queue, s_sta_connected>>, Up' <=> Up
  PROVE  Settled' /\ queue' \in Seq(Event)
BY DEF Inv, Types, Settled, Tells

(* The HTTP task: wifi_sta_connect and wifi_apply.                          *)
LEMMA HttpTaskInv ==
  ASSUME Inv, HttpTask
  PROVE  Inv'
<1>1. Types
  BY DEF Inv
<1>2. CASE ConnectSetFails \/ ConnectRefused
  <2>1. /\ UNCHANGED <<cfg, driver, sta_config, queue, s_sta_connected>>
        /\ http' = [http EXCEPT !.at = "idle", !.answer = "refused"]
    BY <1>2 DEF ConnectSetFails, ConnectRefused, Returns
  <2>2. http'.at = "idle" /\ http'.answer = "refused"
    BY <1>1, <2>1 DEF Types
  <2>3. Linked'
    BY <2>2 DEF Linked
  <2>4. Types'
    BY <1>1, <2>1 DEF Types
  <2>5. Settled'
    BY <2>1, LinkAlone DEF Up
  <2>. QED  BY <2>3, <2>4, <2>5 DEF Inv
<1>3. CASE ConnectSets
  <2>1. /\ UNCHANGED <<cfg, driver, queue, s_sta_connected>>
        /\ http.at = "set" /\ sta_config' = http.ssid
        /\ http' = [http EXCEPT !.at = "disconnect"]
    BY <1>3 DEF ConnectSets, HttpAt
  <2>2. http'.at = "disconnect" /\ http'.ssid = http.ssid /\ http.ssid \in Net
    BY <1>1, <2>1 DEF Types
  <2>3. Linked'
    BY <2>1, <2>2 DEF Inv, Linked
  <2>4. Types'
    BY <1>1, <2>1, <2>2 DEF Types
  <2>5. Settled'
    BY <2>1, LinkAlone DEF Up
  <2>. QED  BY <2>3, <2>4, <2>5 DEF Inv
<1>4. CASE ConnectDisconnects
  <2>1. /\ UNCHANGED <<cfg, sta_config, s_sta_connected>>
        /\ http.at = "disconnect" /\ queue' = Leaving(queue)
        /\ driver' = [driver EXCEPT !.at = "idle"]
        /\ http' = [http EXCEPT !.at = "connect"]
    BY <1>4 DEF ConnectDisconnects, HttpAt
  <2>2. /\ http'.at = "connect" /\ http'.ssid = http.ssid /\ driver'.at = "idle"
        /\ driver' \in [at : {"off", "idle", "trying", "up"}, net : Net]
    BY <1>1, <2>1 DEF Types
  <2>3. Linked'
    BY <2>1, <2>2 DEF Inv, Linked, Joined
  <2>4. Settled' /\ queue' \in Seq(Event)
    BY <2>1, <2>2, LeavingTells
  <2>5. Types'
    BY <1>1, <2>1, <2>2, <2>4 DEF Types
  <2>. QED  BY <2>3, <2>4, <2>5 DEF Inv
<1>5. CASE ConnectConnects
  <2>1. /\ UNCHANGED <<cfg, sta_config, queue, s_sta_connected>>
        /\ http.at = "connect" /\ EspConnect
        /\ http' = [http EXCEPT !.at = "wait"]
    BY <1>5 DEF ConnectConnects, HttpAt
  <2>2. http'.at = "wait" /\ http'.ssid = http.ssid /\ sta_config = http.ssid
    BY <1>1, <2>1 DEF Types, Inv, Linked
  <2>3. CASE driver.at = "idle"
    <3>1. driver' = [at |-> "trying", net |-> sta_config]
      BY <2>1, <2>3 DEF EspConnect
    <3>2. driver'.at = "trying" /\ driver'.net = sta_config /\ (Up' <=> Up)
      BY <2>3, <3>1 DEF Up
    <3>3. Linked'
      BY <2>1, <2>2, <3>2 DEF Inv, Linked, Joined
    <3>4. Types'
      BY <1>1, <2>1, <3>1 DEF Types
    <3>. QED  BY <2>1, <3>2, <3>3, <3>4, LinkAlone DEF Inv
  <2>4. CASE driver.at # "idle"
    <3>1. driver' = driver
      BY <2>1, <2>4 DEF EspConnect
    <3>2. Linked'
      BY <2>1, <2>2, <3>1 DEF Inv, Linked, Joined
    <3>3. Types'
      BY <1>1, <2>1, <3>1 DEF Types
    <3>. QED  BY <2>1, <3>1, <3>2, <3>3, LinkAlone DEF Inv, Up
  <2>. QED  BY <2>3, <2>4
<1>6. CASE ConnectEnds
  <2>1. UNCHANGED <<driver, sta_config, queue, s_sta_connected>> /\ http.at = "wait"
    BY <1>6 DEF ConnectEnds
  <2>2. Settled'
    BY <2>1, LinkAlone DEF Up
  <2>3. CASE "connected" \in s_wifi_eg
    <3>1. http' = [http EXCEPT !.at = "idle", !.answer = "ok"] /\ UNCHANGED cfg
      BY <1>6, <2>3 DEF ConnectEnds, Returns
    <3>2. http'.at = "idle" /\ http'.ssid = http.ssid /\ Types'
      BY <1>1, <2>1, <3>1 DEF Types
    <3>3. Linked'
      BY <2>1, <3>1, <3>2 DEF Inv, Linked, Joined
    <3>. QED  BY <2>2, <3>2, <3>3 DEF Inv
  <2>4. CASE "connected" \notin s_wifi_eg
    <3>1. /\ cfg' = [enabled |-> http.prev.enabled,
                     ssid |-> IF http.prev.enabled THEN http.prev.ssid ELSE cfg.ssid]
          /\ http' = [http EXCEPT !.at = "stop", !.answer = "failed"]
      BY <1>6, <2>4 DEF ConnectEnds
    <3>2. cfg' \in Config /\ http'.at = "stop"
      BY <1>1, <3>1 DEF Types, Config
    <3>3. Types'
      BY <1>1, <2>1, <3>1, <3>2 DEF Types
    <3>4. Linked'
      BY <3>2 DEF Linked
    <3>. QED  BY <2>2, <3>3, <3>4 DEF Inv
  <2>. QED  BY <2>3, <2>4
<1>7. CASE ApplyStops
  <2>1. /\ UNCHANGED <<cfg, sta_config, s_sta_connected>>
        /\ queue' = Leaving(queue)
        /\ driver' = [driver EXCEPT !.at = "off"]
        /\ http' = [http EXCEPT !.at = "start"]
    BY <1>7 DEF ApplyStops, HttpAt
  <2>2. /\ http'.at = "start" /\ driver'.at = "off"
        /\ driver' \in [at : {"off", "idle", "trying", "up"}, net : Net]
    BY <1>1, <2>1 DEF Types
  <2>3. Linked'
    BY <2>2 DEF Linked
  <2>4. Settled' /\ queue' \in Seq(Event)
    BY <2>1, <2>2, LeavingTells
  <2>5. Types'
    BY <1>1, <2>1, <2>2, <2>4 DEF Types
  <2>. QED  BY <2>3, <2>4, <2>5 DEF Inv
<1>8. CASE ApplyStarts
  <2>1. /\ http.at = "start" /\ driver.at = "off" /\ UNCHANGED cfg
        /\ http' = [http EXCEPT !.at = "idle"] /\ cfg.ssid \in Net
    BY <1>1, <1>8 DEF ApplyStarts, HttpAt, Inv, Linked, Types, Config
  <2>2. http'.at = "idle"
    BY <1>1, <2>1 DEF Types
  <2>3. CASE cfg.enabled
    <3>1. /\ sta_config' = cfg.ssid
          /\ driver' = [at |-> "trying", net |-> cfg.ssid]
          /\ queue' = Append(queue, "start")
          /\ UNCHANGED s_sta_connected
      BY <1>8, <2>3 DEF ApplyStarts
    <3>2. driver'.at = "trying" /\ driver'.net = cfg.ssid /\ ~Up /\ ~Up'
      BY <2>1, <3>1 DEF Up
    <3>3. Linked'
      BY <2>1, <2>2, <2>3, <3>1, <3>2 DEF Linked
    <3>4. queue' \in Seq(Event) /\ Tells(queue', s_sta_connected, Up)
      <4>1. queue \in Seq(Event) /\ s_sta_connected \in BOOLEAN /\ Up \in BOOLEAN
            /\ Tells(queue, s_sta_connected, Up) /\ "start" \in Event
        BY DEF Inv, Types, Settled, Up, Event
      <4>. QED  BY <3>1, <4>1, TellsStartPosted
    <3>5. Settled'
      BY <3>1, <3>2, <3>4 DEF Settled, Tells
    <3>6. Types'
      BY <1>1, <2>1, <3>1, <3>4 DEF Types
    <3>. QED  BY <3>3, <3>5, <3>6 DEF Inv
  <2>4. CASE ~cfg.enabled
    <3>1. s_sta_connected' = FALSE /\ UNCHANGED <<driver, sta_config, queue>>
      BY <1>8, <2>4 DEF ApplyStarts
    <3>2. Linked'
      BY <2>1, <2>2, <3>1 DEF Linked, Joined
    <3>3. Settled'
      BY <2>1, <3>1 DEF Inv, Settled, Tells, Up
    <3>4. Types'
      BY <1>1, <2>1, <3>1 DEF Types
    <3>. QED  BY <3>2, <3>3, <3>4 DEF Inv
  <2>. QED  BY <2>3, <2>4
<1>. QED  BY <1>2, <1>3, <1>4, <1>5, <1>6, <1>7, <1>8 DEF HttpTask

(* A request reaches the idle HTTP task.                                    *)
LEMMA RequestInv ==
  ASSUME Inv, (\E ssid \in Net : ConnectSaves(ssid)) \/ (\E c \in Config : PostConfig(c))
  PROVE  Inv'
<1>1. Types
  BY DEF Inv
<1>2. ASSUME NEW ssid \in Net, ConnectSaves(ssid) PROVE Inv'
  <2>1. /\ http' = [at |-> "set", ssid |-> ssid, prev |-> cfg, answer |-> "none",
                    reached |-> FALSE]
        /\ cfg' = [enabled |-> TRUE, ssid |-> ssid]
        /\ UNCHANGED <<driver, sta_config, queue, s_sta_connected>>
    BY <1>2 DEF ConnectSaves
  <2>2. Types'
    BY <1>1, <2>1 DEF Types, Config
  <2>3. Linked'
    BY <2>1 DEF Linked
  <2>. QED  BY <2>1, <2>2, <2>3, LinkAlone DEF Inv, Up
<1>3. ASSUME NEW c \in Config, PostConfig(c) PROVE Inv'
  <2>1. /\ http' = [http EXCEPT !.at = "stop", !.answer = "none"]
        /\ cfg' = c
        /\ UNCHANGED <<driver, sta_config, queue, s_sta_connected>>
    BY <1>3 DEF PostConfig
  <2>2. http'.at = "stop" /\ Types'
    BY <1>1, <2>1 DEF Types
  <2>3. Linked'
    BY <2>2 DEF Linked
  <2>. QED  BY <2>1, <2>2, <2>3, LinkAlone DEF Inv, Up
<1>. QED  BY <1>2, <1>3

(* The driver and the networks.                                             *)
LEMMA DriverInv ==
  ASSUME Inv, DriverGetsIp \/ \E reason \in Reason : DriverFails(reason) \/ LinkDrops(reason)
  PROVE  Inv'
<1>1. Types
  BY DEF Inv
<1>2. CASE DriverGetsIp
  <2>1. /\ driver.at = "trying" /\ driver' = [driver EXCEPT !.at = "up"]
        /\ queue' = Append(queue, "ip")
        /\ http' = [http EXCEPT !.reached = @ \/ driver.net = http.ssid]
        /\ UNCHANGED <<cfg, sta_config, s_sta_connected>>
    BY <1>2 DEF DriverGetsIp
  <2>2. /\ driver'.at = "up" /\ driver'.net = driver.net
        /\ driver' \in [at : {"off", "idle", "trying", "up"}, net : Net]
    BY <1>1, <2>1 DEF Types
  <2>3. /\ http'.at = http.at /\ http'.ssid = http.ssid /\ http'.answer = http.answer
        /\ http' \in [at : {"idle", "set", "disconnect", "connect", "wait", "stop", "start"},
                      ssid : Net, prev : Config, answer : {"none", "ok", "failed", "refused"},
                      reached : BOOLEAN]
    BY <1>1, <2>1 DEF Types
  <2>4. Linked'
    BY <2>1, <2>2, <2>3 DEF Inv, Linked, Joined
  <2>5. Settled' /\ queue' \in Seq(Event)
    <3>1. "ip" \in Event /\ "ip" # "start" /\ Up'
      BY <2>2 DEF Event, Up
    <3>. QED  BY <2>1, <3>1, LinkPosted
  <2>. QED  BY <1>1, <2>1, <2>2, <2>3, <2>4, <2>5 DEF Inv, Types
<1>3. ASSUME NEW reason \in Reason, DriverFails(reason) \/ LinkDrops(reason) PROVE Inv'
  <2>1. /\ driver.at \in {"trying", "up"} /\ driver' = [driver EXCEPT !.at = "idle"]
        /\ queue' = Append(queue, reason)
        /\ UNCHANGED <<cfg, sta_config, s_sta_connected, http>>
    BY <1>3 DEF DriverFails, LinkDrops
  <2>2. /\ driver'.at = "idle" /\ driver'.net = driver.net
        /\ driver' \in [at : {"off", "idle", "trying", "up"}, net : Net]
    BY <1>1, <2>1 DEF Types
  <2>3. Linked'
    BY <2>1, <2>2 DEF Inv, Linked, Joined
  <2>4. Settled' /\ queue' \in Seq(Event)
    <3>1. reason \in Event /\ reason # "start" /\ reason # "ip" /\ ~Up'
      BY <2>2 DEF Event, Reason, Up
    <3>. QED  BY <2>1, <3>1, LinkPosted
  <2>. QED  BY <1>1, <2>1, <2>2, <2>3, <2>4 DEF Inv, Types
<1>. QED  BY <1>2, <1>3

LEMMA NextInv ==
  ASSUME Inv, [Next]_vars
  PROVE  Inv'
<1>1. CASE UNCHANGED vars
  <2>1. UNCHANGED <<cfg, driver, sta_config, queue, s_sta_connected, http>>
    BY <1>1 DEF vars
  <2>. QED  BY <2>1 DEF Inv, Types, Settled, Tells, Up, Linked, Joined
<1>. QED  BY <1>1, EventTaskInv, HttpTaskInv, RequestInv, DriverInv DEF Next

LEMMA Invariance == Spec => []Inv
<1>1. Init => Inv
  BY InitInv, WifiAssumption
<1>2. Inv /\ [Next]_vars => Inv'
  BY NextInv
<1>. QED  BY <1>1, <1>2, PTL DEF Spec
-----------------------------------------------------------------------------
(* The status page tells the truth: once the events are handled the station *)
(* is reported connected exactly when it is, whatever driver events,        *)
(* retries and configuration changes overlapped (wifi.c, on_wifi_event and  *)
(* wifi_apply), with any number of them waiting.                            *)
THEOREM StatusTellsTheTruth == Spec => []StatusFollowsLink
<1>1. Inv => StatusFollowsLink
  BY DEF Inv, Settled, Tells, Up, StatusFollowsLink
<1>. QED  BY <1>1, Invariance, PTL

(* No retry that was put off joins a network after it was replaced in the   *)
(* configuration or the station switched off (wifi.c, wifi_apply and        *)
(* wifi_sta_connect), but for a connect the driver refused.                 *)
THEOREM LinkIsTheConfigured == Spec => []LinkMatchesConfig
<1>1. Inv => LinkMatchesConfig
  BY DEF Inv, Linked, Joined, LinkMatchesConfig
<1>. QED  BY <1>1, Invariance, PTL
=============================================================================
