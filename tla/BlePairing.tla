----------------------------- MODULE BlePairing -----------------------------
(***************************************************************************)
(* The BLE connection and pairing life cycle (ble.c with its callers in    *)
(* system.c and wifi.c).  Four tasks share the state: the NimBLE host task *)
(* that runs the GAP callbacks, the button task that opens the pairing     *)
(* window, the system task whose one-second loop closes it, and the HTTP   *)
(* task, which pauses advertising around a WiFi scan.                      *)
(*                                                                         *)
(* None of the state is under a lock.  at[c] is where task c stands, and a *)
(* step reads or writes one of the variables that several tasks write      *)
(* (ble_state, allow_pairing, s_adv_fast, pairing_active, the time of the  *)
(* press), so that a task may write what another has changed since it      *)
(* looked.  Calls into the controller are steps too.  Which peers the      *)
(* filter policy lets through is not modelled: any peer may connect to an  *)
(* advertising device.                                                     *)
(***************************************************************************)
EXTENDS Naturals

CONSTANTS
  Peer,                (* identities of the centrals                        *)
  NoPeer,              (* BLE_HS_CONN_HANDLE_NONE                           *)
  Bonded,              (* the peer, if any, that was bonded before the boot *)
  BLE_PAIRING_TIMEOUT, (* passes of the system loop a window lasts          *)
  MaxConn,             (* bound: connections                                *)
  MaxUpset             (* bound: long presses, WiFi scans and resets of the *)
                       (* NimBLE host                                       *)

ASSUME PairingAssumption ==
  /\ NoPeer \notin Peer
  /\ Bonded \subseteq Peer /\ \A p, q \in Bonded : p = q
  /\ {BLE_PAIRING_TIMEOUT, MaxConn, MaxUpset} \subseteq Nat

Caller == {"host", "button", "system", "http"}

VARIABLES
  ble_state,      (* OFF, ON, PAIRING, CONNECTED                            *)
  allow_pairing,  (* the pairing window is open                             *)
  active_conn,    (* the connected peer                                     *)
  conn_encrypted, (* its link is encrypted                                  *)
  bonds,          (* peers in the NVS bond store                            *)
  adv_fast,       (* s_adv_fast: the next advertising is a fast burst       *)
  pause_depth,    (* s_ble_pause_depth                                      *)
  synced,         (* ble_hs_synced()                                        *)
  adv,            (* what the controller advertises with: policy and burst  *)
  at,             (* the step each task makes next                          *)
  scanning,       (* the HTTP task is between ble_pause and ble_resume      *)
  pairing_active, (* system.c: the loop is timing a window                  *)
  age,            (* passes since pairing_started_ms, of a timed window     *)
  was_open,       (* ble_disable_pairing's local                            *)
  conns, upsets   (* counters for the bounds                                *)

state == <<ble_state, allow_pairing>>
link  == <<active_conn, conn_encrypted, bonds>>
radio == <<adv_fast, pause_depth, synced, adv, scanning>>
timer == <<pairing_active, age, was_open>>
bounds == <<conns, upsets>>
vars == <<state, link, radio, at, timer, bounds>>

Quiet == [policy |-> "off", fast |-> FALSE]
Connected == active_conn # NoPeer

\* What a handler of the host writes into ble_state, by the step that writes
\* it, and the step after.
Written == [syncs |-> "ON", connects |-> "ON", drops |-> "ON",
            retries |-> "PAIRING", encrypts |-> "CONNECTED"]
AfterIt == [syncs |-> "choose", connects |-> "idle", drops |-> "boost",
            retries |-> "boost", encrypts |-> "close"]

Steps ==
  {"idle", "stop", "choose", "halt", "open", "gated",        (* controller  *)
   "boot", "down", "close", "boost",                         (* host        *)
   "stamp", "allow", "look", "mark",                         (* button      *)
   "time", "disable", "shut", "test", "unmark", "leave", "clear", (* system *)
   "rejoin"} \union DOMAIN Written                           (* HTTP, host *)

Init ==
  /\ ble_state = "OFF" /\ allow_pairing = FALSE
  /\ active_conn = NoPeer /\ conn_encrypted = FALSE
  /\ bonds = Bonded
  /\ adv_fast = TRUE /\ pause_depth = 0 /\ synced = FALSE
  /\ adv = Quiet
  /\ at = [c \in Caller |-> "idle"]
  /\ scanning = FALSE
  /\ pairing_active = FALSE /\ age = 0 /\ was_open = FALSE
  /\ conns = 0 /\ upsets = 0

From(c, steps) == at[c] \in steps
Goto(c, step) == at' = [at EXCEPT ![c] = step]
-----------------------------------------------------------------------------
(* Controller calls.                                                        *)

AdvStop(c) ==
  /\ From(c, {"stop", "halt"})
  /\ adv' = Quiet
  /\ Goto(c, IF at[c] = "stop" THEN "choose" ELSE "idle")
  /\ UNCHANGED <<state, link, adv_fast, pause_depth, synced, scanning, timer, bounds>>

\* ble_advertise up to adv_params: the policy follows the window.
AdvChoose(c) ==
  /\ From(c, {"choose"})
  /\ Goto(c, IF allow_pairing THEN "open" ELSE "gated")
  /\ UNCHANGED <<state, link, radio, timer, bounds>>

\* ble_gap_adv_start fails, and ble_advertise only logs it, when the host is
\* not synced, a central is connected or advertising runs already.
AdvStart(c) ==
  /\ From(c, {"open", "gated"})
  /\ adv' = IF synced /\ ~Connected /\ adv = Quiet
            THEN [policy |-> at[c], fast |-> adv_fast]
            ELSE adv
  /\ Goto(c, IF c = "system" THEN "clear" ELSE "idle")
  /\ UNCHANGED <<state, link, adv_fast, pause_depth, synced, scanning, timer, bounds>>
-----------------------------------------------------------------------------
(* NimBLE host task: on_sync, on_reset and gap_event_cb.                    *)

HostFree == at["host"] = "idle"

OnSync ==
  /\ HostFree /\ ~synced
  /\ synced' = TRUE
  /\ Goto("host", "boot")
  /\ UNCHANGED <<state, link, adv_fast, pause_depth, adv, scanning, timer, bounds>>

OnSyncLooks ==
  /\ From("host", {"boot"})
  /\ Goto("host", IF ble_state = "OFF" THEN "syncs" ELSE "choose")
  /\ UNCHANGED <<state, link, radio, timer, bounds>>

\* Mutant: the state of a link that ended stays.
HostWritesUnlessDown ==
  /\ From("host", DOMAIN Written)
  /\ ble_state' = IF at["host"] = "drops" THEN ble_state ELSE Written[at["host"]]
  /\ Goto("host", AfterIt[at["host"]])
  /\ UNCHANGED <<allow_pairing, link, radio, timer, bounds>>

HostWrites ==
  /\ From("host", DOMAIN Written)
  /\ ble_state' = Written[at["host"]]
  /\ Goto("host", AfterIt[at["host"]])
  /\ UNCHANGED <<allow_pairing, link, radio, timer, bounds>>

GapConnect(p) ==
  /\ HostFree /\ adv # Quiet
  /\ conns < MaxConn
  /\ conns' = conns + 1
  /\ adv' = Quiet
  /\ active_conn' = p
  /\ conn_encrypted' = FALSE
  /\ Goto("host", "connects")
  /\ UNCHANGED <<state, bonds, adv_fast, pause_depth, synced, scanning, timer,
                 upsets>>

GapConnectFailed ==
  /\ HostFree /\ adv # Quiet
  /\ conns < MaxConn
  /\ conns' = conns + 1
  /\ adv' = Quiet
  /\ adv_fast' = TRUE
  /\ Goto("host", "choose")
  /\ UNCHANGED <<state, link, pause_depth, synced, scanning, timer, upsets>>

\* What the DISCONNECT handler writes first.
LinkDown ==
  /\ active_conn' = NoPeer
  /\ conn_encrypted' = FALSE

GapDisconnect ==
  /\ HostFree /\ Connected
  /\ LinkDown
  /\ Goto("host", "down")
  /\ UNCHANGED <<state, bonds, radio, timer, bounds>>

\* The state to write is chosen by the window as it is now.
DisconnectLooks ==
  /\ From("host", {"down"})
  /\ Goto("host", IF allow_pairing THEN "retries" ELSE "drops")
  /\ UNCHANGED <<state, link, radio, timer, bounds>>

DisconnectBoosts ==
  /\ From("host", {"boost"})
  /\ adv_fast' = TRUE
  /\ Goto("host", IF pause_depth = 0 THEN "choose" ELSE "idle")
  /\ UNCHANGED <<state, link, pause_depth, synced, adv, scanning, timer, bounds>>

\* ENC_CHANGE with an encrypted link, after a pairing (that stored a bond or
\* not) or from the bond of an earlier one.  ENC_CHANGE without encryption
\* only logs.
GapEncrypted ==
  /\ HostFree /\ Connected /\ ~conn_encrypted
  /\ conn_encrypted' = TRUE
  /\ bonds' \in {bonds, bonds \union {active_conn}}
  /\ Goto("host", "encrypts")
  /\ UNCHANGED <<state, active_conn, radio, timer, bounds>>

\* Mutant: the new bond is added to the others.
EncryptedClosesOnly ==
  /\ From("host", {"close"})
  /\ allow_pairing' = FALSE
  /\ Goto("host", "idle")
  /\ UNCHANGED <<ble_state, link, radio, timer, bounds>>

\* The window closes and every other bond goes (purge_other_bonds).
EncryptedCloses ==
  /\ From("host", {"close"})
  /\ allow_pairing' = FALSE
  /\ bonds' = bonds \intersect {active_conn}
  /\ Goto("host", "idle")
  /\ UNCHANGED <<ble_state, active_conn, conn_encrypted, radio, timer, bounds>>

\* Ignored, without effect, while the window is closed.
GapRepeatPairing ==
  /\ HostFree /\ Connected
  /\ active_conn \in bonds
  /\ allow_pairing
  /\ bonds' = bonds \ {active_conn}
  /\ UNCHANGED <<state, active_conn, conn_encrypted, radio, at, timer, bounds>>

\* Mutant: the end of the fast burst ends advertising.
GapAdvCompleteStops ==
  /\ HostFree /\ adv.fast
  /\ adv' = Quiet
  /\ adv_fast' = FALSE
  /\ UNCHANGED <<state, link, pause_depth, synced, at, scanning, timer, bounds>>

\* The fast burst expires.
GapAdvComplete ==
  /\ HostFree /\ adv.fast
  /\ adv' = Quiet
  /\ IF pause_depth > 0
     THEN UNCHANGED <<adv_fast, at>>
     ELSE adv_fast' = FALSE /\ Goto("host", "choose")
  /\ UNCHANGED <<state, link, pause_depth, synced, scanning, timer, bounds>>

\* The host resets: it reports a broken link (whose handler cannot advertise
\* now), then calls on_reset, which has nothing left to clear.
OnReset ==
  /\ HostFree /\ synced
  /\ upsets < MaxUpset
  /\ upsets' = upsets + 1
  /\ synced' = FALSE
  /\ adv' = Quiet
  /\ LinkDown
  /\ Goto("host", IF Connected THEN "down" ELSE "idle")
  /\ UNCHANGED <<state, bonds, adv_fast, pause_depth, scanning, timer, conns>>

HostSteps ==
  \/ OnSyncLooks \/ HostWrites \/ DisconnectLooks \/ DisconnectBoosts \/ EncryptedCloses
-----------------------------------------------------------------------------
(* on_button_event, long press, with ble_enable_pairing.                    *)

LongPress ==
  /\ From("button", {"idle"})
  /\ upsets < MaxUpset
  /\ upsets' = upsets + 1
  /\ pairing_active' = TRUE
  /\ Goto("button", "stamp")
  /\ UNCHANGED <<state, link, radio, age, was_open, conns>>

PressStamps ==
  /\ From("button", {"stamp"})
  /\ age' = 0
  /\ Goto("button", "allow")
  /\ UNCHANGED <<state, link, radio, pairing_active, was_open, bounds>>

PressOpens ==
  /\ From("button", {"allow"})
  /\ allow_pairing' = TRUE
  /\ Goto("button", "look")
  /\ UNCHANGED <<ble_state, link, radio, timer, bounds>>

PressLooks ==
  /\ From("button", {"look"})
  /\ Goto("button", IF ble_state \in {"OFF", "ON"} THEN "mark" ELSE "boost")
  /\ UNCHANGED <<state, link, radio, timer, bounds>>

PressMarks ==
  /\ From("button", {"mark"})
  /\ ble_state' = "PAIRING"
  /\ Goto("button", "boost")
  /\ UNCHANGED <<allow_pairing, link, radio, timer, bounds>>

PressBoosts ==
  /\ From("button", {"boost"})
  /\ adv_fast' = TRUE
  /\ Goto("button", IF synced THEN "stop" ELSE "idle")
  /\ UNCHANGED <<state, link, pause_depth, synced, adv, scanning, timer, bounds>>

PressSteps == PressStamps \/ PressOpens \/ PressLooks \/ PressMarks \/ PressBoosts
-----------------------------------------------------------------------------
(* One pass of system_run's loop over a window that is timed.               *)

SystemLooks ==
  /\ From("system", {"idle"}) /\ pairing_active
  /\ Goto("system", IF ble_state = "PAIRING" THEN "time" ELSE "clear")
  /\ UNCHANGED <<state, link, radio, timer, bounds>>

\* In the pass that was under way at the press (age 0) `now` may have been read
\* before the time of the press was written: then the difference wraps, and the
\* window is over.
SystemTimes ==
  /\ From("system", {"time"})
  /\ \/ /\ age >= BLE_PAIRING_TIMEOUT \/ age = 0
        /\ Goto("system", "disable")
        /\ UNCHANGED age
     \/ /\ age < BLE_PAIRING_TIMEOUT
        /\ Goto("system", "idle")
        /\ age' = age + 1
  /\ UNCHANGED <<state, link, radio, pairing_active, was_open, bounds>>

\* ble_disable_pairing.
DisableLooks ==
  /\ From("system", {"disable"})
  /\ was_open' = allow_pairing
  /\ Goto("system", "shut")
  /\ UNCHANGED <<state, link, radio, pairing_active, age, bounds>>

DisableShuts ==
  /\ From("system", {"shut"})
  /\ allow_pairing' = FALSE
  /\ Goto("system", "test")
  /\ UNCHANGED <<ble_state, link, radio, timer, bounds>>

DisableTests ==
  /\ From("system", {"test"})
  /\ Goto("system", IF ble_state = "PAIRING" THEN "unmark" ELSE "leave")
  /\ UNCHANGED <<state, link, radio, timer, bounds>>

DisableMarks ==
  /\ From("system", {"unmark"})
  /\ ble_state' = "ON"
  /\ Goto("system", "leave")
  /\ UNCHANGED <<allow_pairing, link, radio, timer, bounds>>

DisableLeaves ==
  /\ From("system", {"leave"})
  /\ Goto("system", IF was_open /\ synced /\ ~Connected THEN "stop" ELSE "clear")
  /\ was_open' = FALSE
  /\ UNCHANGED <<state, link, radio, pairing_active, age, bounds>>

SystemClears ==
  /\ From("system", {"clear"})
  /\ pairing_active' = FALSE /\ age' = 0
  /\ Goto("system", "idle")
  /\ UNCHANGED <<state, link, radio, was_open, bounds>>

System ==
  \/ SystemLooks \/ SystemTimes \/ SystemClears
  \/ DisableLooks \/ DisableShuts \/ DisableTests \/ DisableMarks \/ DisableLeaves
-----------------------------------------------------------------------------
(* wifi_scan: ble_pause before, ble_resume after.                           *)

BlePause ==
  /\ From("http", {"idle"}) /\ ~scanning
  /\ upsets < MaxUpset
  /\ upsets' = upsets + 1
  /\ scanning' = TRUE
  /\ pause_depth' = pause_depth + 1
  /\ Goto("http", IF pause_depth = 0 /\ synced THEN "halt" ELSE "idle")
  /\ UNCHANGED <<state, link, adv_fast, synced, adv, timer, conns>>

BleResume ==
  /\ From("http", {"idle"}) /\ scanning
  /\ scanning' = FALSE
  /\ pause_depth' = pause_depth - 1
  /\ Goto("http", IF pause_depth = 1 THEN "rejoin" ELSE "idle")
  /\ UNCHANGED <<state, link, adv_fast, synced, adv, timer, bounds>>

ResumeLooks ==
  /\ From("http", {"rejoin"})
  /\ Goto("http", IF ~Connected /\ synced THEN "boost" ELSE "idle")
  /\ UNCHANGED <<state, link, radio, timer, bounds>>

ResumeBoosts ==
  /\ From("http", {"boost"})
  /\ adv_fast' = TRUE
  /\ Goto("http", "choose")
  /\ UNCHANGED <<state, link, pause_depth, synced, adv, scanning, timer, bounds>>

ScanSteps == ResumeLooks \/ ResumeBoosts
-----------------------------------------------------------------------------
ControllerCall(c) == AdvStop(c) \/ AdvChoose(c) \/ AdvStart(c)

Host ==
  \/ OnSync \/ OnReset
  \/ \E p \in Peer : GapConnect(p)
  \/ GapConnectFailed \/ GapDisconnect \/ GapEncrypted
  \/ GapRepeatPairing \/ GapAdvComplete

Next ==
  \/ Host \/ HostSteps
  \/ LongPress \/ PressSteps
  \/ System
  \/ BlePause \/ BleResume \/ ScanSteps
  \/ \E c \in Caller : ControllerCall(c)

Spec == Init /\ [][Next]_vars

(* Tasks run, controller calls return, the host syncs, a burst expires; the *)
(* centrals, the user and the WiFi scans are free to stop.                  *)
FairSpec ==
  /\ Spec
  /\ WF_vars(OnSync) /\ WF_vars(GapAdvComplete)
  /\ WF_vars(HostSteps) /\ WF_vars(PressSteps) /\ WF_vars(System) /\ WF_vars(ScanSteps)
  /\ \A c \in Caller : WF_vars(ControllerCall(c))
-----------------------------------------------------------------------------
TypeOK ==
  /\ ble_state \in {"OFF", "ON", "PAIRING", "CONNECTED"}
  /\ allow_pairing \in BOOLEAN /\ conn_encrypted \in BOOLEAN
  /\ active_conn \in Peer \union {NoPeer}
  /\ bonds \subseteq Peer
  /\ adv_fast \in BOOLEAN /\ synced \in BOOLEAN
  /\ scanning \in BOOLEAN /\ pause_depth = IF scanning THEN 1 ELSE 0
  /\ adv \in [policy : {"off", "open", "gated"}, fast : BOOLEAN]
  /\ at \in [Caller -> Steps]
  /\ pairing_active \in BOOLEAN /\ was_open \in BOOLEAN
  /\ age \in 0..BLE_PAIRING_TIMEOUT
  /\ conns \in 0..MaxConn /\ upsets \in 0..MaxUpset

(* "Only ONE peer may be bonded at a time" (README.md:62): between two      *)
(* events an encrypted link leaves no bond but its own peer's, and there    *)
(* are never two.                                                           *)
SingleBond ==
  HostFree =>
    /\ conn_encrypted => bonds \subseteq {active_conn}
    /\ \A p, q \in bonds : p = q

(* CONNECTED is not shown without an encrypted link, although the button    *)
(* and the system task write ble_state on a look that may be out of date:   *)
(* whatever they write over, the DISCONNECT and CONNECT handlers write      *)
(* again (ble.c:404-428).  OFF is shown only until the host has synced.     *)
NoPhantomLink ==
  HostFree =>
    /\ ble_state = "CONNECTED" => conn_encrypted
    /\ ble_state = "OFF" => ~synced

(* Advertising comes back: a device nobody is connected to, outside WiFi    *)
(* scans and host resets, advertises in the end, however the disconnect,    *)
(* the scan, the burst's expiry, the button and the timer interleave.       *)
Advertisable == synced /\ ~Connected /\ pause_depth = 0
AdvertisesAgain == Advertisable ~> (adv # Quiet \/ ~Advertisable)
-----------------------------------------------------------------------------
(* Said of this code and not so: each is refuted (README, Divergences).     *)

(* README.md:51, "opens a 35-second pairing window": an open window is      *)
(* closed again, by a pairing or by the timer.                              *)
WindowCloses == allow_pairing ~> ~allow_pairing

(* The same: a window that is closed without a pairing has lasted its       *)
(* passes of the loop.                                                      *)
WindowLasts == at["system"] \in {"disable", "shut"} => age >= BLE_PAIRING_TIMEOUT

(* status_led.c:137, "fast blink while the pairing window is open": when no *)
(* task is in the middle of a change, PAIRING is shown with the window open *)
(* and CONNECTED exactly over an encrypted link.                            *)
StateIsTrue ==
  (\A c \in Caller : at[c] = "idle") =>
    /\ ble_state = "PAIRING" => allow_pairing
    /\ ble_state = "CONNECTED" <=> conn_encrypted

(* ble.c:116, "Pause depth for WiFi scans (>0 = advertising stopped)": once *)
(* ble_pause has returned to the scan, nothing advertises until ble_resume. *)
PausedIsQuiet ==
  pause_depth > 0 /\ at["http"] = "idle" => adv = Quiet

(* ble.c:337-346: advertising runs open while the window is open and gated  *)
(* while it is closed, whenever no task is about to change it.              *)
PolicyFollowsWindow ==
  (\A c \in Caller : at[c] = "idle") /\ adv # Quiet =>
    (adv.policy = "open" <=> allow_pairing)
=============================================================================
