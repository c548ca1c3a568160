--------------------------- MODULE BlePairingProofs -------------------------
(***************************************************************************)
(* Pairing for any peers and any number of connections, resets, scans and  *)
(* presses.  What a handler of the host has not finished yet is said by    *)
(* the step it stands at; the other tasks are free to write ble_state and  *)
(* allow_pairing at any moment, and the invariants leave them that.        *)
(***************************************************************************)
EXTENDS BlePairing, TLAPS

LEMMA CallerTypes ==
  /\ "host" \in Caller /\ "button" \in Caller /\ "system" \in Caller /\ "http" \in Caller
  /\ DOMAIN Written = {"syncs", "connects", "drops", "retries", "encrypts"}
  /\ Written \in [DOMAIN Written -> {"ON", "PAIRING", "CONNECTED"}]
  /\ AfterIt \in [DOMAIN Written -> {"choose", "idle", "boost", "close"}]
  BY DEF Caller, Written, AfterIt

LEMMA StepTyped ==
  ASSUME TypeOK, NEW c \in Caller, NEW s \in Steps, Goto(c, s)
  PROVE  at' \in [Caller -> Steps]
  BY DEF TypeOK, Goto

(* The events and the handlers of the NimBLE host.                          *)
LEMMA HostTypes ==
  ASSUME PairingAssumption, TypeOK, Host \/ HostSteps
  PROVE  TypeOK'
<1>1. at' \in [Caller -> Steps]
  <2>. DEFINE S == {"boot", "connects", "choose", "down", "encrypts", "idle", "retries",
                    "drops", "syncs", "boost", "close"}
  <2>1. S \subseteq Steps
    BY CallerTypes DEF Steps
  <2>2. CASE Host
    <3>1. (\E s \in S : Goto("host", s)) \/ at' = at
      BY <2>2 DEF Host, OnSync, OnReset, GapConnect, GapConnectFailed, GapDisconnect,
         GapEncrypted, GapRepeatPairing, GapAdvComplete
    <3>. QED  BY <2>1, <3>1, CallerTypes, StepTyped DEF TypeOK
  <2>3. CASE HostSteps
    <3>1. HostWrites => AfterIt[at["host"]] \in S /\ Goto("host", AfterIt[at["host"]])
      BY CallerTypes DEF HostWrites, From
    <3>2. \E s \in S : Goto("host", s)
      BY <2>3, <3>1 DEF HostSteps, OnSyncLooks, DisconnectLooks, DisconnectBoosts, EncryptedCloses
    <3>. QED  BY <2>1, <3>2, CallerTypes, StepTyped
  <2>. QED  BY <2>2, <2>3
<1>2. conns' \in 0..MaxConn /\ upsets' \in 0..MaxUpset
  <2>. USE DEF PairingAssumption, TypeOK, bounds
  <2>1. CASE Host
    BY <2>1 DEF Host, OnSync, OnReset, GapConnect, GapConnectFailed, GapDisconnect,
       GapEncrypted, GapRepeatPairing, GapAdvComplete
  <2>2. CASE HostSteps
    BY <2>2 DEF HostSteps, OnSyncLooks, HostWrites, DisconnectLooks, DisconnectBoosts,
       EncryptedCloses
  <2>. QED  BY <2>1, <2>2
<1>3. active_conn' \in Peer \union {NoPeer} /\ bonds' \subseteq Peer
  <2>. USE DEF TypeOK, link
  <2>1. CASE Host
    BY <2>1 DEF Host, OnSync, OnReset, GapConnect, GapConnectFailed, GapDisconnect, LinkDown,
       GapEncrypted, GapRepeatPairing, GapAdvComplete, Connected
  <2>2. CASE HostSteps
    BY <2>2 DEF HostSteps, OnSyncLooks, HostWrites, DisconnectLooks, DisconnectBoosts,
       EncryptedCloses
  <2>. QED  BY <2>1, <2>2
<1>4. /\ UNCHANGED <<pause_depth, scanning, timer>>
      /\ ble_state' \in {"OFF", "ON", "PAIRING", "CONNECTED"}
      /\ conn_encrypted' \in BOOLEAN /\ allow_pairing' \in BOOLEAN
      /\ adv_fast' \in BOOLEAN /\ synced' \in BOOLEAN
      /\ adv' = adv \/ adv' = Quiet
  <2>. USE DEF TypeOK, state, link, radio
  <2>1. CASE Host
    BY <2>1 DEF Host, OnSync, OnReset, GapConnect, GapConnectFailed, GapDisconnect, LinkDown,
       GapEncrypted, GapRepeatPairing, GapAdvComplete
  <2>2. CASE HostSteps
    <3>1. HostWrites => ble_state' \in {"ON", "PAIRING", "CONNECTED"}
      BY CallerTypes DEF HostWrites, From
    <3>. QED
      BY <2>2, <3>1 DEF HostSteps, OnSyncLooks, HostWrites, DisconnectLooks,
         DisconnectBoosts, EncryptedCloses
  <2>. QED  BY <2>1, <2>2
<1>5. adv' \in [policy : {"off", "open", "gated"}, fast : BOOLEAN]
  <2>1. Quiet \in [policy : {"off", "open", "gated"}, fast : BOOLEAN]
    BY DEF Quiet
  <2>2. adv \in [policy : {"off", "open", "gated"}, fast : BOOLEAN]
    BY DEF TypeOK
  <2>3. adv' = adv \/ adv' = Quiet
    BY <1>4
  <2>4. CASE adv' = adv
    BY <2>2, <2>4
  <2>5. CASE adv' = Quiet
    BY <2>1, <2>5
  <2>. QED  BY <2>3, <2>4, <2>5
<1>. QED  BY <1>1, <1>2, <1>3, <1>4, <1>5 DEF TypeOK, timer

(* The steps of the button and of the system task.                          *)
LEMMA WindowTypes ==
  ASSUME PairingAssumption, TypeOK, LongPress \/ PressSteps \/ System
  PROVE  TypeOK'
<1>1. at' \in [Caller -> Steps]
  <2>. DEFINE S == {"stamp", "allow", "look", "mark", "boost", "stop", "idle", "time",
                    "clear", "disable", "shut", "test", "unmark", "leave"}
  <2>1. S \subseteq Steps
    BY DEF Steps
  <2>2. CASE LongPress \/ PressSteps
    <3>1. \E s \in S : Goto("button", s)
      BY <2>2 DEF LongPress, PressSteps, PressStamps, PressOpens, PressLooks, PressMarks, PressBoosts
    <3>. QED  BY <2>1, <3>1, CallerTypes, StepTyped
  <2>3. CASE System
    <3>1. \E s \in S : Goto("system", s)
      BY <2>3 DEF System, SystemLooks, SystemTimes, SystemClears, DisableLooks, DisableShuts,
         DisableTests, DisableMarks, DisableLeaves
    <3>. QED  BY <2>1, <3>1, CallerTypes, StepTyped
  <2>. QED  BY <2>2, <2>3
<1>2. age' \in 0..BLE_PAIRING_TIMEOUT /\ upsets' \in 0..MaxUpset
  <2>. USE DEF PairingAssumption, TypeOK, timer, bounds
  <2>1. CASE LongPress
    BY <2>1 DEF LongPress
  <2>2. CASE PressSteps
    BY <2>2 DEF PressSteps, PressStamps, PressOpens, PressLooks, PressMarks, PressBoosts
  <2>3. CASE System
    BY <2>3 DEF System, SystemLooks, SystemTimes, SystemClears, DisableLooks, DisableShuts,
       DisableTests, DisableMarks, DisableLeaves
  <2>. QED  BY <2>1, <2>2, <2>3
<1>3. /\ UNCHANGED <<link, pause_depth, synced, adv, scanning, conns>>
      /\ ble_state' \in {"OFF", "ON", "PAIRING", "CONNECTED"}
      /\ adv_fast' \in BOOLEAN /\ allow_pairing' \in BOOLEAN
      /\ was_open' \in BOOLEAN /\ pairing_active' \in BOOLEAN
  <2>. USE DEF TypeOK, state, radio, timer, bounds
  <2>1. CASE LongPress \/ PressSteps
    BY <2>1 DEF LongPress, PressSteps, PressStamps, PressOpens, PressLooks, PressMarks, PressBoosts
  <2>2. CASE System
    BY <2>2 DEF System, SystemLooks, SystemTimes, SystemClears, DisableLooks, DisableShuts,
       DisableTests, DisableMarks, DisableLeaves
  <2>. QED  BY <2>1, <2>2
<1>. QED  BY <1>1, <1>2, <1>3 DEF TypeOK, link

(* A pause counts the scan, a resume takes it back; calls into the          *)
(* controller leave all but the advertising alone.                          *)
LEMMA ScanTypes ==
  ASSUME PairingAssumption, TypeOK,
         BlePause \/ BleResume \/ ScanSteps \/ \E c \in Caller : ControllerCall(c)
  PROVE  TypeOK'
<1>. USE CallerTypes DEF PairingAssumption, TypeOK, Goto, From, Steps, Quiet, state, link,
         radio, timer, bounds
<1>1. CASE BlePause
  <2>1. upsets' \in 0..MaxUpset /\ pause_depth' = 1 /\ scanning' = TRUE
    BY <1>1 DEF BlePause
  <2>. QED  BY <1>1, <2>1 DEF BlePause
<1>2. CASE BleResume
  <2>1. at' \in [Caller -> Steps]
    BY <1>2 DEF BleResume
  <2>2. pause_depth' = 0 /\ scanning' = FALSE
    BY <1>2 DEF BleResume
  <2>3. UNCHANGED <<state, link, adv_fast, synced, adv, timer, bounds>>
    BY <1>2 DEF BleResume
  <2>. HIDE DEF PairingAssumption, Steps, Goto, From, Quiet
  <2>. QED  BY <2>1, <2>2, <2>3
<1>3. CASE ScanSteps
  <2>1. at' \in [Caller -> Steps]
    BY <1>3 DEF ScanSteps, ResumeLooks, ResumeBoosts
  <2>2. CASE ResumeLooks
    BY <2>1, <2>2 DEF ResumeLooks
  <2>3. CASE ResumeBoosts
    BY <2>1, <2>3 DEF ResumeBoosts
  <2>. QED  BY <1>3, <2>2, <2>3 DEF ScanSteps
<1>4. ASSUME NEW c \in Caller, ControllerCall(c)
      PROVE  TypeOK'
  <2>1. CASE AdvStop(c)
    BY <2>1 DEF AdvStop
  <2>2. CASE AdvChoose(c)
    BY <2>2 DEF AdvChoose
  <2>3. CASE AdvStart(c)
    BY <2>3 DEF AdvStart
  <2>. QED  BY <1>4, <2>1, <2>2, <2>3 DEF ControllerCall
<1>. QED  BY <1>1, <1>2, <1>3, <1>4

(* The variables of ble.c keep their types, and the pause depth is the      *)
(* number of scans under way and never wraps below zero (ble.c, ble_pause   *)
(* and ble_resume).                                                         *)
THEOREM TypeCorrect == Spec => []TypeOK
<1>. USE PairingAssumption
<1>1. Init => TypeOK
  <2>. SUFFICES ASSUME Init PROVE TypeOK
    OBVIOUS
  <2>1. 0 \in 0..BLE_PAIRING_TIMEOUT /\ 0 \in 0..MaxConn /\ 0 \in 0..MaxUpset
    BY DEF PairingAssumption
  <2>2. at \in [Caller -> Steps] /\ adv \in [policy : {"off", "open", "gated"}, fast : BOOLEAN]
    BY DEF Init, Steps, Quiet
  <2>3. bonds \subseteq Peer
    BY DEF Init, PairingAssumption
  <2>. QED  BY <2>1, <2>2, <2>3 DEF Init, TypeOK
<1>2. TypeOK /\ [Next]_vars => TypeOK'
  <2>. SUFFICES ASSUME TypeOK, [Next]_vars PROVE TypeOK'
    OBVIOUS
  <2>1. CASE UNCHANGED vars
    BY <2>1 DEF TypeOK, vars, state, link, radio, timer, bounds
  <2>. QED  BY <2>1, HostTypes, WindowTypes, ScanTypes DEF Next
<1>. QED  BY <1>1, <1>2, PTL DEF Spec
-----------------------------------------------------------------------------
\* What is due between ENC_CHANGE and the end of its handler; outside it one
\* bond at most, that of the encrypted link.
Bonds ==
  IF at["host"] \in {"encrypts", "close"}
  THEN conn_encrypted
  ELSE /\ conn_encrypted => bonds \subseteq {active_conn}
       /\ \A p, q \in bonds : p = q

\* The handler that will write over a state that is out of date.
Shown ==
  /\ conn_encrypted => Connected
  /\ ble_state = "CONNECTED" =>
       conn_encrypted \/ at["host"] \in {"connects", "down", "drops", "retries"}
  /\ ble_state = "OFF" => ~synced \/ at["host"] \in {"boot", "syncs"}

\* Outside the host task nobody touches the link, and nobody writes CONNECTED
\* or OFF.
LEMMA OthersLeave ==
  ASSUME TypeOK, \/ LongPress \/ PressSteps \/ System
                 \/ BlePause \/ BleResume \/ ScanSteps
                 \/ \E c \in Caller \ {"host"} : ControllerCall(c)
  PROVE  /\ at'["host"] = at["host"]
         /\ UNCHANGED <<active_conn, conn_encrypted, bonds, synced>>
         /\ ble_state' \in {ble_state, "ON", "PAIRING"}
<1>. USE CallerTypes DEF TypeOK, Goto, From, state, link, radio, timer, bounds
<1>1. CASE LongPress \/ PressSteps
  BY <1>1 DEF LongPress, PressSteps, PressStamps, PressOpens, PressLooks, PressMarks, PressBoosts
<1>2. CASE System
  <2>1. CASE SystemTimes
    BY <2>1 DEF SystemTimes
  <2>2. CASE SystemLooks \/ SystemClears \/ DisableLooks \/ DisableShuts
    BY <2>2 DEF SystemLooks, SystemClears, DisableLooks, DisableShuts
  <2>3. CASE DisableTests \/ DisableMarks \/ DisableLeaves
    BY <2>3 DEF DisableTests, DisableMarks, DisableLeaves
  <2>. QED  BY <1>2, <2>1, <2>2, <2>3 DEF System
<1>3. CASE BlePause \/ BleResume \/ ScanSteps
  BY <1>3 DEF BlePause, BleResume, ScanSteps, ResumeLooks, ResumeBoosts
<1>4. ASSUME NEW c \in Caller \ {"host"}, ControllerCall(c)
      PROVE  /\ at'["host"] = at["host"]
             /\ UNCHANGED <<active_conn, conn_encrypted, bonds, synced, ble_state>>
  BY <1>4 DEF ControllerCall, AdvStop, AdvChoose, AdvStart
<1>. QED  BY <1>1, <1>2, <1>3, <1>4

\* The host's own calls into the controller, once the state is written.
LEMMA HostCalls ==
  ASSUME TypeOK, ControllerCall("host")
  PROVE  /\ at["host"] \in {"stop", "halt", "choose", "open", "gated"}
         /\ at'["host"] \in {"idle", "choose", "open", "gated"}
         /\ UNCHANGED <<active_conn, conn_encrypted, bonds, synced, ble_state>>
  BY CallerTypes DEF TypeOK, Goto, From, state, link, radio, ControllerCall, AdvStop, AdvChoose,
     AdvStart

LEMMA BondsKept == Spec => []Bonds
<1>. USE PairingAssumption
<1>1. Init => Bonds
  BY DEF Init, Bonds, Caller, PairingAssumption
<1>2. TypeOK /\ Bonds /\ [Next]_vars => Bonds'
  <2>. SUFFICES ASSUME TypeOK, Bonds, [Next]_vars PROVE Bonds'
    OBVIOUS
  <2>1. CASE Host
    <3>. USE CallerTypes DEF TypeOK, Bonds, Goto, HostFree, state, link, radio
    <3>1. CASE GapEncrypted
      BY <3>1 DEF GapEncrypted
    <3>2. CASE GapRepeatPairing
      BY <3>2 DEF GapRepeatPairing
    <3>3. CASE OnSync \/ OnReset \/ GapDisconnect
      BY <3>3 DEF OnSync, OnReset, GapDisconnect, LinkDown
    <3>4. CASE GapConnectFailed \/ GapAdvComplete \/ \E p \in Peer : GapConnect(p)
      BY <3>4 DEF GapConnectFailed, GapAdvComplete, GapConnect
    <3>. QED  BY <2>1, <3>1, <3>2, <3>3, <3>4 DEF Host
  <2>2. CASE HostSteps
    <3>. USE CallerTypes DEF TypeOK, Bonds, Goto, From, state, link, radio
    <3>1. CASE EncryptedCloses
      BY <3>1 DEF EncryptedCloses
    <3>2. CASE HostWrites
      <4>1. AfterIt[at["host"]] = "close" <=> at["host"] = "encrypts"
        BY <3>2 DEF HostWrites, AfterIt, Written
      <4>2. AfterIt[at["host"]] # "encrypts" /\ at["host"] # "close"
        BY <3>2 DEF HostWrites
      <4>3. at'["host"] = AfterIt[at["host"]] /\ UNCHANGED <<active_conn, conn_encrypted, bonds>>
        BY <3>2 DEF HostWrites
      <4>. QED  BY <4>1, <4>2, <4>3
    <3>3. CASE OnSyncLooks \/ DisconnectLooks \/ DisconnectBoosts
      BY <3>3 DEF OnSyncLooks, DisconnectLooks, DisconnectBoosts
    <3>. QED  BY <2>2, <3>1, <3>2, <3>3 DEF HostSteps
  <2>3. CASE ControllerCall("host")
    BY <2>3, HostCalls DEF Bonds
  <2>4. CASE UNCHANGED vars
    BY <2>4 DEF vars, link, Bonds
  <2>5. CASE \/ LongPress \/ PressSteps \/ System \/ BlePause \/ BleResume \/ ScanSteps
             \/ \E c \in Caller \ {"host"} : ControllerCall(c)
    BY <2>5, OthersLeave DEF Bonds
  <2>. QED  BY <2>1, <2>2, <2>3, <2>4, <2>5 DEF Next
<1>. QED  BY <1>1, <1>2, TypeCorrect, PTL DEF Spec

(* "Only ONE peer may be bonded at a time" (README.md:62), for any set of   *)
(* peers and however connects, encryptions, repeated pairings and resets    *)
(* follow each other (ble.c, purge_other_bonds).                            *)
THEOREM OneBond == Spec => []SingleBond
<1>1. Bonds => SingleBond
  BY DEF Bonds, SingleBond, HostFree
<1>. QED  BY <1>1, BondsKept, PTL

(* The LED and the pages do not show a link that is not there: for any      *)
(* peers and any number of presses, whatever the button and the system task *)
(* write into ble_state on a look that is out of date (ble.c:404-428,       *)
(* 697-719; system.c:288-295).                                              *)
THEOREM LinkIsReal == Spec => []NoPhantomLink
<1>. USE PairingAssumption
<1>1. Init => Shown
  BY DEF Init, Bonds, Shown, Caller, PairingAssumption
<1>2. TypeOK /\ Bonds /\ Shown /\ [Next]_vars => Shown'
  <2>. SUFFICES ASSUME TypeOK, Bonds, Shown, [Next]_vars PROVE Shown'
    OBVIOUS
  <2>1. CASE Host
    <3>. USE CallerTypes DEF PairingAssumption, TypeOK, Shown, Connected, Goto, HostFree, state,
             link, radio
    <3>1. CASE GapEncrypted \/ GapRepeatPairing \/ GapConnectFailed \/ GapAdvComplete
      BY <3>1 DEF GapEncrypted, GapRepeatPairing, GapConnectFailed, GapAdvComplete
    <3>2. CASE OnSync \/ GapDisconnect \/ \E p \in Peer : GapConnect(p)
      BY <3>2 DEF OnSync, GapDisconnect, LinkDown, GapConnect
    <3>3. CASE OnReset
      <4>1. CASE Connected
        BY <3>3, <4>1 DEF OnReset, LinkDown
      <4>2. CASE ~Connected
        BY <3>3, <4>2 DEF OnReset, LinkDown
      <4>. QED  BY <4>1, <4>2
    <3>. QED  BY <2>1, <3>1, <3>2, <3>3 DEF Host
  <2>2. CASE HostSteps
    <3>. USE CallerTypes DEF TypeOK, Shown, Connected, Goto, From, state, link, radio
    <3>1. CASE HostWrites
      BY <3>1 DEF HostWrites, Written, AfterIt, Bonds
    <3>2. CASE EncryptedCloses
      BY <3>2 DEF EncryptedCloses
    <3>3. CASE OnSyncLooks \/ DisconnectLooks \/ DisconnectBoosts
      BY <3>3 DEF OnSyncLooks, DisconnectLooks, DisconnectBoosts
    <3>. QED  BY <2>2, <3>1, <3>2, <3>3 DEF HostSteps
  <2>3. CASE ControllerCall("host")
    BY <2>3, HostCalls DEF Shown, Connected
  <2>4. CASE UNCHANGED vars
    BY <2>4 DEF vars, state, link, radio, Shown, Connected
  <2>5. CASE \/ LongPress \/ PressSteps \/ System \/ BlePause \/ BleResume \/ ScanSteps
             \/ \E c \in Caller \ {"host"} : ControllerCall(c)
    BY <2>5, OthersLeave DEF Shown, Connected
  <2>. QED  BY <2>1, <2>2, <2>3, <2>4, <2>5 DEF Next
<1>3. TypeOK /\ Shown => NoPhantomLink
  BY DEF TypeOK, Shown, NoPhantomLink, HostFree
<1>. QED  BY <1>1, <1>2, <1>3, TypeCorrect, BondsKept, PTL DEF Spec
=============================================================================
