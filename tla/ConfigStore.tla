----------------------------- MODULE ConfigStore ----------------------------
(***************************************************************************)
(* The settings of the device (thalow_config.c) in their three copies: in  *)
(* memory, in flash and in force.  The HTTP task changes them field by     *)
(* field (a POST of one section of the settings page) or resets a section  *)
(* key by key (web_proxy.c), and applies them (wifi_apply,                 *)
(* rns_proxy_restart); the button task erases everything; the boot loads   *)
(* and applies them (system.c); power can go at any time.                  *)
(*                                                                         *)
(* Of the keys that are checked, saved and applied alike one stands for    *)
(* all, and ap_ip for the two fields between the security of the access    *)
(* point and its password.  What the station and the listener do with a    *)
(* configuration is the business of Wifi and RnsListener.                  *)
(***************************************************************************)
EXTENDS Naturals, Sequences

CONSTANTS
  Unset, Bad,        (* no value stored; a value the device does not take   *)
  MaxRequest,        (* bound: requests                                     *)
  MaxCrash,          (* bound: losses of power                              *)
  MaxFault           (* bound: NVS calls that fail                          *)

Switch == {"on", "off"}
Values == [ap_en |-> Switch, ap_auth |-> {"OPEN", "WPA2"}, ap_ip |-> {"10.10.0.2"},
           ap_pass |-> {"none", "secret"},
           sta_en |-> Switch, ble_en |-> Switch,
           rns_en |-> Switch, rns_port |-> {"4242", "4243"}]
Default == [ap_en |-> "on", ap_auth |-> "OPEN", ap_ip |-> "10.10.0.2", ap_pass |-> "none",
            sta_en |-> "off", ble_en |-> "on", rns_en |-> "on", rns_port |-> "4242"]
Key      == DOMAIN Default
WifiKey  == {"ap_en", "ap_auth", "ap_ip", "ap_pass", "sta_en"}
ProxyKey == {"rns_en", "rns_port"}

ASSUME ConfigAssumption ==
  /\ \A k \in Key : {Unset, Bad} \cap Values[k] = {}
  /\ {MaxRequest, MaxCrash, MaxFault} \subseteq Nat

\* The sections of the page, their keys in the order of the POST handler and
\* in that of the reset.
Section    == {"ap", "sta", "ble", "tcp"}
PostOrder  == [ap |-> <<"ap_en", "ap_auth", "ap_ip", "ap_pass">>, sta |-> <<"sta_en">>,
               ble |-> <<"ble_en">>, tcp |-> <<"rns_en", "rns_port">>]
EraseOrder == [PostOrder EXCEPT !.ap = <<"ap_en", "ap_pass", "ap_auth", "ap_ip">>]

VARIABLES
  memory,     (* the static variables of thalow_config.c                    *)
  nvs,        (* what nvs_get would return                                  *)
  flash,      (* what nvs_commit has made durable                           *)
  handle,     (* the NVS handle: open, closed (never opened) or erased      *)
  at, todo,   (* where the HTTP task, or the boot, is; keys it still has    *)
              (* to do                                                      *)
  req,        (* the request: its section, and its fields; a reset has none *)
  ble_up,     (* ble_init has run                                           *)
  wifi,       (* the configuration of the last wifi_apply                   *)
  proxy,      (* the configuration of the last start of the listener        *)
  may,        (* history: per key the values a restart may find: the one    *)
              (* answered for, and those tried since                        *)
  ignored,    (* history: keys whose saving failed and nobody was told      *)
  touched,    (* history: what a refused POST or a reset left to apply      *)
  fresh,      (* history: nothing was stored since the restart that ends a  *)
              (* factory reset ("yes"), or this restart is due ("due")      *)
  aborted,    (* history: what made the firmware abort                      *)
  shown,      (* history: a page was loaded while the access point had a    *)
              (* password                                                   *)
  half,       (* history: a POST of the access point was refused, or left   *)
              (* out a password that is not there, and none was answered    *)
              (* and the section not reset since                            *)
  requests, crashes, faults       (* counters for the bounds                *)

stores  == <<memory, nvs, flash, handle>>
server  == <<at, todo, req>>
forced  == <<ble_up, wifi, proxy>>
pages   == <<shown, half>>
history == <<may, ignored, touched, fresh, aborted, pages>>
bounds  == <<requests, crashes, faults>>
vars    == <<stores, server, forced, history, bounds>>

NoRequest      == [section |-> "none", fields |-> <<>>]
Part(m, keys)  == [k \in keys |-> m[k]]
Loaded(stored) == [k \in Key |-> IF stored[k] = Unset THEN Default[k] ELSE stored[k]]

\* A device from the factory is switched on.
Init ==
  /\ memory = Default
  /\ nvs = [k \in Key |-> Unset] /\ flash = nvs /\ handle = "closed"
  /\ at = "load" /\ todo = <<>> /\ req = NoRequest
  /\ ble_up = FALSE /\ wifi = Part(Default, WifiKey) /\ proxy = Part(Default, ProxyKey)
  /\ may = [k \in Key |-> {Default[k]}]
  /\ ignored = {} /\ touched = {} /\ fresh = "yes" /\ aborted = {}
  /\ shown = FALSE /\ half = FALSE
  /\ requests = 0 /\ crashes = 0 /\ faults = 0

\* The processor starts again; of what was not committed each key may have
\* reached the flash.
Restarts ==
  /\ \E kept \in SUBSET {k \in Key : nvs[k] # flash[k]} :
       flash' = [k \in Key |-> IF k \in kept THEN nvs[k] ELSE flash[k]]
  /\ nvs' = flash' /\ handle' = "closed"
  /\ memory' = Default
  /\ at' = "load" /\ todo' = <<>> /\ req' = NoRequest
  /\ ble_up' = FALSE
  /\ wifi' = Part(Default, WifiKey) /\ proxy' = Part(Default, ProxyKey)
  /\ touched' = {}
  /\ fresh' = IF fresh = "due" THEN "yes" ELSE fresh
  /\ UNCHANGED pages

Aborts(why) ==
  /\ aborted' = aborted \union {why}
  /\ Restarts
  /\ UNCHANGED <<may, ignored, bounds>>
-----------------------------------------------------------------------------
(* wifi_apply.                                                              *)

\* The driver takes a protected access point only with a password.
DriverRefuses(m) == m.ap_en = "on" /\ m.ap_auth # "OPEN" /\ m.ap_pass = "none"

\* ESP_ERROR_CHECK in configure_ap.
WifiApplyAborts ==
  /\ DriverRefuses(memory)
  /\ Aborts(IF handle = "erased" THEN "erased" ELSE "wifi_config")

WifiApply(next) ==
  /\ ~DriverRefuses(memory)
  /\ wifi' = Part(memory, WifiKey)
  /\ touched' = touched \ {"wifi"}
  /\ at' = next
  /\ UNCHANGED <<stores, todo, req, ble_up, proxy, may, ignored, fresh, aborted, pages, bounds>>
-----------------------------------------------------------------------------
(* The boot: system_run.                                                    *)

\* thalow_config_init, and ble_init if BLE is enabled.
BootLoad ==
  /\ at = "load"
  /\ handle' = "open"
  /\ memory' = Loaded(flash)
  /\ ble_up' = (memory'.ble_en = "on")
  /\ at' = "wifi"
  /\ UNCHANGED <<nvs, flash, todo, req, wifi, proxy, history, bounds>>

\* nvs_open fails: the variables keep their initial values.
BootLoadFails ==
  /\ at = "load"
  /\ faults < MaxFault
  /\ faults' = faults + 1
  /\ ble_up' = (memory.ble_en = "on")
  /\ at' = "wifi"
  /\ UNCHANGED <<stores, todo, req, wifi, proxy, history, requests, crashes>>

BootWifi == at = "wifi" /\ (WifiApply("proxy") \/ WifiApplyAborts)

\* A page loaded between two requests shows whether there is a password.
Shows(m) == shown' = (shown \/ m.ap_pass # "none")

\* rns_proxy_init.
BootProxy ==
  /\ at = "proxy"
  /\ proxy' = Part(memory, ProxyKey)
  /\ at' = "idle"
  /\ Shows(memory)
  /\ UNCHANGED <<stores, todo, req, ble_up, wifi, may, ignored, touched, fresh, aborted, half,
                 bounds>>

Boot == BootLoad \/ BootLoadFails \/ BootWifi \/ BootProxy
-----------------------------------------------------------------------------
(* Saving one key.                                                          *)

\* The commit is left out.
SaveUncommitted(k, v) ==
  /\ handle = "open"
  /\ nvs' = [nvs EXCEPT ![k] = v]
  /\ UNCHANGED <<flash, handle, faults>>

Save(k, v) ==
  /\ handle = "open"
  /\ nvs' = [nvs EXCEPT ![k] = v]
  /\ flash' = nvs'
  /\ UNCHANGED <<handle, faults>>

\* The handle is not good, nvs_set fails, or nvs_commit does.
SaveFails(k, v) ==
  /\ IF handle = "open"
     THEN /\ faults < MaxFault /\ faults' = faults + 1
          /\ nvs' \in {nvs, [nvs EXCEPT ![k] = v]}
     ELSE UNCHANGED <<nvs, faults>>
  /\ UNCHANGED <<flash, handle>>
-----------------------------------------------------------------------------
(* handle_thalow_cfg_post.                                                  *)

\* What the settings page sends.  For a protected network it looks after a
\* password: one is typed in, or there was one when the page was loaded, maybe
\* before it was reset or changed elsewhere.  It counts characters where the
\* setter counts bytes, and takes an address with a number like 089, which the
\* setter reads as octal.  An open network, and a port, it does not look after.
PageBody(s) ==
  CASE s = "ap"  -> LET open == [ap_en : Switch, ap_auth : Values.ap_auth,
                                 ap_ip : Values.ap_ip \union {Bad}]
                        typed == [ap_en : Switch, ap_auth : Values.ap_auth,
                                  ap_ip : Values.ap_ip \union {Bad}, ap_pass : {"secret", Bad}]
                    IN  typed \union {f \in open : f.ap_auth = "OPEN" \/ shown}
    [] s = "sta" -> [sta_en : Switch]
    [] s = "ble" -> [ble_en : Switch]
    [] s = "tcp" -> [rns_en : Switch, rns_port : Values.rns_port \union {Bad}]

\* A protected network, and neither is there a password nor one in the request.
Bare(f) == "ap_auth" \in DOMAIN f /\ f.ap_auth # "OPEN" /\ "ap_pass" \notin DOMAIN f
           /\ memory.ap_pass = "none"

\* A request arrives: a network is up to bring it.
Requested ==
  /\ at = "idle"
  /\ "on" \in {wifi.ap_en, wifi.sta_en}
  /\ requests < MaxRequest
  /\ requests' = requests + 1

PostBegins(s, f) ==
  /\ Requested
  /\ req' = [section |-> s, fields |-> f]
  /\ todo' = PostOrder[s]
  /\ at' = "field"
  /\ half' = (half \/ Bare(f))
  /\ UNCHANGED <<stores, forced, may, ignored, touched, fresh, aborted, shown, crashes, faults>>

\* The station's switch does not count as a change of the WiFi.
AppliesNotStation(keys) ==
  (IF keys \cap (WifiKey \ {"sta_en"}) # {} THEN {"wifi"} ELSE {}) \union
  (IF keys \cap ProxyKey # {} THEN {"proxy"} ELSE {})

\* What a change of these keys has to be followed by.
Applies(keys) == (IF keys \cap WifiKey # {} THEN {"wifi"} ELSE {}) \union
                 (IF keys \cap ProxyKey # {} THEN {"proxy"} ELSE {})

\* The handler looks at what these setters return.
Checked == {"ap_auth", "ap_ip", "ap_pass"}

\* goto fail: 400; the fields before this one stay.
Refuse ==
  /\ at' = "idle" /\ todo' = <<>> /\ req' = NoRequest
  /\ touched' = touched \union Applies(DOMAIN req.fields)
  /\ half' = (half \/ req.section = "ap")
  /\ Shows(memory')

Stored == IF fresh = "due" THEN fresh ELSE "no"

Sent(k) == k \in DOMAIN req.fields

\* A field the request does not have is passed over.
SkipField ==
  /\ at = "field" /\ todo # <<>> /\ ~Sent(Head(todo))
  /\ todo' = Tail(todo)
  /\ UNCHANGED <<stores, at, req, forced, history, bounds>>

\* A value is checked, put into memory and saved.
PostField ==
  /\ at = "field" /\ todo # <<>> /\ Sent(Head(todo))
  /\ LET k == Head(todo)
         v == req.fields[k]
     IN  \/ /\ v = Bad
            /\ UNCHANGED <<stores, may, ignored, fresh, faults>>
            /\ Refuse
         \/ /\ v # Bad
            /\ memory' = [memory EXCEPT ![k] = v]
            /\ may' = [may EXCEPT ![k] = @ \union {v}]
            /\ \/ /\ Save(k, v)
                  /\ todo' = Tail(todo)
                  /\ ignored' = ignored \ {k}
                  /\ fresh' = Stored
                  /\ UNCHANGED <<at, req, touched, pages>>
               \/ /\ SaveFails(k, v)
                  /\ fresh' = IF nvs' = nvs THEN fresh ELSE Stored
                  /\ IF k \in Checked
                     THEN Refuse /\ UNCHANGED ignored
                     ELSE /\ ignored' = ignored \union {k}
                          /\ todo' = Tail(todo)
                          /\ UNCHANGED <<at, req, touched, pages>>
  /\ UNCHANGED <<forced, aborted, requests, crashes>>

PostApplies ==
  /\ at = "field" /\ todo = <<>>
  /\ IF "wifi" \in Applies(DOMAIN req.fields)
     THEN WifiApply("restart") \/ WifiApplyAborts
     ELSE /\ at' = "restart"
          /\ UNCHANGED <<stores, todo, req, forced, history, bounds>>

\* rns_proxy_restart.
PostRestarts ==
  /\ at = "restart"
  /\ IF "proxy" \in Applies(DOMAIN req.fields)
     THEN proxy' = Part(memory, ProxyKey) /\ touched' = touched \ {"proxy"}
     ELSE UNCHANGED <<proxy, touched>>
  /\ at' = "answer"
  /\ UNCHANGED <<stores, todo, req, ble_up, wifi, may, ignored, fresh, aborted, pages, bounds>>

\* 200: from now on these are the settings, if no factory reset came between.
Answer ==
  /\ at = "answer"
  /\ may' = [k \in Key |-> IF k \in DOMAIN req.fields /\ handle # "erased"
                          THEN {req.fields[k]} ELSE may[k]]
  /\ at' = "idle" /\ req' = NoRequest
  /\ half' = (half /\ req.section # "ap")
  /\ Shows(memory)
  /\ UNCHANGED <<stores, todo, forced, ignored, touched, fresh, aborted, bounds>>

Post == SkipField \/ PostField \/ PostApplies \/ PostRestarts \/ Answer
-----------------------------------------------------------------------------
(* handle_thalow_reset and thalow_config_reset.                             *)

ResetBegins(s) ==
  /\ Requested
  /\ handle # "closed"
  /\ req' = [section |-> s, fields |-> Part(Default, {EraseOrder[s][i] : i \in DOMAIN EraseOrder[s]})]
  /\ todo' = EraseOrder[s]
  /\ at' = "erase"
  /\ UNCHANGED <<stores, forced, history, crashes, faults>>

\* What nvs_erase_key returns is not looked at.
EraseKey ==
  /\ at = "erase" /\ todo # <<>>
  /\ LET k == Head(todo)
     IN  /\ \/ handle = "open" /\ nvs' = [nvs EXCEPT ![k] = Unset] /\ UNCHANGED <<faults, ignored>>
            \/ /\ UNCHANGED nvs
               /\ IF handle = "open" THEN faults < MaxFault /\ faults' = faults + 1
                                     ELSE UNCHANGED faults
               /\ ignored' = ignored \union {k}
         /\ may' = [may EXCEPT ![k] = @ \union {Default[k]}]
  /\ todo' = Tail(todo)
  /\ UNCHANGED <<memory, flash, handle, at, req, forced, touched, fresh, aborted, pages,
                 requests, crashes>>

\* The defaults of the section; the security of the access point is kept.
ResetKeepsAuth ==
  /\ at = "erase" /\ todo = <<>>
  /\ memory' = [k \in Key |-> IF k \in DOMAIN req.fields \ {"ap_auth"} THEN Default[k] ELSE memory[k]]
  /\ flash' = nvs
  /\ touched' = touched \union Applies(DOMAIN req.fields)
  /\ at' = "reset"
  /\ UNCHANGED <<nvs, handle, todo, req, forced, may, ignored, fresh, aborted, pages, bounds>>

ResetDefaults ==
  /\ at = "erase" /\ todo = <<>>
  /\ memory' = [k \in Key |-> IF k \in DOMAIN req.fields THEN Default[k] ELSE memory[k]]
  /\ \/ flash' = nvs /\ UNCHANGED <<faults, ignored>>
     \/ /\ handle = "open" /\ faults < MaxFault /\ faults' = faults + 1
        /\ ignored' = ignored \union DOMAIN req.fields
        /\ UNCHANGED flash
  /\ touched' = touched \union Applies(DOMAIN req.fields)
  /\ at' = "reset"
  /\ UNCHANGED <<nvs, handle, todo, req, forced, may, fresh, aborted, pages, requests, crashes>>

\* The name of the section is compared after it was freed: for an "ap" or
\* "sta" it may or may not be found equal.
ResetApplies ==
  /\ at = "reset"
  /\ \/ req.section \in {"ap", "sta"} /\ (WifiApply("answer") \/ WifiApplyAborts)
     \/ /\ at' = "answer"
        /\ UNCHANGED <<stores, todo, req, forced, history, bounds>>

Reset == EraseKey \/ ResetDefaults \/ ResetApplies
-----------------------------------------------------------------------------
(* The button, the BLE stack and the power.                                 *)

\* The handle goes on working until the restart.
FactoryEraseOnly ==
  /\ at \notin {"load", "wifi", "proxy"}
  /\ handle # "erased"
  /\ nvs' = [k \in Key |-> Unset] /\ flash' = nvs' /\ UNCHANGED handle
  /\ may' = [k \in Key |-> {Default[k]}]
  /\ ignored' = {} /\ fresh' = "due"
  /\ UNCHANGED <<memory, server, forced, touched, aborted, pages, bounds>>

\* nvs_flash_erase after 30 s of holding, which a boot does not take; the
\* handle is of no use any more.
FactoryErase ==
  /\ at \notin {"load", "wifi", "proxy"}
  /\ handle # "erased"
  /\ nvs' = [k \in Key |-> Unset] /\ flash' = nvs' /\ handle' = "erased"
  /\ may' = [k \in Key |-> {Default[k]}]
  /\ ignored' = {} /\ fresh' = "due"
  /\ UNCHANGED <<memory, server, forced, touched, aborted, pages, bounds>>

FactoryRestart ==
  /\ handle = "erased"
  /\ Restarts
  /\ UNCHANGED <<may, ignored, aborted, bounds>>

\* A long press, or a scan (ble_pause), asks the configuration whether there
\* is a BLE stack.
UsesBle ==
  /\ at # "load"
  /\ memory.ble_en = "on" /\ ~ble_up
  /\ Aborts("ble")

PowerLoss ==
  /\ crashes < MaxCrash
  /\ crashes' = crashes + 1
  /\ Restarts
  /\ UNCHANGED <<may, ignored, aborted, requests, faults>>

Next ==
  \/ Boot \/ Post \/ Reset
  \/ \E s \in Section : ResetBegins(s) \/ \E f \in PageBody(s) : PostBegins(s, f)
  \/ FactoryErase \/ FactoryRestart \/ UsesBle \/ PowerLoss

Spec == Init /\ [][Next]_vars
-----------------------------------------------------------------------------
AnyValue == UNION {Values[k] : k \in Key}

TypeOK ==
  /\ memory \in [Key -> AnyValue] /\ may \in [Key -> SUBSET AnyValue]
  /\ {nvs, flash} \subseteq [Key -> AnyValue \union {Unset}]
  /\ \A k \in Key : /\ memory[k] \in Values[k]
                    /\ {nvs[k], flash[k]} \subseteq Values[k] \union {Unset}
                    /\ may[k] \subseteq Values[k]
  /\ handle \in {"open", "closed", "erased"}
  /\ at \in {"load", "wifi", "proxy", "idle", "field", "restart", "answer", "erase", "reset"}
  /\ ble_up \in BOOLEAN /\ fresh \in {"no", "due", "yes"}
  /\ ignored \subseteq Key /\ touched \subseteq {"wifi", "proxy"}
  /\ shown \in BOOLEAN /\ half \in BOOLEAN
  /\ aborted \subseteq {"wifi_config", "erased", "ble"}

(* Settings are durable: wherever power is lost, a restart finds each key   *)
(* with the value last answered for or with one that was asked for since,   *)
(* unless saving it failed in a setter whose error the handler ignores      *)
(* (thalow_config.c, the save functions and the reset).                     *)
Durable ==
  \A k \in Key \ ignored :
    {Loaded(flash)[k], Loaded(nvs)[k]} \subseteq may[k]

(* Settings are in force: between two requests what the radio and the       *)
(* listener run with is what the pages show, unless a POST was refused      *)
(* half-way or a section was reset (web_proxy.c, wifi_changed and           *)
(* rns_changed).                                                            *)
InForce ==
  at = "idle" =>
    /\ "wifi" \in touched \/ wifi = Part(memory, WifiKey)
    /\ "proxy" \in touched \/ proxy = Part(memory, ProxyKey)

(* For ESP_ERROR_CHECK in configure_ap to fail for the first time, an       *)
(* accident must have come first: a loss of power, a failing NVS call, an   *)
(* abort of another kind (which cuts a change short as well), or a POST of  *)
(* the access point that was refused half-way or came from a page that took *)
(* a password for set.  The last two are mended by a POST of the access     *)
(* point that is answered, and by a reset of the section.                   *)
FirstAbort == aborted = {} /\ aborted' = {"wifi_config"}

AbortNeedsAccident ==
  [][FirstAbort => half \/ crashes > 0 \/ faults > 0]_vars

(* A factory reset leaves nothing behind: whatever the web server was       *)
(* saving while the flash was erased, the device comes up with the defaults.*)
FactoryResetTotal ==
  fresh # "no" => flash = [k \in Key |-> Unset]
-----------------------------------------------------------------------------
(* Said of this code and not so: each is refuted (README, Divergences).     *)

(* wifi.c:328, ESP_ERROR_CHECK(esp_wifi_set_config(WIFI_IF_AP, ...)): the   *)
(* access point saved is one the driver takes.                              *)
BootSurvives == "wifi_config" \notin aborted

(* system.c:82-88, "Bail out cleanly": a long press does not touch a BLE    *)
(* stack that was never initialised.                                        *)
LongPressBails == "ble" \notin aborted

(* thalow_inject.js:519-520, "Web access will be lost until the device      *)
(* reboots": after a boot there is a network to reach the device by.        *)
RebootRestoresAccess == at = "proxy" => "on" \in {wifi.ap_en, wifi.sta_en}

(* web_proxy.c:455, a bad field is answered with an error and 200 means     *)
(* saved.                                                                   *)
AnsweredIsSaved ==
  at = "answer" /\ handle = "open" =>
    \A k \in DOMAIN req.fields : Loaded(flash)[k] = req.fields[k]
=============================================================================
