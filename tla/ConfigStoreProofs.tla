-------------------------- MODULE ConfigStoreProofs -------------------------
(***************************************************************************)
(* Safety of the settings for any number of requests, losses of power and  *)
(* failing NVS calls, whatever stands for a missing or a refused value.    *)
(***************************************************************************)
EXTENDS ConfigStore, TLAPS

\* The keys the HTTP task still has before it.
Left == {todo[i] : i \in DOMAIN todo}

\* What is left of the order o of the keys of a section.
RestOf(o) == {SubSeq(o, n, Len(o)) : n \in 1..Len(o) + 1}

\* Where the HTTP task is decides what it has left of which request.
Handled ==
  /\ {crashes, faults} \subseteq Nat
  /\ DOMAIN req.fields \subseteq Key
  /\ \A k \in DOMAIN req.fields : req.fields[k] \in Values[k] \union {Bad}
  /\ \A k \in DOMAIN req.fields \ Left : req.fields[k] # Bad
  /\ at \in {"field", "erase"} => req.section \in Section
  /\ req.section = "ap" => {"ap_en", "ap_auth"} \subseteq DOMAIN req.fields
  /\ at = "field" => todo \in RestOf(PostOrder[req.section])
  /\ at = "erase" => todo \in RestOf(EraseOrder[req.section])
  /\ at \in {"erase", "reset"} =>
       /\ DOMAIN req.fields = {EraseOrder[req.section][i] : i \in DOMAIN EraseOrder[req.section]}
       /\ \A k \in DOMAIN req.fields : req.fields[k] = Default[k]
  /\ at \notin {"field", "erase"} => todo = <<>>
  /\ at = "load" => handle = "closed"

\* A factory reset: nothing is stored, and until the restart nothing can be.
Erased ==
  /\ handle = "erased" <=> fresh = "due"
  /\ at \in {"wifi", "proxy"} => handle # "erased"
  /\ fresh # "no" => flash = [k \in Key |-> Unset] /\ nvs = flash

\* What a request has behind it is saved, or its loss is noted; a reset
\* commits only at its end.
Saved ==
  handle # "erased" =>
    \A k \in DOMAIN req.fields \ (ignored \union Left) :
      /\ Loaded(nvs)[k] = req.fields[k]
      /\ at # "erase" => Loaded(flash)[k] = req.fields[k]

\* What is not in force is noted, or the request at work will apply it.
Pending == IF at = "field" THEN Applies(DOMAIN req.fields)
           ELSE IF at = "restart" THEN Applies(DOMAIN req.fields) \ {"wifi"} ELSE {}

Applied ==
  /\ at \notin {"load", "wifi"} =>
       "wifi" \in touched \union Pending \/ wifi = Part(memory, WifiKey)
  /\ at \notin {"load", "wifi", "proxy"} =>
       "proxy" \in touched \union Pending \/ proxy = Part(memory, ProxyKey)

\* While a POST of the access point is at work it has a password for the
\* security it has put, or is about to put, into memory.
Securing ==
  /\ "ap_pass" \in DOMAIN req.fields => req.fields.ap_pass # "none"
  /\ \/ req.fields.ap_auth = "OPEN"
     \/ memory.ap_pass # "none"
     \/ "ap_pass" \in DOMAIN req.fields \cap Left
  /\ "ap_auth" \notin Left => memory.ap_auth = req.fields.ap_auth

\* What a POST of the access point has applied, and what a reset put in its
\* place, the driver takes.
Mended ==
  at \in {"restart", "reset", "answer"} /\ req.section = "ap" => ~DriverRefuses(memory)

\* As long as no power was lost, no call failed and nothing aborted; half
\* stands for a security of the access point without its password.
Calm ==
  crashes = 0 /\ faults = 0 /\ aborted = {} =>
    /\ at = "load" => flash = [k \in Key |-> Unset]
    /\ at # "load" => ble_up /\ handle # "closed"
    /\ at # "load" /\ handle # "erased" /\ ~half =>
         IF at = "field" /\ req.section = "ap" THEN Securing ELSE ~DriverRefuses(memory)

Inv == TypeOK /\ Handled /\ Erased /\ Durable /\ Saved /\ Applied /\ Mended /\ Calm
-----------------------------------------------------------------------------
LEMMA KeyIs == Key = {"ap_en", "ap_auth", "ap_ip", "ap_pass", "sta_en", "ble_en", "rns_en", "rns_port"}
BY DEF Key, Default

(* A default is a value, and the two values that are none are not.          *)
LEMMA DefaultIsValue ==
  \A k \in Key : Default[k] \in Values[k] /\ Unset \notin Values[k] /\ Bad \notin Values[k]
<1>1. \A k \in Key : Default[k] \in Values[k]
  BY KeyIs DEF Default, Values, Switch
<1>2. \A k \in Key : Unset \notin Values[k] /\ Bad \notin Values[k]
  BY ConfigAssumption
<1>. QED  BY <1>1, <1>2

(* What is loaded for a key is its default or the value stored.             *)
LEMMA LoadedIs ==
  ASSUME NEW stored, NEW k \in Key
  PROVE  Loaded(stored)[k] = IF stored[k] = Unset THEN Default[k] ELSE stored[k]
BY DEF Loaded

(* The next key of an order, and what is left after it.                     *)
LEMMA NextKey ==
  ASSUME NEW o \in Seq(Key), NEW q \in RestOf(o), q # <<>>
  PROVE  /\ Head(q) \in Key
         /\ Tail(q) \in RestOf(o)
         /\ {q[i] : i \in DOMAIN q} = {Head(q)} \union {Tail(q)[i] : i \in DOMAIN Tail(q)}
<1>1. PICK n \in 1..Len(o) + 1 : q = SubSeq(o, n, Len(o))
  BY DEF RestOf
<1>2. n \in 1..Len(o) /\ Head(q) = o[n]
  BY <1>1
<1>3. Tail(q) = SubSeq(o, n + 1, Len(o))
  BY <1>1, <1>2
<1>4. \A x : (\E i \in DOMAIN q : q[i] = x) <=> \E i \in n..Len(o) : o[i] = x
  <2>1. \A i \in DOMAIN q : q[i] = o[i + n - 1] /\ i + n - 1 \in n..Len(o)
    BY <1>1, <1>2
  <2>2. \A i \in n..Len(o) : q[i - n + 1] = o[i] /\ i - n + 1 \in DOMAIN q
    BY <1>1, <1>2
  <2>. QED  BY <2>1, <2>2
<1>5. \A x : (\E i \in DOMAIN Tail(q) : Tail(q)[i] = x) <=> \E i \in n + 1..Len(o) : o[i] = x
  <2>1. \A i \in DOMAIN Tail(q) : Tail(q)[i] = o[i + n] /\ i + n \in n + 1..Len(o)
    BY <1>1, <1>2, <1>3
  <2>2. \A i \in n + 1..Len(o) : Tail(q)[i - n] = o[i] /\ i - n \in DOMAIN Tail(q)
    BY <1>1, <1>2, <1>3
  <2>. QED  BY <2>1, <2>2
<1>6. {q[i] : i \in DOMAIN q} = {Head(q)} \union {Tail(q)[i] : i \in DOMAIN Tail(q)}
  <2>1. \A x : (\E i \in n..Len(o) : o[i] = x) <=> x = o[n] \/ \E i \in n + 1..Len(o) : o[i] = x
    BY <1>2
  <2>2. \A x : (\E i \in DOMAIN q : q[i] = x) <=> x = Head(q) \/ \E i \in DOMAIN Tail(q) : Tail(q)[i] = x
    BY <2>1, <1>2, <1>4, <1>5
  <2>. QED  BY <2>2
<1>7. n + 1 \in 1..Len(o) + 1 /\ o[n] \in Key
  BY <1>2
<1>. QED  BY <1>2, <1>3, <1>6, <1>7 DEF RestOf

(* The orders of the keys of a section.                                     *)
LEMMA Orders ==
  ASSUME NEW s \in Section
  PROVE  /\ PostOrder[s] \in Seq(Key) /\ PostOrder[s] \in RestOf(PostOrder[s])
         /\ EraseOrder[s] \in Seq(Key) /\ EraseOrder[s] \in RestOf(EraseOrder[s])
         /\ {PostOrder[s][i] : i \in DOMAIN PostOrder[s]} = {EraseOrder[s][i] : i \in DOMAIN EraseOrder[s]}
<1>1. PostOrder[s] \in Seq(Key) /\ EraseOrder[s] \in Seq(Key)
  <2>1. /\ PostOrder["ap"] = <<"ap_en", "ap_auth", "ap_ip", "ap_pass">> /\ PostOrder["sta"] = <<"sta_en">>
        /\ PostOrder["ble"] = <<"ble_en">> /\ PostOrder["tcp"] = <<"rns_en", "rns_port">>
    BY DEF PostOrder
  <2>2. /\ EraseOrder["ap"] = <<"ap_en", "ap_pass", "ap_auth", "ap_ip">>
        /\ \A t \in Section \ {"ap"} : EraseOrder[t] = PostOrder[t]
    BY DEF EraseOrder, PostOrder, Section
  <2>3. /\ <<"ap_en", "ap_auth", "ap_ip", "ap_pass">> \in Seq(Key)
        /\ <<"ap_en", "ap_pass", "ap_auth", "ap_ip">> \in Seq(Key)
        /\ <<"sta_en">> \in Seq(Key) /\ <<"ble_en">> \in Seq(Key) /\ <<"rns_en", "rns_port">> \in Seq(Key)
    BY KeyIs
  <2>. QED  BY <2>1, <2>2, <2>3 DEF Section
<1>2. \A q \in Seq(Key) : q \in RestOf(q)
  <2>. TAKE q \in Seq(Key)
  <2>1. q = SubSeq(q, 1, Len(q)) /\ 1 \in 1..Len(q) + 1
    OBVIOUS
  <2>. QED  BY <2>1 DEF RestOf
<1>3. {PostOrder[s][i] : i \in DOMAIN PostOrder[s]} = {EraseOrder[s][i] : i \in DOMAIN EraseOrder[s]}
  BY DEF PostOrder, EraseOrder, Section
<1>. QED  BY <1>1, <1>2, <1>3

(* The keys of the section of the access point, and of the others.          *)
LEMMA KeysErased ==
  ASSUME NEW s \in Section
  PROVE  LET keys == {EraseOrder[s][i] : i \in DOMAIN EraseOrder[s]}
         IN  /\ keys \subseteq Key
             /\ s = "ap" => keys = {"ap_en", "ap_auth", "ap_ip", "ap_pass"}
             /\ s # "ap" => keys \cap {"ap_en", "ap_auth", "ap_ip", "ap_pass"} = {}
<1>1. /\ {PostOrder["ap"][i] : i \in DOMAIN PostOrder["ap"]} = {"ap_en", "ap_auth", "ap_ip", "ap_pass"}
      /\ {PostOrder["sta"][i] : i \in DOMAIN PostOrder["sta"]} = {"sta_en"}
      /\ {PostOrder["ble"][i] : i \in DOMAIN PostOrder["ble"]} = {"ble_en"}
      /\ {PostOrder["tcp"][i] : i \in DOMAIN PostOrder["tcp"]} = {"rns_en", "rns_port"}
  BY DEF PostOrder
<1>2. {EraseOrder[s][i] : i \in DOMAIN EraseOrder[s]} = {PostOrder[s][i] : i \in DOMAIN PostOrder[s]}
  BY Orders
<1>3. CASE s = "ap"
  BY <1>1, <1>2, <1>3, KeyIs
<1>4. CASE s # "ap"
  <2>1. {PostOrder[s][i] : i \in DOMAIN PostOrder[s]} \in {{"sta_en"}, {"ble_en"}, {"rns_en", "rns_port"}}
    BY <1>1, <1>4 DEF Section
  <2>. QED  BY <1>2, <1>4, <2>1, KeyIs
<1>. QED  BY <1>3, <1>4

LEMMA InitInv == Init => Inv
<1>. SUFFICES ASSUME Init PROVE Inv
  OBVIOUS
<1>. USE DEF Init
<1>1. TypeOK
  <2>1. Default \in [Key -> AnyValue]
    BY DefaultIsValue DEF Default, Key, AnyValue
  <2>2. \A k \in Key : Default[k] \in AnyValue
    BY DefaultIsValue DEF AnyValue
  <2>. QED  BY <2>1, <2>2, DefaultIsValue DEF TypeOK
<1>2. Handled /\ Saved
  BY DEF Handled, Saved, NoRequest
<1>3. Durable
  BY LoadedIs DEF Durable
<1>4. Erased /\ Applied /\ Mended /\ Calm
  BY DEF Erased, Applied, Mended, Calm, DriverRefuses
<1>. QED  BY <1>1, <1>2, <1>3, <1>4 DEF Inv
-----------------------------------------------------------------------------
(* After a restart of whatever cause the device has what it had stored, or  *)
(* committed, and nothing else.                                             *)
LEMMA RestartInv ==
  ASSUME Inv, Restarts, UNCHANGED <<may, ignored>>,
         aborted' \subseteq {"wifi_config", "erased", "ble"},
         {crashes', faults'} \subseteq Nat,
         crashes' = 0 /\ faults' = 0 /\ aborted' = {} => flash' = [k \in Key |-> Unset]
  PROVE  Inv'
<1>. USE DEF Inv, Restarts, pages
<1>1. \A k \in Key : flash'[k] \in {nvs[k], flash[k]} /\ nvs'[k] = flash'[k]
  OBVIOUS
<1>2. TypeOK'
  <2>1. memory' \in [Key -> AnyValue] /\ \A k \in Key : memory'[k] \in Values[k]
    BY DefaultIsValue, KeyIs DEF Default, AnyValue
  <2>2. flash' \in [Key -> AnyValue \union {Unset}]
    BY <1>1 DEF TypeOK
  <2>. QED  BY <1>1, <2>1, <2>2 DEF TypeOK
<1>3. Handled' /\ Saved' /\ Applied' /\ Mended'
  BY DEF Handled, Saved, Applied, Mended, NoRequest
<1>4. Erased'
  BY <1>1 DEF Erased, TypeOK
<1>5. Durable'
  BY <1>1, LoadedIs DEF Durable
<1>6. Calm'
  BY DEF Calm
<1>. QED  BY <1>2, <1>3, <1>4, <1>5, <1>6

LEMMA FactoryRestartInv ==
  ASSUME Inv, FactoryRestart
  PROVE  Inv'
<1>. USE DEF FactoryRestart, Inv
<1>1. flash = [k \in Key |-> Unset] /\ nvs = flash
  BY DEF Erased
<1>2. flash' = [k \in Key |-> Unset]
  BY <1>1 DEF Restarts
<1>. QED  BY <1>2, RestartInv DEF TypeOK, Handled, Calm, bounds

LEMMA PowerLossInv ==
  ASSUME Inv, PowerLoss
  PROVE  Inv'
<1>1. crashes' \in Nat \ {0}
  BY DEF PowerLoss, Inv, Handled
<1>. QED  BY <1>1, RestartInv DEF PowerLoss, Inv, TypeOK, Handled

(* What aborts starts again with what is stored.                            *)
LEMMA UsesBleInv ==
  ASSUME Inv, UsesBle
  PROVE  Inv'
BY RestartInv DEF UsesBle, Aborts, Inv, TypeOK, Handled, bounds

LEMMA ApplyAbortsInv ==
  ASSUME Inv, WifiApplyAborts
  PROVE  Inv'
BY RestartInv DEF WifiApplyAborts, Aborts, Inv, TypeOK, Handled, bounds

(* Where wifi_apply succeeds the radio runs with what is in memory.         *)
LEMMA ApplyInv ==
  ASSUME Inv, NEW next, WifiApply(next),
         \/ at = "wifi" /\ next = "proxy"
         \/ at = "field" /\ todo = <<>> /\ next = "restart"
         \/ at = "reset" /\ next = "answer"
  PROVE  Inv'
<1>. USE DEF Inv, WifiApply, stores, pages
<1>1. TypeOK'
  BY DEF TypeOK
<1>2. Handled'
  BY DEF Handled, Left, bounds
<1>3. Erased' /\ Durable'
  BY DEF Erased, Durable, Loaded
<1>4. Saved'
  BY DEF Saved, Left, Loaded
<1>5. Applied'
  BY DEF Applied, Pending
<1>6. Mended' /\ Calm'
  BY DEF Mended, Calm, DriverRefuses, pages, bounds
<1>. QED  BY <1>1, <1>2, <1>3, <1>4, <1>5, <1>6

(* The boot puts what is stored into memory and then into force.            *)
LEMMA BootInv ==
  ASSUME Inv, Boot
  PROVE  Inv'
<1>. USE DEF Inv
<1>1. CASE BootLoad
  <2>. USE <1>1 DEF BootLoad
  <2>1. \A k \in Key : memory'[k] = IF flash[k] = Unset THEN Default[k] ELSE flash[k]
    BY LoadedIs
  <2>2. TypeOK'
    <3>1. \A k \in Key : memory'[k] \in Values[k]
      BY <2>1, DefaultIsValue DEF TypeOK
    <3>2. memory' \in [Key -> AnyValue]
      BY <3>1 DEF Loaded, AnyValue
    <3>. QED  BY <3>1, <3>2 DEF TypeOK, history, pages
  <2>3. Handled'
    BY DEF Handled, Left, history, pages, bounds
  <2>4. Erased' /\ Durable'
    BY DEF Erased, Handled, Durable, Loaded, history, pages
  <2>5. Saved'
    BY DEF Saved, Handled, Left, Loaded, history, pages
  <2>6. Applied' /\ Mended'
    BY DEF Applied, Mended, history, pages
  <2>7. Calm'
    <3>1. CASE crashes = 0 /\ faults = 0 /\ aborted = {}
      <4>1. memory' = Default
        BY <3>1, <2>1, KeyIs DEF Calm, Loaded, Default
      <4>2. memory'.ble_en = "on" /\ memory'.ap_auth = "OPEN"
        BY <4>1 DEF Default
      <4>3. ble_up' = TRUE /\ ~DriverRefuses(memory')
        BY <4>2 DEF DriverRefuses
      <4>. QED  BY <4>3, <3>1 DEF Calm, history, pages, bounds
    <3>. QED  BY <3>1 DEF Calm, history, pages, bounds
  <2>. QED  BY <2>2, <2>3, <2>4, <2>5, <2>6, <2>7
<1>2. CASE BootLoadFails
  <2>. USE <1>2 DEF BootLoadFails, stores, history, pages
  <2>1. TypeOK' /\ Handled'
    BY DEF TypeOK, Handled, Left
  <2>2. Erased' /\ Durable'
    BY DEF Erased, Handled, Durable, Loaded
  <2>3. Saved'
    <3>1. UNCHANGED <<nvs, flash, handle, todo, req, ignored>> /\ at # "erase"
      OBVIOUS
    <3>. QED  BY <3>1 DEF Saved, Left, Loaded
  <2>4. Applied' /\ Mended'
    BY DEF Applied, Mended
  <2>5. Calm'
    BY DEF Calm, Handled
  <2>. QED  BY <2>1, <2>2, <2>3, <2>4, <2>5
<1>3. CASE BootWifi
  BY <1>3, ApplyInv, ApplyAbortsInv DEF BootWifi
<1>4. CASE BootProxy
  <2>. USE <1>4 DEF BootProxy, Shows, stores, bounds
  <2>1. TypeOK' /\ Handled'
    BY DEF TypeOK, Handled, Left
  <2>2. Erased' /\ Durable'
    BY DEF Erased, Durable, Loaded
  <2>3. Saved'
    BY DEF Saved, Left, Loaded
  <2>4. Applied' /\ Mended'
    BY DEF Applied, Pending, Mended
  <2>5. Calm'
    BY DEF Calm, DriverRefuses
  <2>. QED  BY <2>1, <2>2, <2>3, <2>4, <2>5
<1>. QED  BY <1>1, <1>2, <1>3, <1>4 DEF Boot
-----------------------------------------------------------------------------
(* A body of the settings page has fields of its section only, the access   *)
(* point's its switch and its security, and no password that is none.       *)
LEMMA PageFields ==
  ASSUME NEW s \in Section, NEW f \in PageBody(s)
  PROVE  /\ DOMAIN f \subseteq Key
         /\ \A k \in DOMAIN f : f[k] \in Values[k] \union {Bad}
         /\ DOMAIN f \subseteq {PostOrder[s][i] : i \in DOMAIN PostOrder[s]}
         /\ s = "ap" =>
              /\ {"ap_en", "ap_auth"} \subseteq DOMAIN f
              /\ "ap_pass" \in DOMAIN f => f.ap_pass # "none"
              /\ \/ f.ap_auth = "OPEN"
                 \/ memory.ap_pass # "none"
                 \/ "ap_pass" \in DOMAIN f
                 \/ Bare(f)
<1>. USE KeyIs DEF Values, Section
<1>1. Bad \notin Switch \union {"OPEN", "WPA2", "10.10.0.2", "none", "secret", "4242", "4243"}
  BY ConfigAssumption
<1>2. /\ {PostOrder["ap"][i] : i \in DOMAIN PostOrder["ap"]} = {"ap_en", "ap_auth", "ap_ip", "ap_pass"}
      /\ {PostOrder["sta"][i] : i \in DOMAIN PostOrder["sta"]} = {"sta_en"}
      /\ {PostOrder["ble"][i] : i \in DOMAIN PostOrder["ble"]} = {"ble_en"}
      /\ {PostOrder["tcp"][i] : i \in DOMAIN PostOrder["tcp"]} = {"rns_en", "rns_port"}
  BY DEF PostOrder
<1>3. CASE s = "ap"
  <2>1. CASE f \in [ap_en : Switch, ap_auth : Values.ap_auth, ap_ip : Values.ap_ip \union {Bad}]
    BY <1>1, <1>2, <1>3, <2>1 DEF Bare
  <2>2. CASE f \in [ap_en : Switch, ap_auth : Values.ap_auth, ap_ip : Values.ap_ip \union {Bad},
                    ap_pass : {"secret", Bad}]
    BY <1>1, <1>2, <1>3, <2>2
  <2>. QED  BY <1>3, <2>1, <2>2 DEF PageBody
<1>4. CASE s = "sta"
  BY <1>2, <1>4 DEF PageBody
<1>5. CASE s = "ble"
  BY <1>2, <1>5 DEF PageBody
<1>6. CASE s = "tcp"
  BY <1>2, <1>6 DEF PageBody
<1>. QED  BY <1>3, <1>4, <1>5, <1>6

LEMMA PostBeginsInv ==
  ASSUME Inv, NEW s \in Section, NEW f \in PageBody(s), PostBegins(s, f)
  PROVE  Inv'
<1>. USE DEF Inv, PostBegins, Requested, stores, forced, history, pages
<1>1. TypeOK'
  BY DEF TypeOK
<1>2. Handled'
  <2>1. DOMAIN req'.fields \subseteq Left'
    BY PageFields DEF Left
  <2>. QED  BY <2>1, Orders, PageFields DEF Handled
<1>3. Erased' /\ Durable'
  BY DEF Erased, Durable, Loaded
<1>4. Saved'
  <2>1. DOMAIN req'.fields \subseteq Left'
    BY PageFields DEF Left
  <2>. QED  BY <2>1 DEF Saved
<1>5. Applied' /\ Mended'
  BY DEF Applied, Pending, Mended
<1>6. Calm'
  <2>1. s = "ap" => Left' = {"ap_en", "ap_auth", "ap_ip", "ap_pass"}
    BY DEF Left, PostOrder
  <2>2. s = "ap" /\ ~half' => Securing'
    BY <2>1, PageFields DEF Securing
  <2>3. DriverRefuses(memory)' = DriverRefuses(memory)
    BY DEF DriverRefuses
  <2>. QED  BY <2>2, <2>3 DEF Calm
<1>. QED  BY <1>1, <1>2, <1>3, <1>4, <1>5, <1>6

(* The key at the head of what is left, and what is left after it.          *)
LEMMA HeadOfLeft ==
  ASSUME Inv, at \in {"field", "erase"}, todo # <<>>
  PROVE  /\ Head(todo) \in Key
         /\ at = "field" => Tail(todo) \in RestOf(PostOrder[req.section])
         /\ at = "erase" => Tail(todo) \in RestOf(EraseOrder[req.section])
         /\ Left = {Head(todo)} \union {Tail(todo)[i] : i \in DOMAIN Tail(todo)}
<1>1. req.section \in Section
  BY DEF Inv, Handled
<1>2. CASE at = "field"
  <2>1. todo \in RestOf(PostOrder[req.section])
    BY <1>2 DEF Inv, Handled
  <2>. QED  BY <1>1, <1>2, <2>1, Orders, NextKey DEF Left
<1>3. CASE at = "erase"
  <2>1. todo \in RestOf(EraseOrder[req.section])
    BY <1>3 DEF Inv, Handled
  <2>. QED  BY <1>1, <1>3, <2>1, Orders, NextKey DEF Left
<1>. QED  BY <1>2, <1>3

(* The password comes last, and only the access point's section has keys of *)
(* the access point.                                                        *)
LEMMA OrderOfAp ==
  ASSUME Inv, at = "field", todo # <<>>
  PROVE  /\ req.section = "ap" /\ Head(todo) = "ap_pass" => Left = {"ap_pass"}
         /\ req.section # "ap" => Head(todo) \notin {"ap_en", "ap_auth", "ap_ip", "ap_pass"}
<1>. DEFINE o == PostOrder[req.section]
<1>1. req.section \in Section /\ o \in Seq(Key) /\ todo \in RestOf(o)
  BY Orders DEF Inv, Handled
<1>2. PICK n \in 1..Len(o) + 1 : todo = SubSeq(o, n, Len(o))
  BY <1>1 DEF RestOf
<1>3. n \in 1..Len(o) /\ Head(todo) = o[n]
  BY <1>1, <1>2
<1>4. CASE req.section = "ap"
  <2>1. Len(o) = 4 /\ o[1] = "ap_en" /\ o[2] = "ap_auth" /\ o[3] = "ap_ip" /\ o[4] = "ap_pass"
    BY <1>4 DEF PostOrder
  <2>2. Head(todo) = "ap_pass" => n = 4
    BY <1>3, <2>1
  <2>3. n = 4 => DOMAIN todo = {1} /\ todo[1] = "ap_pass"
    BY <1>1, <1>2, <2>1
  <2>. QED  BY <1>4, <2>2, <2>3 DEF Left
<1>5. CASE req.section # "ap"
  <2>1. o \in {<<"sta_en">>, <<"ble_en">>, <<"rns_en", "rns_port">>}
    BY <1>1, <1>5 DEF Section, PostOrder
  <2>. QED  BY <1>3, <1>5, <2>1
<1>. QED  BY <1>4, <1>5

LEMMA SkipFieldInv ==
  ASSUME Inv, SkipField
  PROVE  Inv'
<1>. USE DEF Inv, SkipField, Sent, stores, forced, history, pages, bounds
<1>1. Left \cap DOMAIN req.fields = Left' \cap DOMAIN req.fields
  BY HeadOfLeft DEF Left
<1>2. TypeOK' /\ Handled'
  <2>1. Handled'
    BY <1>1, HeadOfLeft DEF Handled
  <2>. QED  BY <2>1 DEF TypeOK
<1>3. Erased' /\ Durable'
  BY DEF Erased, Durable, Loaded
<1>4. Saved'
  BY <1>1 DEF Saved, Loaded
<1>5. Applied' /\ Mended'
  BY DEF Applied, Pending, Mended
<1>6. Calm'
  <2>1. req.section = "ap" /\ Securing => Securing'
    BY <1>1 DEF Securing, Handled
  <2>2. DriverRefuses(memory)' = DriverRefuses(memory)
    BY DEF DriverRefuses
  <2>. QED  BY <2>1, <2>2 DEF Calm
<1>. QED  BY <1>2, <1>3, <1>4, <1>5, <1>6

(* A field that is refused ends the request; what the fields before it      *)
(* changed is noted, an access point half changed with half.                *)
LEMMA RefuseInv ==
  ASSUME Inv, at = "field", todo # <<>>, Head(todo) \in DOMAIN req.fields, Refuse,
         UNCHANGED <<handle, forced, ignored, aborted, crashes>>,
         TypeOK', Erased', Durable', faults' \in Nat, faults' >= faults,
         \A k \in Key : k = Head(todo) \/ memory'[k] = memory[k],
         \/ handle = "open" => faults' > 0
         \/ req.fields[Head(todo)] = Bad /\ memory' = memory /\ faults' = faults
  PROVE  Inv'
<1>. USE DEF Refuse
<1>1. Handled' /\ Saved'
  BY DEF Inv, Handled, Saved, NoRequest
<1>2. Applied'
  <2>1. Head(todo) \in DOMAIN req.fields
    OBVIOUS
  <2>2. /\ "wifi" \in Applies(DOMAIN req.fields) \/ Part(memory', WifiKey) = Part(memory, WifiKey)
        /\ "proxy" \in Applies(DOMAIN req.fields) \/ Part(memory', ProxyKey) = Part(memory, ProxyKey)
    BY <2>1, KeyIs DEF Applies, Part, WifiKey, ProxyKey
  <2>. QED  BY <2>2 DEF Inv, Applied, Pending, forced
<1>3. Mended'
  BY DEF Mended
<1>4. Calm'
  <2>1. CASE crashes' = 0 /\ faults' = 0 /\ aborted' = {} /\ ~half'
    <3>. crashes = 0 /\ faults = 0 /\ aborted = {} /\ ~half /\ handle \in {"open", "erased"}
      BY <2>1 DEF Inv, Handled, TypeOK, Calm
    <3>1. req.section # "ap"
      BY <2>1, Zenon
    <3>2. handle = "open" => memory' = memory
      BY <2>1
    <3>. QED  BY <3>1, <3>2, <2>1 DEF Inv, Calm, DriverRefuses, forced
  <2>2. CASE half' \/ ~(crashes' = 0 /\ faults' = 0 /\ aborted' = {})
    <3>. crashes' = 0 /\ faults' = 0 => crashes = 0 /\ faults = 0
      BY DEF Inv, Handled
    <3>. QED  BY <2>2 DEF Inv, Calm, forced
  <2>. QED  BY <2>1, <2>2
<1>. QED  BY <1>1, <1>2, <1>3, <1>4 DEF Inv

(* A field is taken: what is saved is what may be found, and what is not    *)
(* saved is found as it was.                                                *)
LEMMA TakenInv ==
  ASSUME Inv, at = "field", todo # <<>>,
         NEW k \in Key, k \in DOMAIN req.fields, NEW v \in Values[k], v = req.fields[k],
         memory' = [memory EXCEPT ![k] = v],
         may' = [may EXCEPT ![k] = @ \union {v}],
         nvs' \in {nvs, [nvs EXCEPT ![k] = v]},
         flash' \in {flash, nvs'},
         \/ UNCHANGED <<fresh, nvs, flash>>
         \/ handle = "open" /\ fresh' = Stored,
         handle' = handle,
         at' \in {"idle", "field"}, ble_up' = ble_up, aborted' = aborted,
         \/ ignored' \in {ignored, ignored \union {k}}
         \/ ignored' = ignored \ {k} /\ nvs'[k] = v /\ flash' = nvs',
         touched' \subseteq {"wifi", "proxy"}, shown' \in BOOLEAN, half' \in BOOLEAN
  PROVE  TypeOK' /\ Erased' /\ Durable'
<1>. USE DEF Inv
<1>1. v \in AnyValue /\ v # Unset
  BY DefaultIsValue DEF AnyValue
<1>2. TypeOK'
  <2>1. memory' \in [Key -> AnyValue] /\ may' \in [Key -> SUBSET AnyValue]
    BY <1>1 DEF TypeOK
  <2>2. {nvs', flash'} \subseteq [Key -> AnyValue \union {Unset}]
    BY <1>1 DEF TypeOK
  <2>3. \A l \in Key : /\ memory'[l] \in Values[l]
                       /\ {nvs'[l], flash'[l]} \subseteq Values[l] \union {Unset}
                       /\ may'[l] \subseteq Values[l]
    BY DEF TypeOK
  <2>4. fresh' \in {"no", "due", "yes"}
    BY DEF TypeOK, Stored
  <2>. QED  BY <2>1, <2>2, <2>3, <2>4 DEF TypeOK
<1>3. Erased'
  <2>1. CASE handle = "open"
    BY <2>1 DEF Erased, Stored, TypeOK
  <2>2. CASE handle # "open"
    BY <2>2 DEF Erased
  <2>. QED  BY <2>1, <2>2
<1>4. Durable'
  <2>1. ASSUME NEW l \in Key \ ignored'
        PROVE  {Loaded(flash')[l], Loaded(nvs')[l]} \subseteq may'[l]
    <3>1. CASE l = k
      <4>1. v \in may'[k] /\ may[k] \subseteq may'[k]
        BY DEF TypeOK
      <4>2. nvs'[k] \in {nvs[k], v} /\ flash'[k] \in {flash[k], nvs'[k]}
        BY DEF TypeOK
      <4>. QED  BY <1>1, <2>1, <3>1, <4>1, <4>2, LoadedIs DEF Durable
    <3>2. CASE l # k
      <4>1. nvs'[l] = nvs[l] /\ flash'[l] \in {flash[l], nvs[l]} /\ may'[l] = may[l]
        BY <3>2 DEF TypeOK
      <4>. QED  BY <2>1, <3>2, <4>1, LoadedIs DEF Durable
    <3>. QED  BY <3>1, <3>2
  <2>. QED  BY <2>1 DEF Durable
<1>. QED  BY <1>2, <1>3, <1>4

LEMMA PostFieldInv ==
  ASSUME Inv, PostField
  PROVE  Inv'
<1>. DEFINE k == Head(todo)
            v == req.fields[k]
            rest == {Tail(todo)[i] : i \in DOMAIN Tail(todo)}
<1>1. /\ at = "field" /\ todo # <<>> /\ k \in DOMAIN req.fields
      /\ UNCHANGED <<forced, aborted, requests, crashes>>
  BY DEF PostField, Sent
<1>2. /\ k \in Key /\ Left = {k} \union rest
      /\ Tail(todo) \in RestOf(PostOrder[req.section])
  BY <1>1, HeadOfLeft
<1>3. v \in Values[k] \union {Bad}
  BY <1>1, <1>2 DEF Inv, Handled
<1>4. CASE v = Bad
  <2>1. Refuse /\ UNCHANGED <<stores, may, ignored, fresh, faults>>
    BY <1>4 DEF PostField
  <2>2. TypeOK' /\ Erased' /\ Durable' /\ faults' \in Nat /\ faults' >= faults
    <3>1. TypeOK'
      BY <1>1, <2>1 DEF Inv, TypeOK, Refuse, Shows, Applies, stores, forced
    <3>2. Erased'
      BY <2>1 DEF Inv, Erased, Refuse, stores
    <3>3. Durable' /\ faults' \in Nat /\ faults' >= faults
      BY <2>1 DEF Inv, Durable, Handled, Loaded, stores
    <3>. QED  BY <3>1, <3>2, <3>3
  <2>. QED  BY <1>1, <1>4, <2>1, <2>2, RefuseInv DEF stores
<1>5. CASE v # Bad
  <2>. DEFINE SaveCase == /\ Save(k, v) /\ todo' = Tail(todo) /\ ignored' = ignored \ {k}
                          /\ fresh' = Stored /\ UNCHANGED <<at, req, touched, pages>>
              FailCase == /\ SaveFails(k, v)
                          /\ fresh' = IF nvs' = nvs THEN fresh ELSE Stored
              LostCase == /\ ignored' = ignored \union {k} /\ todo' = Tail(todo)
                          /\ UNCHANGED <<at, req, touched, pages>>
  <2>1. /\ v \in Values[k] /\ memory' = [memory EXCEPT ![k] = v]
        /\ may' = [may EXCEPT ![k] = @ \union {v}]
    BY <1>3, <1>5 DEF PostField
  <2>2. \/ SaveCase
        \/ FailCase /\ Refuse /\ UNCHANGED ignored
        \/ FailCase /\ LostCase
    BY <1>5 DEF PostField
  <2>3. TypeOK' /\ Erased' /\ Durable'
    <3>1. touched' \subseteq {"wifi", "proxy"} /\ at' \in {"idle", "field"}
      BY <1>1, <2>2 DEF Refuse, Applies, Inv, TypeOK
    <3>4. shown' \in BOOLEAN /\ half' \in BOOLEAN
      BY <2>2 DEF Refuse, Shows, Inv, TypeOK, pages
    <3>2. CASE SaveCase
      <4>1. nvs'[k] = v
        BY <1>2, <3>2 DEF Save, Inv, TypeOK
      <4>. QED  BY <1>1, <1>2, <2>1, <3>1, <3>2, <3>4, <4>1, TakenInv DEF Save, forced
    <3>3. CASE FailCase /\ ignored' \in {ignored, ignored \union {k}}
      <4>1. \/ UNCHANGED <<fresh, nvs, flash>>
            \/ handle = "open" /\ fresh' = Stored
        BY <3>3 DEF SaveFails
      <4>2. handle' = handle /\ nvs' \in {nvs, [nvs EXCEPT ![k] = v]} /\ flash' = flash
        BY <3>3 DEF SaveFails
      <4>. HIDE DEF k, v
      <4>. QED  BY <1>1, <1>2, <2>1, <3>1, <3>3, <3>4, <4>1, <4>2, TakenInv DEF forced, v
    <3>. QED  BY <2>2, <3>2, <3>3
  <2>4. CASE Refuse
    <3>1. FailCase /\ UNCHANGED ignored
      BY <1>1, <2>2, <2>4 DEF Refuse
    <3>2. handle' = handle /\ faults' \in Nat /\ faults' >= faults /\ (handle = "open" => faults' > 0)
      BY <3>1 DEF SaveFails, Inv, Handled
    <3>3. \A l \in Key : l = k \/ memory'[l] = memory[l]
      BY <2>1 DEF Inv, TypeOK
    <3>. QED  BY <1>1, <1>2, <2>3, <2>4, <3>1, <3>2, <3>3, RefuseInv
  <2>5. CASE ~Refuse
    <3>1. /\ UNCHANGED <<at, req, touched, handle, half>> /\ todo' = Tail(todo) /\ Left' = rest
          /\ \/ SaveCase
             \/ FailCase /\ LostCase
      BY <2>2, <2>5 DEF Save, SaveFails, Left, pages
    <3>2. Handled'
      <4>1. crashes' \in Nat /\ faults' \in Nat
        BY <1>1, <3>1 DEF Save, SaveFails, Inv, Handled
      <4>2. \A l \in DOMAIN req.fields \ Left' : req.fields[l] # Bad
        BY <1>2, <1>5, <3>1 DEF Inv, Handled
      <4>. HIDE DEF k, v
      <4>. QED  BY <1>1, <1>2, <3>1, <4>1, <4>2 DEF Inv, Handled
    <3>3. Saved'
      <4>1. ASSUME handle # "erased", NEW l \in DOMAIN req.fields \ (ignored' \union rest)
            PROVE  Loaded(nvs')[l] = req.fields[l] /\ Loaded(flash')[l] = req.fields[l]
        <5>. l \in Key
          BY DEF Inv, Handled
        <5>1. CASE l = k
          <6>1. SaveCase
            BY <3>1, <4>1, <5>1
          <6>2. nvs'[k] = v /\ flash'[k] = v /\ v # Unset
            BY <1>2, <2>1, <6>1, DefaultIsValue DEF Save, Inv, TypeOK
          <6>. QED  BY <5>1, <6>2, LoadedIs
        <5>2. CASE l # k
          <6>1. l \in DOMAIN req.fields \ (ignored \union Left)
            BY <1>2, <3>1, <4>1, <5>2
          <6>2. Loaded(nvs)[l] = req.fields[l] /\ Loaded(flash)[l] = req.fields[l]
            BY <1>1, <4>1, <6>1 DEF Inv, Saved
          <6>3. nvs'[l] = nvs[l] /\ flash'[l] \in {flash[l], nvs[l]}
            BY <3>1, <5>2 DEF Save, SaveFails, Inv, TypeOK
          <6>. QED  BY <6>2, <6>3, LoadedIs
        <5>. QED  BY <5>1, <5>2
      <4>. QED  BY <3>1, <4>1 DEF Saved
    <3>4. Applied'
      <4>1. \A l \in Key : l = k \/ memory'[l] = memory[l]
        BY <2>1 DEF Inv, TypeOK
      <4>2. /\ "wifi" \in Applies(DOMAIN req.fields) \/ Part(memory', WifiKey) = Part(memory, WifiKey)
            /\ "proxy" \in Applies(DOMAIN req.fields) \/ Part(memory', ProxyKey) = Part(memory, ProxyKey)
        BY <1>1, <4>1, KeyIs DEF Applies, Part, WifiKey, ProxyKey
      <4>. QED  BY <1>1, <3>1, <4>2 DEF Inv, Applied, Pending, forced
    <3>5. Mended'
      BY <1>1, <3>1 DEF Mended
    <3>6. Calm'
      <4>1. CASE crashes' = 0 /\ faults' = 0 /\ aborted' = {} /\ ~half'
        <5>. crashes = 0 /\ faults = 0 /\ aborted = {} /\ ~half
          BY <1>1, <3>1, <4>1 DEF Save, SaveFails, Inv, Handled
        <5>1. CASE req.section = "ap" /\ handle # "erased"
          <6>1. Securing
            BY <1>1, <5>1 DEF Inv, Calm
          <6>2. memory'[k] = v /\ \A l \in Key : l = k \/ memory'[l] = memory[l]
            BY <1>2, <2>1 DEF Inv, TypeOK
          <6>3. {"ap_auth", "ap_pass"} \subseteq Key
            BY KeyIs
          <6>4. Securing'
            <7>1. "ap_auth" \notin rest => memory'.ap_auth = req.fields.ap_auth
              BY <1>2, <6>1, <6>2, <6>3 DEF Securing
            <7>2. \/ req.fields.ap_auth = "OPEN"
                  \/ memory'.ap_pass # "none"
                  \/ "ap_pass" \in DOMAIN req.fields \cap rest
              BY <1>1, <1>2, <6>1, <6>2, <6>3 DEF Securing
            <7>. QED  BY <3>1, <6>1, <7>1, <7>2 DEF Securing
          <6>. QED  BY <1>1, <3>1, <5>1, <6>4 DEF Inv, Calm, forced
        <5>2. CASE req.section # "ap"
          <6>1. DriverRefuses(memory') = DriverRefuses(memory)
            BY <1>1, <2>1, <5>2, OrderOfAp, KeyIs DEF DriverRefuses, Inv, TypeOK
          <6>. QED  BY <1>1, <3>1, <5>2, <6>1 DEF Inv, Calm, forced
        <5>3. CASE handle = "erased"
          BY <1>1, <3>1, <5>3 DEF Inv, Calm, forced
        <5>. QED  BY <5>1, <5>2, <5>3
      <4>2. CASE half' \/ ~(crashes' = 0 /\ faults' = 0 /\ aborted' = {})
        <5>. crashes' = 0 /\ faults' = 0 => crashes = 0 /\ faults = 0
          BY <1>1, <3>1 DEF Save, SaveFails, Inv, Handled
        <5>. QED  BY <1>1, <3>1, <4>2 DEF Inv, Calm, forced
      <4>. QED  BY <4>1, <4>2
    <3>. QED  BY <2>3, <3>2, <3>3, <3>4, <3>5, <3>6 DEF Inv
  <2>. QED  BY <2>4, <2>5
<1>. QED  BY <1>4, <1>5

LEMMA PostAppliesInv ==
  ASSUME Inv, PostApplies
  PROVE  Inv'
<1>1. CASE "wifi" \in Applies(DOMAIN req.fields)
  BY <1>1, ApplyInv, ApplyAbortsInv DEF PostApplies
<1>2. CASE "wifi" \notin Applies(DOMAIN req.fields)
  <2>. USE <1>2 DEF PostApplies, stores, forced, history, pages, bounds, Inv
  <2>1. TypeOK' /\ Handled'
    <3>1. TypeOK'
      BY DEF TypeOK
    <3>2. Handled'
      BY DEF Handled, Left
    <3>. QED  BY <3>1, <3>2
  <2>2. Erased' /\ Durable'
    BY DEF Erased, Durable, Loaded
  <2>3. Saved'
    BY DEF Saved, Left, Loaded
  <2>4. Applied' /\ Mended'
    BY DEF Applied, Pending, Mended, Applies, WifiKey, Handled
  <2>5. Calm'
    <3>1. req.section # "ap"
      BY DEF Applies, WifiKey, Handled
    <3>. QED  BY <3>1 DEF Calm, DriverRefuses
  <2>. QED  BY <2>1, <2>2, <2>3, <2>4, <2>5
<1>. QED  BY <1>1, <1>2

LEMMA PostRestartsInv ==
  ASSUME Inv, PostRestarts
  PROVE  Inv'
<1>. USE DEF PostRestarts, stores, pages, bounds, Inv
<1>1. touched' \subseteq touched /\ todo' = todo
  OBVIOUS
<1>2. TypeOK' /\ Handled'
  <2>1. TypeOK'
    BY <1>1 DEF TypeOK
  <2>2. Handled'
    BY <1>1 DEF Handled, Left
  <2>. QED  BY <2>1, <2>2
<1>3. Erased' /\ Durable'
  BY DEF Erased, Durable, Loaded
<1>4. Saved'
  BY DEF Saved, Left, Loaded
<1>5. Applied' /\ Mended'
  BY DEF Applied, Pending, Mended, DriverRefuses
<1>6. Calm'
  BY DEF Calm, DriverRefuses
<1>. QED  BY <1>2, <1>3, <1>4, <1>5, <1>6

(* What a 200 answers for is what is saved by then.                         *)
LEMMA AnswerInv ==
  ASSUME Inv, Answer
  PROVE  Inv'
<1>. USE DEF Answer, Shows, stores, forced, bounds, Inv
<1>1. TypeOK' /\ Handled'
  <2>1. Left = {}
    BY DEF Handled, Left
  <2>2. \A k \in Key : may'[k] \subseteq Values[k]
    BY <2>1 DEF TypeOK, Handled
  <2>3. may' \in [Key -> SUBSET AnyValue]
    BY <2>2 DEF AnyValue
  <2>. QED  BY <2>2, <2>3 DEF TypeOK, Handled, NoRequest
<1>2. Erased'
  BY DEF Erased
<1>3. Durable'
  <2>1. Left = {} /\ at # "erase"
    BY DEF Handled, Left
  <2>2. ASSUME NEW k \in Key \ ignored
        PROVE  {Loaded(flash)[k], Loaded(nvs)[k]} \subseteq may'[k]
    <3>1. CASE k \in DOMAIN req.fields /\ handle # "erased"
      BY <2>1, <3>1 DEF Saved
    <3>2. CASE ~(k \in DOMAIN req.fields /\ handle # "erased")
      BY <3>2 DEF Durable
    <3>. QED  BY <3>1, <3>2
  <2>. QED  BY <2>2 DEF Durable, Loaded
<1>4. Saved'
  BY DEF Saved, NoRequest
<1>5. Applied' /\ Mended'
  BY DEF Applied, Pending, Mended
<1>6. Calm'
  BY DEF Calm, Mended, DriverRefuses
<1>. QED  BY <1>1, <1>2, <1>3, <1>4, <1>5, <1>6
-----------------------------------------------------------------------------
LEMMA ResetBeginsInv ==
  ASSUME Inv, NEW s \in Section, ResetBegins(s)
  PROVE  Inv'
<1>. USE DEF Inv, ResetBegins, Requested, stores, forced, history, pages
<1>1. /\ DOMAIN req'.fields = {EraseOrder[s][i] : i \in DOMAIN EraseOrder[s]}
      /\ \A k \in DOMAIN req'.fields : req'.fields[k] = Default[k]
  BY DEF Part
<1>2. DOMAIN req'.fields \subseteq Key /\ Left' = DOMAIN req'.fields
  <2>1. Left' = {EraseOrder[s][i] : i \in DOMAIN EraseOrder[s]}
    BY DEF Left
  <2>. QED  BY <1>1, <2>1, KeysErased
<1>3. TypeOK'
  BY DEF TypeOK
<1>4. Handled'
  <2>1. s = "ap" => {"ap_en", "ap_auth"} \subseteq DOMAIN req'.fields
    BY <1>1, KeysErased
  <2>2. \A k \in DOMAIN req'.fields : req'.fields[k] \in Values[k] \union {Bad}
    BY <1>1, <1>2, DefaultIsValue
  <2>3. /\ req'.section = s /\ at' = "erase" /\ todo' = EraseOrder[s] /\ todo' \in RestOf(EraseOrder[s])
        /\ {crashes', faults'} \subseteq Nat
    BY Orders DEF Handled
  <2>4. /\ \A k \in DOMAIN req'.fields \ Left' : req'.fields[k] # Bad
        /\ req'.section = "ap" => {"ap_en", "ap_auth"} \subseteq DOMAIN req'.fields
        /\ DOMAIN req'.fields = {EraseOrder[req'.section][i] : i \in DOMAIN EraseOrder[req'.section]}
    BY <1>1, <1>2, <2>1, <2>3
  <2>. HIDE DEF Inv, ResetBegins
  <2>. QED  BY <1>1, <1>2, <2>2, <2>3, <2>4 DEF Handled
<1>5. Erased' /\ Durable'
  BY DEF Erased, Durable, Loaded
<1>6. Saved'
  BY <1>2 DEF Saved
<1>7. Applied' /\ Mended'
  BY DEF Applied, Pending, Mended
<1>8. Calm'
  BY DEF Calm, DriverRefuses
<1>. QED  BY <1>3, <1>4, <1>5, <1>6, <1>7, <1>8

(* An erased key is found with its default, and so is one whose erasing     *)
(* failed once that is noted.                                               *)
LEMMA EraseKeyInv ==
  ASSUME Inv, EraseKey
  PROVE  Inv'
<1>. USE DEF Inv, forced, pages
<1>. DEFINE k == Head(todo)
<1>1. /\ k \in Key /\ Left = {k} \union Left'
      /\ todo' \in RestOf(EraseOrder[req.section])
  BY HeadOfLeft DEF EraseKey, Left
<1>2. /\ at = "erase"
      /\ UNCHANGED <<memory, flash, handle, at, req, forced, touched, fresh, aborted, pages, crashes>>
      /\ faults' \in Nat /\ faults' >= faults
      /\ may' = [may EXCEPT ![k] = @ \union {Default[k]}]
      /\ \/ nvs' = [nvs EXCEPT ![k] = Unset] /\ ignored' = ignored /\ handle = "open"
         \/ nvs' = nvs /\ ignored' = ignored \union {k}
  BY DEF EraseKey, Handled
<1>. HIDE DEF k
<1>3. TypeOK'
  <2>1. nvs' \in [Key -> AnyValue \union {Unset}]
    BY <1>1, <1>2 DEF TypeOK
  <2>2. may' \in [Key -> SUBSET AnyValue] /\ \A l \in Key : may'[l] \subseteq Values[l]
    BY <1>1, <1>2, DefaultIsValue DEF TypeOK, AnyValue
  <2>. QED  BY <1>1, <1>2, <2>1, <2>2 DEF TypeOK
<1>4. Handled'
  BY <1>1, <1>2, DefaultIsValue DEF Handled
<1>5. Erased'
  BY <1>1, <1>2 DEF Erased, TypeOK
<1>6. \A l \in Key : l = k \/ (nvs'[l] = nvs[l] /\ may'[l] = may[l])
  BY <1>1, <1>2 DEF TypeOK
<1>7. Durable'
  <2>1. ASSUME NEW l \in Key \ ignored'
        PROVE  {Loaded(flash)[l], Loaded(nvs')[l]} \subseteq may'[l]
    <3>1. CASE l = k
      <4>1. nvs'[k] = Unset /\ Default[k] \in may'[k] /\ may[k] \subseteq may'[k] /\ k \notin ignored
        BY <1>1, <1>2, <2>1, <3>1 DEF TypeOK
      <4>. QED  BY <3>1, <4>1, LoadedIs DEF Durable
    <3>2. CASE l # k
      BY <1>2, <1>6, <2>1, <3>2, LoadedIs DEF Durable
    <3>. QED  BY <3>1, <3>2
  <2>. QED  BY <1>2, <2>1 DEF Durable
<1>8. Saved'
  <2>1. ASSUME handle # "erased", NEW l \in DOMAIN req.fields \ (ignored' \union Left')
        PROVE  Loaded(nvs')[l] = req.fields[l]
    <3>. l \in Key /\ req.fields[l] = Default[l]
      BY <1>2 DEF Handled
    <3>1. CASE l = k
      <4>1. nvs'[k] = Unset
        BY <1>1, <1>2, <2>1, <3>1 DEF TypeOK
      <4>. QED  BY <3>1, <4>1, LoadedIs
    <3>2. CASE l # k
      BY <1>1, <1>2, <1>6, <2>1, <3>2, LoadedIs DEF Saved
    <3>. QED  BY <3>1, <3>2
  <2>. QED  BY <1>2, <2>1 DEF Saved
<1>9. Applied' /\ Mended'
  BY <1>2 DEF Applied, Pending, Mended
<1>10. Calm'
  BY <1>2 DEF Calm, DriverRefuses, Handled
<1>. QED  BY <1>3, <1>4, <1>5, <1>7, <1>8, <1>9, <1>10

(* The defaults of a section go into memory; what still runs with the old   *)
(* values is noted.                                                         *)
LEMMA ResetDefaultsInv ==
  ASSUME Inv, ResetDefaults
  PROVE  Inv'
<1>. USE DEF Inv, forced, pages
<1>1. /\ at = "erase" /\ todo = <<>> /\ at' = "reset"
      /\ memory' = [k \in Key |-> IF k \in DOMAIN req.fields THEN Default[k] ELSE memory[k]]
      /\ touched' = touched \union Applies(DOMAIN req.fields)
      /\ UNCHANGED <<nvs, handle, todo, req, forced, may, fresh, aborted, pages, crashes>>
      /\ faults' \in Nat /\ faults' >= faults
      /\ \/ flash' = nvs /\ ignored' = ignored
         \/ flash' = flash /\ ignored' = ignored \union DOMAIN req.fields
  BY DEF ResetDefaults, Handled
<1>2. Left = {} /\ Left' = {}
  BY <1>1 DEF Left
<1>3. TypeOK'
  <2>1. memory' \in [Key -> AnyValue] /\ \A k \in Key : memory'[k] \in Values[k]
    BY <1>1, DefaultIsValue DEF TypeOK, AnyValue
  <2>2. flash' \in [Key -> AnyValue \union {Unset}] /\ \A k \in Key : flash'[k] \in Values[k] \union {Unset}
    BY <1>1 DEF TypeOK
  <2>3. touched' \subseteq {"wifi", "proxy"} /\ ignored' \subseteq Key
    BY <1>1 DEF TypeOK, Handled, Applies
  <2>. QED  BY <1>1, <2>1, <2>2, <2>3 DEF TypeOK
<1>4. Handled'
  BY <1>1, <1>2 DEF Handled
<1>5. Erased'
  BY <1>1 DEF Erased
<1>6. Durable'
  BY <1>1, LoadedIs DEF Durable
<1>7. Saved'
  BY <1>1, <1>2 DEF Saved
<1>8. Applied'
  <2>1. /\ "wifi" \in Applies(DOMAIN req.fields) \/ Part(memory', WifiKey) = Part(memory, WifiKey)
        /\ "proxy" \in Applies(DOMAIN req.fields) \/ Part(memory', ProxyKey) = Part(memory, ProxyKey)
    BY <1>1, KeyIs DEF Applies, Part, WifiKey, ProxyKey
  <2>. QED  BY <1>1, <2>1 DEF Applied, Pending
<1>9. Calm' /\ Mended'
  <2>1. (req.section = "ap" \/ ~DriverRefuses(memory)) => ~DriverRefuses(memory')
    <3>1. req.section \in Section /\ DOMAIN req.fields = {EraseOrder[req.section][i] : i \in DOMAIN EraseOrder[req.section]}
      BY <1>1 DEF Handled
    <3>2. CASE req.section = "ap"
      <4>1. "ap_auth" \in DOMAIN req.fields
        BY <3>1, <3>2, KeysErased
      <4>2. memory'.ap_auth = "OPEN"
        BY <1>1, <4>1, KeyIs DEF Default
      <4>. QED  BY <4>2 DEF DriverRefuses
    <3>3. CASE req.section # "ap"
      <4>1. {"ap_en", "ap_auth", "ap_ip", "ap_pass"} \cap DOMAIN req.fields = {}
        BY <3>1, <3>3, KeysErased
      <4>2. \A l \in {"ap_en", "ap_auth", "ap_pass"} : memory'[l] = memory[l]
        BY <1>1, <4>1, KeyIs
      <4>. QED  BY <3>3, <4>2 DEF DriverRefuses
    <3>. QED  BY <3>2, <3>3
  <2>2. Mended'
    BY <1>1, <2>1 DEF Mended
  <2>. QED  BY <1>1, <2>1, <2>2 DEF Calm, Handled
<1>. QED  BY <1>3, <1>4, <1>5, <1>6, <1>7, <1>8, <1>9

LEMMA ResetAppliesInv ==
  ASSUME Inv, ResetApplies
  PROVE  Inv'
<1>1. CASE WifiApply("answer") \/ WifiApplyAborts
  BY <1>1, ApplyInv, ApplyAbortsInv DEF ResetApplies
<1>2. CASE at' = "answer" /\ UNCHANGED <<stores, todo, req, forced, history, bounds>>
  <2>. USE <1>2 DEF ResetApplies, stores, forced, history, pages, bounds, Inv
  <2>1. TypeOK' /\ Handled'
    BY DEF TypeOK, Handled, Left
  <2>2. Erased' /\ Durable'
    BY DEF Erased, Durable, Loaded
  <2>3. Saved'
    BY DEF Saved, Left, Loaded
  <2>4. Applied' /\ Mended' /\ Calm'
    BY DEF Applied, Pending, Mended, Calm, DriverRefuses
  <2>. QED  BY <2>1, <2>2, <2>3, <2>4
<1>. QED  BY <1>1, <1>2 DEF ResetApplies

(* After the flash was erased nothing but the defaults can be found.        *)
LEMMA FactoryEraseInv ==
  ASSUME Inv, FactoryErase
  PROVE  Inv'
<1>. USE DEF FactoryErase, server, forced, pages, bounds, Inv
<1>1. TypeOK'
  BY DefaultIsValue DEF TypeOK, AnyValue
<1>2. Handled' /\ Saved'
  BY DEF Handled, Left, Saved
<1>3. Erased'
  BY DEF Erased
<1>4. Durable'
  BY LoadedIs DEF Durable
<1>5. Applied' /\ Mended'
  BY DEF Applied, Pending, Mended, DriverRefuses
<1>6. Calm'
  BY DEF Calm
<1>. QED  BY <1>1, <1>2, <1>3, <1>4, <1>5, <1>6

LEMMA Invariance == Spec => []Inv
<1>1. Inv /\ [Next]_vars => Inv'
  <2>. SUFFICES ASSUME Inv, [Next]_vars PROVE Inv'
    OBVIOUS
  <2>1. CASE Boot
    BY <2>1, BootInv
  <2>2. CASE Post
    BY <2>2, SkipFieldInv, PostFieldInv, PostAppliesInv, PostRestartsInv, AnswerInv DEF Post
  <2>3. CASE Reset
    BY <2>3, EraseKeyInv, ResetDefaultsInv, ResetAppliesInv DEF Reset
  <2>4. CASE \E s \in Section : ResetBegins(s) \/ \E f \in PageBody(s) : PostBegins(s, f)
    BY <2>4, ResetBeginsInv, PostBeginsInv
  <2>5. CASE FactoryErase \/ FactoryRestart \/ UsesBle \/ PowerLoss
    BY <2>5, FactoryEraseInv, FactoryRestartInv, UsesBleInv, PowerLossInv
  <2>6. CASE UNCHANGED vars
    <3>. USE <2>6 DEF vars, stores, server, forced, history, pages, bounds, Inv
    <3>1. TypeOK' /\ Handled'
      BY DEF TypeOK, Handled, Left
    <3>2. Erased' /\ Durable' /\ Saved'
      BY DEF Erased, Durable, Saved, Left, Loaded
    <3>3. Applied' /\ Mended' /\ Calm'
      BY DEF Applied, Pending, Mended, Calm, Securing, Left, DriverRefuses
    <3>. QED  BY <3>1, <3>2, <3>3
  <2>. QED  BY <2>1, <2>2, <2>3, <2>4, <2>5, <2>6 DEF Next
<1>. QED  BY <1>1, InitInv, PTL DEF Spec
-----------------------------------------------------------------------------
(* Settings are durable: whatever is lost or fails, and when, a restart     *)
(* finds each key with the value last answered for or with one asked for    *)
(* since, unless its saving failed in a setter whose error the handlers do  *)
(* not look at (thalow_config.c, the save functions and the reset).         *)
THEOREM SettingsAreDurable == Spec => []Durable
<1>1. Inv => Durable
  BY DEF Inv
<1>. QED  BY <1>1, Invariance, PTL

(* Settings are in force: between two requests the radio and the listener   *)
(* run with what the pages show, but for what a refused POST or a reset     *)
(* left (web_proxy.c, handle_thalow_cfg_post and handle_thalow_reset).      *)
THEOREM SettingsAreInForce == Spec => []InForce
<1>1. Inv => InForce
  BY DEF Inv, Applied, Pending, InForce
<1>. QED  BY <1>1, Invariance, PTL

(* A factory reset leaves nothing behind, whatever the web server was       *)
(* saving (system.c, the button task; thalow_config.c).                     *)
THEOREM FactoryResetIsTotal == Spec => []FactoryResetTotal
<1>1. Inv => FactoryResetTotal
  BY DEF Inv, Erased, FactoryResetTotal
<1>. QED  BY <1>1, Invariance, PTL

(* ESP_ERROR_CHECK in configure_ap needs an accident: whatever requests of  *)
(* the settings page, presses of the button and restarts come, the driver   *)
(* refuses the access point for the first time only after a loss of power,  *)
(* a failing NVS call, another abort, or a POST of the access point that    *)
(* was refused or left out a password that is not there, and was not mended *)
(* since by an answered POST or a reset of the section (wifi.c,             *)
(* configure_ap; web_proxy.c, handle_thalow_cfg_post).                      *)
THEOREM AbortsNeedAnAccident == Spec => AbortNeedsAccident
<1>1. ASSUME Inv, WifiApplyAborts, FirstAbort, at # "load", at = "field" => todo = <<>>
      PROVE  half \/ crashes > 0 \/ faults > 0
  <2>1. SUFFICES ASSUME ~half, crashes = 0, faults = 0
                 PROVE  FALSE
    BY <1>1 DEF Inv, Handled
  <2>2. DriverRefuses(memory) /\ aborted = {} /\ handle # "erased"
    BY <1>1 DEF WifiApplyAborts, Aborts, FirstAbort
  <2>3. at = "field" /\ req.section = "ap" /\ Securing
    BY <1>1, <2>1, <2>2 DEF Inv, Calm
  <2>4. Left = {}
    BY <1>1, <2>3 DEF Left
  <2>. QED  BY <2>2, <2>3, <2>4 DEF Securing, DriverRefuses
<1>2. ASSUME Inv, Next, FirstAbort
      PROVE  half \/ crashes > 0 \/ faults > 0
  <2>1. WifiApplyAborts /\ at # "load" /\ (at = "field" => todo = <<>>)
    <3>1. aborted' # aborted /\ aborted' \ aborted = {"wifi_config"}
      BY <1>2 DEF FirstAbort
    <3>. QED  BY <1>2, <3>1 DEF Next, Boot, BootLoad, BootLoadFails, BootWifi, BootProxy, WifiApply, Post,
                 SkipField, PostField, PostApplies, PostRestarts, Answer, Reset, EraseKey, ResetDefaults,
                 ResetApplies, ResetBegins, PostBegins, FactoryErase, FactoryRestart, UsesBle, PowerLoss,
                 Aborts, history
  <2>. QED  BY <1>1, <1>2, <2>1
<1>3. Inv /\ [Next]_vars => [FirstAbort => half \/ crashes > 0 \/ faults > 0]_vars
  BY <1>2
<1>. QED  BY <1>3, Invariance, PTL DEF Spec, AbortNeedsAccident

(* Every setting keeps to its values, in memory, in flash and in what may   *)
(* be found: a refused value is never taken (thalow_config.c, the setters). *)
THEOREM SettingsAreTyped == Spec => []TypeOK
<1>1. Inv => TypeOK
  BY DEF Inv
<1>. QED  BY <1>1, Invariance, PTL
=============================================================================
