---------------------------- MODULE CaptivePortal ---------------------------
(***************************************************************************)
(* The captive portal (captive_portal.c and the start of handle_proxy in   *)
(* web_proxy.c): every name is resolved to the access point's address, and *)
(* a request for another host is sent on to the setup page, while the      *)
(* addresses of the device change.  A browser is joined to the access      *)
(* point, or on the network the station is joined to; besides, anyone may  *)
(* send the DNS task a message.                                            *)
(* Handlers change the access point in the task that serves requests, and  *)
(* lwIP drops a connection whose address goes, so a request is served in   *)
(* one step.                                                               *)
(***************************************************************************)
EXTENDS Naturals, Sequences, FiniteSetsExt

CONSTANTS
  ApAddr, WIFI_AP_IP, StaAddr, NoAddr,
  hostname,            (* the mDNS name                                     *)
  RouterName,          (* what the station's network calls the device       *)
  ProbeHost, OtherHost, (* in and not in PROBE_HOSTS                        *)
  NoHost,              (* a request without a Host header                   *)
  POINTER,             (* a length byte from here on is a pointer           *)
  MaxName,             (* bound: bytes of the name in a question           *)
  RESP_ROOM,           (* bytes of resp for the question                    *)
  MaxChanges           (* bound: changes of address                         *)

PortalAssumption ==
  /\ WIFI_AP_IP \in ApAddr /\ ApAddr \intersect StaAddr = {}
  /\ NoAddr \notin ApAddr \union StaAddr
  /\ {hostname, RouterName, ProbeHost, OtherHost, NoHost} \intersect (ApAddr \union StaAddr) = {}
  /\ {hostname, NoHost} \intersect {ProbeHost, OtherHost} = {}
  /\ {POINTER, MaxName, RESP_ROOM, MaxChanges} \subseteq Nat /\ POINTER # 0

VARIABLES
  ap_enabled, ap_ip,   (* the setting, the address of the access point      *)
  sta_ip,              (* the station's address, or NoAddr                  *)
  changes,             (* bound: changes so far                             *)
  side,                (* where the browser is: ap, lan                     *)
  browsing,            (* idle, resolve, connect, done, lost; stranger      *)
  asked, url,          (* what the user asked for, and the browser now      *)
  peer,                (* the address url.host was resolved to              *)
  reply,               (* the last answer: none, page, refresh, found       *)
  hops,                (* history: URLs the browser was sent on to          *)
  dns                  (* history: the message of a stranger, its answer    *)

network == <<ap_enabled, ap_ip, sta_ip, changes>>
browser == <<side, browsing, asked, url, peer, reply, hops>>
vars == <<network, browser, dns>>

Host == ApAddr \union StaAddr
        \union {hostname, RouterName, ProbeHost, OtherHost, NoHost}
Url == [host : Host, path : {"probe", "landing", "other"}]

NoMessage == [query |-> <<>>, answer |-> <<>>]

Init ==
  /\ ap_enabled \in BOOLEAN /\ ap_ip \in {WIFI_AP_IP, NoAddr}
  /\ ap_enabled => ap_ip # NoAddr
  /\ sta_ip = NoAddr /\ changes = 0
  /\ side \in {"ap", "lan"} /\ browsing = "idle"
  /\ asked = [host |-> NoHost, path |-> "other"] /\ url = asked
  /\ peer = NoAddr /\ reply = "none" /\ hops = 0
  /\ dns = NoMessage
-----------------------------------------------------------------------------
(* The network.                                                             *)

Changes ==
  /\ browsing # "stranger"
  /\ changes < MaxChanges /\ changes' = changes + 1

\* The address outlives an access point that is switched off.
ApChanges ==
  /\ Changes
  /\ \/ ap_enabled' = TRUE /\ ap_ip' \in ApAddr
     \/ ap_enabled' = FALSE /\ UNCHANGED ap_ip
  /\ UNCHANGED <<sta_ip, browser, dns>>

StaChanges ==
  /\ Changes
  /\ sta_ip' \in StaAddr \union {NoAddr}
  /\ UNCHANGED <<ap_enabled, ap_ip, browser, dns>>

Own == (IF ap_ip = NoAddr THEN {} ELSE {ap_ip})
       \union (IF sta_ip = NoAddr THEN {} ELSE {sta_ip})

\* The browser has a network, and reaches these addresses of the device on it.
Reached == IF side = "ap" THEN (IF ap_enabled THEN Own ELSE {}) ELSE {sta_ip} \ {NoAddr}
-----------------------------------------------------------------------------
(* dns_task.                                                                *)

ApAddress == IF ap_ip # NoAddr THEN ap_ip ELSE WIFI_AP_IP

\* Where the name ends: behind a zero byte, a pointer, or the message.
NameEnd(q) ==
  LET end[qoff \in Nat] ==
        IF qoff >= Len(q) THEN qoff
        ELSE LET len == q[qoff + 1] IN
             CASE len = 0 -> qoff + 1
               [] len >= POINTER -> qoff + 2
               [] OTHER -> end[qoff + len + 1]
  IN  end[0]

\* The question that is sent back with the address, or nothing.
DnsAnswer(q) ==
  LET qend == NameEnd(q) + 4
  IN  IF qend > Len(q) \/ qend > RESP_ROOM THEN <<>> ELSE SubSeq(q, 1, qend)

\* Any name, behind it the type and the class or a part of them.
Message ==
  {name \o rest : name \in UNION {[1..n -> 0..POINTER] : n \in 0..MaxName},
                  rest \in {[i \in 1..n |-> 0] : n \in 0..4}}

\* What is done about a stranger's message leaves no trace in the task: one
\* message, and no browser beside it.
StrangerAsks ==
  /\ browsing = "idle" /\ changes = 0
  /\ \E q \in Message : dns' = [query |-> q, answer |-> DnsAnswer(q)]
  /\ browsing' = "stranger"
  /\ UNCHANGED <<network, side, asked, url, peer, reply, hops>>
-----------------------------------------------------------------------------
(* The browser.                                                             *)

Navigate ==
  /\ browsing \in {"idle", "done", "lost"}
  /\ browsing' = "resolve"
  /\ asked' \in Url /\ url' = asked'
  /\ peer' = NoAddr /\ reply' = "none" /\ hops' = 0
  /\ UNCHANGED <<network, side, dns>>

\* A name is resolved by the DNS task on the access point's network; on the
\* other one by mDNS and by the router, which leads elsewhere with the rest.
Addresses ==
  IF url.host \in ApAddr \union StaAddr THEN {url.host}
  ELSE IF url.host = NoHost THEN Reached
  ELSE IF side = "ap" THEN {ApAddress}
  ELSE IF url.host \in {hostname, RouterName} THEN {sta_ip} ELSE {NoAddr}

Resolve ==
  /\ browsing = "resolve"
  /\ peer' \in Addresses
  /\ browsing' = "connect"
  /\ UNCHANGED <<network, side, asked, url, reply, hops, dns>>

Unreachable ==
  /\ \/ browsing = "resolve" /\ Addresses = {}
     \/ browsing = "connect" /\ peer \notin Reached
  /\ browsing' = "lost"
  /\ UNCHANGED <<network, side, asked, url, peer, reply, hops, dns>>
-----------------------------------------------------------------------------
(* handle_proxy, for a request that arrived.                                *)

captive_portal_is_active == ap_enabled /\ ap_ip # NoAddr
captive_portal_match == url.host = ProbeHost /\ url.path = "probe"
captive_portal_is_landing == url.host = ProbeHost /\ url.path = "landing"

\* Mutant: the address the access point has by default is its own.
ForeignToDefault == url.host \notin {WIFI_AP_IP, sta_ip, hostname, NoHost}

captive_portal_is_foreign_host == url.host \notin Own \union {hostname, NoHost}

Arrives == browsing = "connect" /\ peer \in Reached

\* build_portal_url; the browser goes there.
SentOn(how) ==
  /\ reply' = how
  /\ url' = [host |-> ApAddress, path |-> "other"]
  /\ hops' = hops + 1
  /\ browsing' = "resolve"
  /\ UNCHANGED <<network, side, asked, peer, dns>>

\* captive_portal_redirect: 200 with a page that refreshes itself.
ServeProbe ==
  /\ Arrives /\ captive_portal_is_active /\ captive_portal_match
  /\ SentOn("refresh")

\* captive_portal_landing_redirect: 302.
ServeLanding ==
  /\ Arrives /\ captive_portal_is_active /\ captive_portal_is_landing
  /\ SentOn("found")

\* captive_portal_intercept; a probe was told apart before.
ServeForeign ==
  /\ Arrives /\ captive_portal_is_active
  /\ ~captive_portal_match /\ ~captive_portal_is_landing
  /\ captive_portal_is_foreign_host
  /\ SentOn("found")

\* What follows is the proxy's (WebProxy).
ServePage ==
  /\ Arrives
  /\ captive_portal_is_active =>
       /\ ~captive_portal_match /\ ~captive_portal_is_landing
       /\ ~captive_portal_is_foreign_host
  /\ reply' = "page" /\ browsing' = "done"
  /\ UNCHANGED <<network, side, asked, url, peer, hops, dns>>

Next ==
  \/ ApChanges \/ StaChanges \/ StrangerAsks
  \/ Navigate \/ Resolve \/ Unreachable
  \/ ServeProbe \/ ServeLanding \/ ServeForeign \/ ServePage
Spec == Init /\ [][Next]_vars
-----------------------------------------------------------------------------
TypeOK ==
  /\ ap_enabled \in BOOLEAN /\ ap_ip \in ApAddr \union {NoAddr}
  /\ sta_ip \in StaAddr \union {NoAddr} /\ changes \in 0..MaxChanges
  /\ side \in {"ap", "lan"}
  /\ browsing \in {"idle", "resolve", "connect", "done", "lost", "stranger"}
  /\ {asked, url} \subseteq Url /\ peer \in ApAddr \union StaAddr \union {NoAddr}
  /\ reply \in {"none", "page", "refresh", "found"} /\ hops \in Nat

(* Wherever the addresses move meanwhile, a browser is sent on at most      *)
(* once, so no chain of redirects can form; a probe is never answered with  *)
(* a redirect; a browser that asks for the device by the station's address  *)
(* or its name is not sent on; and what a browser on the access point asks  *)
(* of the internet never reaches the radio (captive_portal.c).              *)
PortalReached ==
  /\ hops <= 1
  /\ reply = "found" => ~(asked.host = ProbeHost /\ asked.path = "probe")
  /\ side = "lan" /\ asked.host \in StaAddr \union {hostname} => hops = 0
  /\ side = "ap" /\ reply = "page" => url.host \notin {ProbeHost, OtherHost}

\* The first bytes of q are a question: cuts are the places of the length
\* bytes, each of which leads to the next.
IsQuestion(q, n) ==
  \E cuts \in SUBSET (1..(n - 4)) :
    /\ 1 \in cuts
    /\ LET final == Max(cuts) IN
       /\ \A c \in cuts \ {final} : /\ q[c] \in 1..(POINTER - 1)
                                    /\ c + q[c] + 1 \in cuts
                                    /\ \A d \in cuts : d > c => d >= c + q[c] + 1
       /\ \/ q[final] = 0 /\ n = final + 4
          \/ q[final] >= POINTER /\ n = final + 5

(* The DNS task answers exactly the messages that begin with a whole        *)
(* question there is room for, and sends back that question and no more     *)
(* (captive_portal.c dns_task).                                             *)
AnswersWholeQuestions ==
  LET whole == {n \in 1..Len(dns.query) : IsQuestion(dns.query, n) /\ n <= RESP_ROOM}
  IN  dns.answer = IF whole = {} THEN <<>> ELSE SubSeq(dns.query, 1, Min(whole))
-----------------------------------------------------------------------------
(* Said of this code and not so: each is refuted (README, Divergences).     *)

\* A request that comes over the station is never intercepted.
LanIsNotIntercepted == side = "lan" => hops = 0
=============================================================================
