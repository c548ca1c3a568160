-------------------------------- MODULE Pages -------------------------------
(***************************************************************************)
(* What a browser meets, a page at a time: the web proxy with its firewall,*)
(* a page on its way to the browser, and the captive portal.  They share   *)
(* no state; a behaviour runs one of them, or none.  The proxy stays as it *)
(* begins unless it runs, the others stay out of it.                       *)
(***************************************************************************)
EXTENDS Part, WebProxy

CONSTANTS
  Tag, Letter, Snippet,                                 (* PageRelay        *)
  STREAM_HOLD, PROXY_CHUNK_SZ, HTML_BUF_INIT,
  HTML_BUF_CAP, MaxPage,
  ApAddr, WIFI_AP_IP, StaAddr, NoAddr,                  (* CaptivePortal    *)
  hostname, RouterName, ProbeHost, OtherHost, NoHost,
  POINTER, MaxName, RESP_ROOM, MaxChanges

VARIABLES
  page, relay, radio, acc, bufcaps, injected,           (* PageRelay        *)
  browser, broken, memory,
  ap_enabled, ap_ip, sta_ip, changes, side,             (* CaptivePortal    *)
  browsing, asked, url, peer, reply, hops, dns

Relay == INSTANCE PageRelay
Portal == INSTANCE CaptivePortal

ASSUME PagesAssumption == Relay!RelayAssumption /\ Portal!PortalAssumption

relayVars ==
  <<page, relay, radio, acc, bufcaps, injected, browser, broken, memory>>
portalVars ==
  <<ap_enabled, ap_ip, sta_ip, changes, side, browsing, asked, url, peer,
  reply, hops, dns>>
pageVars == <<vars, relayVars, portalVars>>

\* A part that does not run keeps every variable of it at 0.
RelayOut ==
  /\ page = 0 /\ relay = 0 /\ radio = 0 /\ acc = 0
  /\ bufcaps = 0 /\ injected = 0 /\ browser = 0 /\ broken = 0
  /\ memory = 0
PortalOut ==
  /\ ap_enabled = 0 /\ ap_ip = 0 /\ sta_ip = 0 /\ changes = 0
  /\ side = 0 /\ browsing = 0 /\ asked = 0 /\ url = 0
  /\ peer = 0 /\ reply = 0 /\ hops = 0 /\ dns = 0

PagesInit ==
  /\ Init
  /\ IF Runs("relay") THEN Relay!Init ELSE RelayOut
  /\ IF Runs("portal") THEN Portal!Init ELSE PortalOut

PagesNext ==
  /\ part' = part
  /\ \/ Runs("web") /\ Next /\ UNCHANGED <<relayVars, portalVars>>
     \/ Runs("relay") /\ Relay!Next /\ UNCHANGED <<vars, portalVars>>
     \/ Runs("portal") /\ Portal!Next /\ UNCHANGED <<vars, relayVars>>

PagesSpec == PagesInit /\ [][PagesNext]_<<part, pageVars>>
-----------------------------------------------------------------------------
(* PageRelay: the browser gets the page whole, with the snippet once        *)
(* (web_proxy.c).                                                           *)
SnippetOnce == Runs("relay") => Relay!SnippetOnce

(* CaptivePortal: a browser is sent on at most once and ends at the page it *)
(* should see; the DNS task answers whole questions (captive_portal.c).     *)
Captive ==
  Runs("portal") => Portal!PortalReached /\ Portal!AnswersWholeQuestions
=============================================================================
