------------------------------- MODULE WebProxy -----------------------------
(***************************************************************************)
(* The reverse proxy in front of the radio's web pages (web_proxy.c,       *)
(* handle_proxy) with its page cache, and the firewall that admits a       *)
(* request to the radio (firewall.c).  httpd runs every handler in one     *)
(* task, so the requests are served one after the other; what a request    *)
(* leaves behind (a client's count, the upstream slot, a cached page, a    *)
(* buffer) is what the next one finds.                                     *)
(* Not told apart: the content of a page, except whether it may be cached; *)
(* requests the captive portal answers, which change nothing here.         *)
(***************************************************************************)
EXTENDS Naturals, Sequences, FiniteSets, FiniteSetsExt

CONSTANTS
  Client, NoClient,  (* addresses of peers; an unused slot or unknown peer  *)
  Page, NoPage,      (* paths outside /api/; an unused cache entry          *)
  Slots,             (* FW_CLIENT_SLOTS                                     *)
  CacheEntries,      (* CACHE_MAX_ENTRIES                                   *)
  PerClientMax,      (* FW_PER_CLIENT_MAX                                   *)
  PerClientWindow,   (* FW_PER_CLIENT_WINDOW                                *)
  MaxTime,           (* bound: the clock                                    *)
  MaxRequests,       (* bound: requests the firewall counts                 *)
  MaxBodies          (* bound: request bodies in memory                     *)

ASSUME WebProxyAssumption ==
  /\ NoClient \notin Client /\ NoPage \notin Page
  /\ Slots \in Nat \ {0} /\ CacheEntries \in Nat \ {0}
  /\ PerClientMax \in Nat \ {0} /\ PerClientWindow \in Nat
  /\ MaxTime \in Nat /\ MaxRequests \in Nat /\ MaxBodies \in Nat

VARIABLES
  now,        (* esp_timer_get_time(), in units of the window               *)
  s_clients,  (* [1..Slots -> [key, count, window_start]]                   *)
  s_upstream_inflight,
  s_cache,    (* [1..CacheEntries -> the path cached, or NoPage]            *)
  at,         (* where handle_proxy is                                      *)
  req,        (* the request being served                                   *)
  bodies,     (* request bodies allocated and not freed                     *)
  log         (* history: what the firewall answered to whom and when, and  *)
              (* whose running window that ended                            *)

vars == <<now, s_clients, s_upstream_inflight, s_cache, at, req, bodies, log>>

Api == "api"
Management == "management"     \* /api/thalow_*, of a method nobody registered
Request == [client : Client, path : Page \cup {Api, Management},
            post : BOOLEAN, body : BOOLEAN]
NoRequest == [client |-> NoClient, path |-> NoPage, post |-> FALSE, body |-> FALSE]
MaxUpstream == 1               \* FW_MAX_UPSTREAM_CONCURRENCY

\* firewall_init
Init ==
  /\ now = 0
  /\ s_clients = [s \in 1..Slots |-> [key |-> NoClient, count |-> 0, window_start |-> 0]]
  /\ s_upstream_inflight = 0
  /\ s_cache = [e \in 1..CacheEntries |-> NoPage]
  /\ at = "idle" /\ req = NoRequest /\ bodies = 0
  /\ log = <<>>

Cached(p) == \E e \in 1..CacheEntries : s_cache[e] = p

Body == IF req.body THEN 1 ELSE 0
Return(freed) ==
  /\ at' = "idle"
  /\ req' = NoRequest
  /\ bodies' = bodies - freed
-----------------------------------------------------------------------------
(* Receiving a request.                                                     *)

\* The body is read into a buffer before anything else.
Receive(r) ==
  /\ at = "idle"
  /\ r.body => r.post /\ bodies < MaxBodies
  /\ Len(log) < MaxRequests
  /\ req' = r
  /\ bodies' = bodies + IF r.body THEN 1 ELSE 0
  /\ at' = "lookup"
  /\ UNCHANGED <<now, s_clients, s_upstream_inflight, s_cache, log>>

\* The client goes away while its body is read: 502.
ReceiveFails ==
  /\ at = "lookup" /\ req.body
  /\ Return(1)
  /\ UNCHANGED <<now, s_clients, s_upstream_inflight, s_cache, log>>

Lookup ==
  /\ at = "lookup"
  /\ IF req.path \in Page /\ ~req.post /\ Cached(req.path)
     THEN Return(Body)
     ELSE at' = "check" /\ UNCHANGED <<req, bodies>>
  /\ UNCHANGED <<now, s_clients, s_upstream_inflight, s_cache, log>>
-----------------------------------------------------------------------------
(* firewall_check.                                                          *)

\* find_or_alloc_slot: the client's slot, else the last free one, else the
\* first of those whose window began longest ago.
SlotOf(c) ==
  LET mine == {s \in 1..Slots : s_clients[s].key = c}
      free == {s \in 1..Slots : s_clients[s].key = NoClient}
      oldest == {s \in 1..Slots : \A o \in 1..Slots :
                   s_clients[s].window_start <= s_clients[o].window_start}
  IN CASE mine # {} -> Min(mine)
       [] mine = {} /\ free # {} -> Max(free)
       [] OTHER -> Min(oldest)

\* Every request starts its client's window anew.
CountedAnew(c) == [key |-> c, count |-> 1, window_start |-> now]

\* The slot after this request was counted.
Counted(c) ==
  LET s == s_clients[SlotOf(c)]
  IN IF s.key # c \/ now - s.window_start > PerClientWindow
     THEN [key |-> c, count |-> 1, window_start |-> now]
     ELSE [s EXCEPT !.count = @ + 1]

\* The client whose running window ends because its slot is taken for c.
Taken(c) ==
  IF /\ c # NoClient /\ s_clients[SlotOf(c)].key # c
     /\ now - s_clients[SlotOf(c)].window_start <= PerClientWindow
  THEN s_clients[SlotOf(c)].key ELSE NoClient

Answer(c, a) ==
  log' = Append(log, [client |-> c, time |-> now, answer |-> a, taken |-> Taken(c)])

\* The concurrency cap, for a request the rate limit let through.
Cap(c) ==
  IF s_upstream_inflight >= MaxUpstream
  THEN /\ Answer(c, "busy")
       /\ Return(0)
       /\ UNCHANGED s_upstream_inflight
  ELSE /\ Answer(c, "admitted")
       /\ s_upstream_inflight' = s_upstream_inflight + 1
       /\ at' = "open"
       /\ UNCHANGED <<req, bodies>>

CheckManagement ==
  /\ at = "check" /\ req.path = Management
  /\ at' = "open"
  /\ UNCHANGED <<now, s_clients, s_upstream_inflight, s_cache, req, bodies, log>>

\* A denied request returns at once; its body is not freed.
Check ==
  /\ at = "check" /\ req.path # Management
  /\ LET c == req.client IN
     /\ s_clients' = [s_clients EXCEPT ![SlotOf(c)] = Counted(c)]
     /\ IF Counted(c).count > PerClientMax
        THEN /\ Answer(c, "limited")
             /\ Return(0)
             /\ UNCHANGED s_upstream_inflight
        ELSE Cap(c)
  /\ UNCHANGED <<now, s_cache>>

\* getpeername() fails for a socket its client has reset: no rate limit.
CheckUnknownPeer ==
  /\ at = "check" /\ req.path # Management
  /\ Cap(NoClient)
  /\ UNCHANGED <<now, s_clients, s_cache>>

\* firewall_upstream_release, which handle_proxy calls on every way out
\* beyond the firewall.
Release ==
  s_upstream_inflight' = IF s_upstream_inflight > 0
                         THEN s_upstream_inflight - 1 ELSE s_upstream_inflight
-----------------------------------------------------------------------------
(* The request to the radio.                                                *)

\* No HTTP client, or no connection: 502.
OpenFails ==
  /\ at = "open"
  /\ Release /\ Return(Body)
  /\ UNCHANGED <<now, s_clients, s_cache, log>>

\* Only the API branch sends the body on; a page is always fetched by GET.
Open ==
  /\ at = "open"
  /\ at' = IF req.path \notin Page /\ req.body THEN "write" ELSE "read"
  /\ UNCHANGED <<now, s_clients, s_upstream_inflight, s_cache, req, bodies, log>>

WriteFails ==
  /\ at = "write"
  /\ Release /\ Return(Body)
  /\ UNCHANGED <<now, s_clients, s_cache, log>>

Write ==
  /\ at = "write"
  /\ at' = "read"
  /\ UNCHANGED <<now, s_clients, s_upstream_inflight, s_cache, req, bodies, log>>

\* The way out of a failed read forgets the slot.
ReadFailsHolding ==
  /\ at = "read"
  /\ Return(Body)
  /\ UNCHANGED <<now, s_clients, s_upstream_inflight, s_cache, log>>

\* No buffer (500), the radio breaks off before anything was sent on (502),
\* or the browser is gone.
ReadFails ==
  /\ at = "read"
  /\ Release /\ Return(Body)
  /\ UNCHANGED <<now, s_clients, s_cache, log>>

\* cache_store: the first free entry, else the page's own; else not cached.
CacheStore(p) ==
  LET free == {e \in 1..CacheEntries : s_cache[e] = NoPage}
      own  == {e \in 1..CacheEntries : s_cache[e] = p}
  IN IF free # {} THEN [s_cache EXCEPT ![Min(free)] = p]
     ELSE IF own # {} THEN [s_cache EXCEPT ![Min(own)] = p]
     ELSE s_cache

\* The answer is passed on; a page answered 200 and not empty is cached if
\* it is not too large and there is memory for a copy.
Reply ==
  /\ at = "read"
  /\ \/ req.path \in Page /\ s_cache' = CacheStore(req.path)
     \/ UNCHANGED s_cache
  /\ Release /\ Return(Body)
  /\ UNCHANGED <<now, s_clients, log>>

Tick ==
  /\ now < MaxTime
  /\ now' = now + 1
  /\ UNCHANGED <<s_clients, s_upstream_inflight, s_cache, at, req, bodies, log>>

Handler ==
  \/ \E r \in Request : Receive(r)
  \/ ReceiveFails \/ Lookup
  \/ CheckManagement \/ Check \/ CheckUnknownPeer
  \/ OpenFails \/ Open \/ WriteFails \/ Write \/ ReadFails \/ Reply

Next == Handler \/ Tick
Spec == Init /\ [][Next]_vars
-----------------------------------------------------------------------------
(* Correctness.                                                             *)

\* Type invariant.
TypeOK ==
  /\ now \in 0..MaxTime
  /\ s_clients \in [1..Slots -> [key : Client \cup {NoClient}, count : 0..MaxRequests,
                                 window_start : 0..MaxTime]]
  /\ \A s, o \in 1..Slots : s_clients[s].key = s_clients[o].key
                            => s = o \/ s_clients[s].key = NoClient
  /\ s_upstream_inflight \in 0..MaxUpstream
  /\ s_cache \in [1..CacheEntries -> Page \cup {NoPage}]
  /\ at \in {"idle", "lookup", "check", "open", "write", "read"}
  /\ req \in Request \cup {NoRequest}
  /\ bodies \in 0..MaxBodies

\* The upstream slot is given back on every way out of the proxy: as the
\* requests are served one by one, nobody is ever told the radio is busy.
NeverBusy == \A i \in DOMAIN log : log[i].answer # "busy"

Within(i, j) == log[j].time - log[i].time <= PerClientWindow

\* A client is only turned away when it asked for more than its share within
\* the last window, however the clients before it filled the slots.
PoliteIsServed ==
  \A j \in DOMAIN log : log[j].answer = "limited" =>
    Cardinality({i \in 1..j : log[i].client = log[j].client /\ Within(i, j)}) > PerClientMax

\* Of the history, what falls in the period as long as a window from time t.
During(t) == {j \in DOMAIN log : log[j].time \in t..(t + PerClientWindow)}
Admitted(c, t) == {j \in During(t) : log[j].client = c /\ log[j].answer = "admitted"}
Robbed(c, t) == {j \in During(t) : log[j].taken = c}

\* The rate limit: a client's window is fixed to the first request of it, so a
\* period as long as a window sees two shares of a client less that first one,
\* and a share more for each time in that period that its slot was taken for
\* another client while its window ran.
FloodBounded ==
  \A c \in Client, t \in 0..MaxTime :
    Cardinality(Admitted(c, t)) < (2 + Cardinality(Robbed(c, t))) * PerClientMax

\* The rate limit is fair to a client within its share, and a limit to one
\* that is not, however many clients there are (firewall.c, firewall_check and
\* find_or_alloc_slot).
RateLimit == PoliteIsServed /\ FloodBounded
-----------------------------------------------------------------------------
(* Said of this code and not so: each is refuted (README, Divergences).     *)

\* firewall.c:50-51, "A client may issue up to this many requests inside the
\* window; further ones get 429": no period as long as a window sees more than
\* the shares of the two windows that may overlap it.
TwoShares ==
  \A c \in Client, t \in 0..MaxTime :
    Cardinality(Admitted(c, t)) < 2 * PerClientMax

\* A request that was turned away, or served, leaves nothing behind.
DeniedCostsNothing == at = "idle" => bodies = 0

\* Whoever talks to the radio holds the upstream slot.
ForwardsAreCounted == at \in {"open", "write", "read"} => s_upstream_inflight = 1
=============================================================================
