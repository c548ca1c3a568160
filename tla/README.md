# RNode T-HaLow firmware: a TLA+ model

The firmware in `src/` turns an ESP32-S3 into a bridge: a Bluetooth KISS modem
on one side, a WiFi HaLow radio on the other, a TCP port for Reticulum clients
and a web page in between. It is C on FreeRTOS, a dozen tasks that share rings,
flags, socket numbers and callbacks. This directory holds TLA+ modules of its
own logic, TLC configurations that check them, and proofs that TLAPS checks.
Line numbers name the files of the repository (`switch.c` is `src/src/switch.c`,
`switch.h` is `src/inc/switch.h`).

Contents: [the system](#the-system), [modules](#modules), [runs](#runs),
[fairness](#fairness), [proofs](#proofs), [divergences](#divergences),
[not modelled](#not-modelled), [plan](#plan), [how to run](#how-to-run).

## The system

| component | state | operations | who runs it |
|---|---|---|---|
| packet switch (`switch.c`) | one ring per sink, a sink pointer each, the packet in the dispatcher's hand | `switch_rx` copies a packet into the rings of the other two ports; `sw_dispatch_task` offers the oldest packet of each ring to its sink | every interface task produces, one task dispatches |
| HaLow link (`system.c`) | `sock_fd`, `send_mutex`, the deframer | connect, publish, read, withdraw, close; `halow_sink` sends | `halow_link_task`; the sink runs in the dispatcher |
| RNS framing (`rns_framing.c`) | bytes of the frame, escape pending | encode, receive a byte, reset | whoever owns the stream |
| BLE pairing (`ble.c`, `system.c`) | `ble_state`, `allow_pairing`, connection, bonds, pause depth, what is advertised | GAP events, pairing window, pause and resume round a WiFi scan | NimBLE host, button task, system task, HTTP task |
| BLE data plane (`ble.c`, `kiss.c`) | notify buffer and mutex, receive stream buffer, KISS parser, encode scratch and its mutex | `ble_write`, flush, `rx_stream_send`, `kiss_rx_byte`, `send_kiss` | dispatcher, BLE task, system task, flush task, host |
| RNS TCP proxy (`rns_proxy.c`) | the client slot, the listener's handle and restart flag | accept, replace, session, sink; start, stop, restart | listener, a session per client, dispatcher, HTTP task |
| WiFi station (`wifi.c`) | retry count, pending and connected flags, event bits, reconnect timer | event handler, timer, interactive connect with rollback, apply | event task, timer task, HTTP task |
| web proxy and firewall (`web_proxy.c`, `firewall.c`) | rate slots, the upstream slot, page cache, the part of a page held back | admit, open, forward, read in chunks, inject the snippet, cache, give back | the one task of `esp_http_server` |
| gzip decoder (`gzip_inflate.c`) | bit reader, tables, output | decode one page | the HTTP task |
| button (`button.c`) | press start, fired flags | poll, debounce, gestures | button task |
| configuration (`thalow_config.c`, the handlers in `web_proxy.c`, the page script) | values in memory, in NVS and in flash; what is in force | load and apply at boot, check, set and save a field, reset a section, erase everything | boot, HTTP task, button task |
| SLIP (`slip.c`) | receive buffer, escape pending | write a datagram, receive a byte | lwIP, `slip_rx_task` |
| captive portal (`captive_portal.c`) | the addresses of both interfaces | answer a DNS query, tell a probe and a foreign host, redirect | DNS task, HTTP task |
| status LED (`status_led.c`) | two requests, the pattern that runs | show a level, confirm a reset | LED task; requests from the button task |
| battery (`battery.c`) | filtered voltage, snapshot, state | sample, filter, compare | battery task |

How they meet. Radio, Bluetooth and TCP tasks call `switch_rx`; its dispatcher
calls `halow_sink`, `ble_sink` and `tcp_sink`, which look at state other tasks
write. The button opens the pairing window, the system task closes it, GAP
callbacks change the state both look at. A WiFi scan of the HTTP task pauses
advertising. A configuration POST of the HTTP task restarts the listener and
applies the WiFi settings; 30 s of holding the button erase the settings under
it. All sockets of the firmware come out of one small
pool of numbers, and a number closed by one task is handed to the next caller
of `socket()` or `accept()`.

What is hard here, and what makes each part correct:

- *Back-pressure and loss in the switch.* The HaLow ring refuses, the others
  overwrite, a refused TCP packet goes back to the front of a ring that filled
  up meanwhile. Correct: HaLow packets are neither lost, repeated nor
  reordered, a port that loses loses the oldest, producers get out again.
- *Descriptors that one task closes and another uses.* Correct: a send goes to
  the connection it was meant for, and a close hits one's own socket.
- *Half a frame.* Lost connections, full buffers and concurrent senders must
  not splice one frame into another.
- *Several tasks that drive advertising.* Correct: one bond, no link on show that
  is not there, a device that can be found again.
- *Retries, timeouts, rollbacks.* The station's background reconnect and the
  interactive connect share flags; a listener's restart gives up after a second.
- *A change made of many saves.* Fields are saved one by one, keys erased one
  by one; power goes, a call fails or the flash is erased in between. Correct:
  a restart finds what was answered for or asked for since, what runs is what
  the pages show, and a factory reset leaves nothing.
- *Lines and clocks nobody controls.* A serial line without checksum, chunks
  that cut a tag, addresses that change under a redirect, a blink that blocks
  the task a press talks to.
- *Everything held on a way out.* The upstream slot, the body, the mutexes.
- *Edges of numbers.* Ring indices, the tick counter at its wrap, the backoff's
  shift, lengths at the buffer's size, a compressed stream that ends too early.

`PROJECT.json` lists the hazards at their lines with the properties that watch
them, and for every definition of the models the lines it stands for.

## Modules

| module | models | how state and steps correspond |
|---|---|---|
| `Switch` | `switch.c`, and of `system.c` the order of registration | a ring is its record `slots`, `head`, `tail`, `count`; `hand[p]` is `s_halow_held` for the radio and the loop's local `pkt` otherwise. Each ring primitive is atomic under its mutex; a producer is between two rings, the dispatcher inside a sink, as `rx` and `dispatch` say. The HaLow ring refuses when it is full (`ring_push_blocking` is a disabled `PushRing`), and a refused HaLow packet stays in the hand; TCP puts it back in front or drops it |
| `SwitchChannel` | what the switch promises of a sink | a queue, with at most `Capacity` packets waiting and one at the sink; a reliable port only takes and delivers, another gives up the oldest |
| `SwitchProofs`, `HalowLinkProofs`, `BlePairingProofs`, `ConfigStoreProofs`, `WifiProofs` | | the theorems below about the module of that name |
| `TasksProofs`, `InputsProofs`, `PagesProofs` | | the theorems about the parts that `MCTasks`, `Inputs` and `Pages` compose |
| `RnsFraming` | `rns_framing.c` | operators: `Encode`, `RxByte` with its oversize rule, `EmptyDeframer` |
| `FramingStream` | a receiver of the whole stream and one that joins inside a frame | the byte sequence of up to two frames, read byte by byte |
| `HalowLink` | `halow_link_task`, `halow_sink`, `system_halow_send` | `link` and `sink` are program counters at the calls between which the other task runs; `socket` is the pool of descriptors, which other tasks open and close |
| `BlePairing` | the GAP and pairing half of `ble.c`, the loop of `system_run`, the pauses of `wifi_scan`, on a device whose BLE is enabled | `at[c]` is where each of the four tasks stands. A step reads or writes one of the variables that several tasks write (`ble_state`, `allow_pairing`, `s_adv_fast`, `pairing_active`, the time of the press), or makes one controller call, so a task writes on what it read before. One HTTP task makes all the scans, so the pause depth is 0 or 1 |
| `BleTransmit` | `send_kiss`, `ble_write`, `ble_flush`, the flush task | two bytes stand for a frame, so that a torn one shows. A mutex is named by the task that created it: `mine[s]` is the one a sender waits for or took, `held` those that are taken, and the way out gives the one `tx_scratch_lock` names by then. `ble_enabled` can be changed at any time |
| `Kiss`, `KissStream` | the KISS parser; `rx_stream_send` and the receive task | the central writes its line of frames in pieces of any length, several frames in one or one in several; the stream buffer drops the tail of a write; centrals leave inside a frame |
| `RnsProxy` | accept, replacement, session | `owner[f]` is who has number `f`. The listener and the sessions keep the numbers they read; `reading[c]` is whose socket the `recv()` of the session of `c` waits on, found by number at each call. `tcp_sink` changes nothing here |
| `RnsListener` | `listen_task`, `start_listener`, `rns_proxy_restart` | `http` is where the restart is; a listener whose round takes over a second is `slow`, which ends the wait early |
| `Wifi` | the event handler, the timer, `wifi_sta_connect`, the station half of `wifi_apply` | the driver is the environment: it posts events into `queue`, gets addresses and drops links |
| `WebProxy` | `handle_proxy`, the page cache, `firewall.c` | one request at a time, `at` is where it is; `log` records what was answered to whom, and whose running window that ended |
| `Inflate`, `DeflateReference` | `gzip_inflate.c`; a reference compressor written from the format | one step per code; blocks are read from a sequence of bits |
| `Button` | `button.c` | one poll per step, the clock wraps at `CLOCK` |
| `ConfigStore` | `thalow_config.c`, the configuration and reset handlers of `web_proxy.c`, the page script's checks, the boot, the factory reset | `memory`, `nvs` and `flash` are the three copies of each key, `wifi` and `proxy` what was last applied; `at` and `todo` are where the one task that changes them is, one key per step in the order of the code. Of the keys saved and applied alike one stands for all: `ap_en`, `ap_auth`, `ap_ip` (address and mask), `ap_pass`, `sta_en`, `ble_en`, `rns_en`, `rns_port`. `shown` is what a page loaded earlier may take for set, `half` that a POST of the access point came to nothing or relied on that |
| `Slip` | `slip_output_v4`, `slip_rx_task` | `uart` is the line, from which a step takes a byte, loses it or changes it |
| `PageRelay` | the two ways a page goes through `handle_proxy`, with the snippet | `acc` is the part held back, or the buffer that grows; `browser` is what was sent |
| `CaptivePortal` | `captive_portal.c`, the redirect at the start of `handle_proxy` | a browser resolves a name, connects and is answered, each a step; the addresses change between them. Beside it a stranger sends any DNS message |
| `FrontPanel` | `on_button_event` but for the pairing, the loop of the LED task | ticks; a pattern keeps the LED task `busy` |
| `Battery` | `battery_task` | one sample per step |
| `MCTasks`; `Inputs`, `Pages`, `Sequential`; `Part` | | parts that share no state put under one run each, one part per behaviour (`part`), with the fairness of each part where it runs. `Sequential` is `Inputs` (one task over one input) and `Pages` (what a browser meets), which are proved about, and the gzip decoder, which is recursive |
| `MCSwitch`, `MCHalowLink`, `MCSequential` | | values for TLC |

Histories (`received`, `accepted`, `delivered`, `written`, `up`, `notified`,
`log` and the like) exist for the properties and are never read by a guard,
except to number packets and to count against a bound; `shown` in `ConfigStore`
also limits what the page sends. Every bound is a
constant named `Max...` and described where it is declared.

## Runs

A run that passes checks its properties in every reachable state of the
instance; one that ends in a violation shows a behaviour of the code that a
comment or document of the repository rules out.

| run | states | what it shows |
|---|---|---|
| `Switch` | 41 676 | HaLow loses nothing (`HalowLossless`, end to end `HalowEndToEnd`), BLE and TCP lose only old packets (`FreshestKept`), the rings and the dispatcher implement the queue of `SwitchChannel` (`ImplementsChannel`, from which order and absence of duplicates follow), a producer that met a full ring returns (`ProducersUnblock`), every packet for the radio is sunk even if the TCP client never comes back (`HalowDelivers`) |
| `HalowLink` | 59 900 | the mutex keeps `send()` on the link's own socket although the sink looks at `sock_fd` without it (`SendOnOwnSocket`); frames are written once and in order over all connections (`WrittenOnceInOrder`); only frames the radio sent whole go up (`FramesIntact`); the link comes back (`LinkRecovers`) and drains the switch (`StableLinkDrains`) |
| `BlePairing` | 1 224 524 | never two bonds (`SingleBond`); CONNECTED is not shown without an encrypted link between two events of the host, although two other tasks write the state on an old look (`NoPhantomLink`); the device advertises again (`AdvertisesAgain`) |
| `Tasks` | 199 302 | three parts, one at a time. Transmit path, with one scratch mutex: frames enter and leave the notify buffer whole unless a link came up over a buffer nobody emptied (`FrameAtomic`), once and in order over the links (`SentOnceInOrder`), senders return (`SendersReturn`); a link that stays up with BLE enabled gets what is buffered (`StableLinkFlushes`). Proxy: a dead number leaves the slot (`SlotHeals`), of the connections that are open all but one end (`SingleClient`). Listener: if nothing was slow and nothing failed, after a restart exactly the listener the configuration asks for is there (`RestartApplies`) |
| `Wifi` | 1 873 975 | the published status follows the link (`StatusFollowsLink`), a delayed retry never joins a network that was replaced (`LinkMatchesConfig`), a station whose network answers comes back (`Reconnects`) |
| `ConfigStore` | 3 594 231 | with power lost and an NVS call failing anywhere: a restart finds what was answered for or asked for since (`Durable`), what runs is what the pages show (`InForce`), the driver first refuses the access point only after an accident or a POST of it that was refused half-way or relied on a password that was gone (`AbortNeedsAccident`), a factory reset in the middle of a change leaves nothing of it (`FactoryResetTotal`) |
| `Sequential` | 2 437 635 | ten parts that are one task over one input, one at a time: see below |
| `HalowLinkLoss`, `BleWindow`, `RnsProxyClose`, `ConfigBoot`, `BatteryTrend` | | the first five of the divergences |

`Sequential` puts ten parts under one run because they share nothing: each is
one task over one input, and a behaviour runs one of them (`part`).

- *web*: requests of two clients, for whom there is one rate slot, through the
  firewall and the proxy. The upstream slot is given back on every way out
  (`NeverBusy`); a client within its share is served, and one beyond it is
  turned away but for a share more each time its slot was taken (`RateLimit`).
- *deframer*: every stream of up to two frames of up to three bytes over two
  reserved bytes, their masked forms and a letter, from the start or joining
  inside: frames arrive as they were sent, and the receiver is in step at the
  next delimiter (`FramesArrive`).
- *kiss*: four frames, one too long, one to be echoed and two with escapes, in
  writes of up to twelve bytes, two frames and more, through a stream buffer of
  eight. Without an accident all are handled byte for byte. A stream that is
  full or a central that leaves costs the frames it cuts, one frame more behind
  them for each time the stream was full, and one bogus frame at most
  (`CommandsArrive`).
- *slip*: three datagrams with the reserved bytes and their escapes in them,
  two bytes lost or changed into any of the five bytes of the deframer's
  alphabet: each costs one datagram at most (`LineRecovers`).
- *inflate*: all well-formed streams of up to three tokens in stored, fixed and
  dynamic blocks, cut at every bit, and all short strings of bits: what was
  compressed comes out, what is not whole is not called good (`PageUnpacked`),
  and no bits make the decoder spin (`AlwaysAdvances`).
- *relay*: every page of up to six symbols, tags and pieces of tags in it, in
  every division into chunks, streamed or in the growing buffer, and the radio
  pausing or failing: the browser gets the page with the snippet once, in front
  of a tag if there is one (`SnippetOnce`).
- *portal*: no chain of redirects, no redirect for a probe or for the device's
  own names, nothing of the internet asked of the radio, while the addresses
  change three times; every DNS message of a stranger is answered with its
  whole first question or not at all (`Captive`).
- *button*: held and let go at any poll while the clock wraps: a gesture is
  given only for a press as long as it asks (`HeldLongEnough`).
- *panel*: presses at any time: a reset was confirmed to the end of the blink,
  and a press waits for one pattern at most (`PanelAnswers`).
- *battery*: any voltages, with the battery taken out and put back: the filter
  stays within what was measured, and after the first check falling alone does
  not make the state CHARGING (`TrendIsTrue`).

Bounds, and why they are enough:

- `Switch`: rings of two slots are full after two packets and wrap after three.
  The BLE task sends three packets, so that the TCP ring overflows and, with the
  packets of the TCP client, the HaLow ring fills. A length that is too long
  (`SW_PKT_MAX + 1`) takes part.
- `HalowLink`: two connections, so that a frame may be cut on the first and
  completed on the second; two descriptors, so that one can be recycled; three
  packets from the switch; packets of the radio with escapes in them.
- `BlePairing`: two peers (an eviction needs a second), one of them bonded before
  the boot; two connections; two upsets, each a long press, a WiFi scan or a
  reset of the host; a window of one pass of the loop.
- `Tasks`, transmit path: a buffer of one frame and a half, notifications of one byte,
  so that frames are refused, split and cut by a lost link; two frames, of two
  senders and the flush task, over two links. Two senders are enough for both to
  create a mutex; with one mutex a third behaves as the second (without, it does
  not: divergence 11).
- `Tasks`, proxy: three clients and two descriptors: a replaced client whose
  number goes to the next one, with a session of each behind it.
- `Tasks`, listener: three listeners in succession, two ports, one slow round, one
  failure.
- `Wifi`: one interactive connect, one change of configuration, one lost link,
  two background retries; one network that answers and one that does not. The
  arithmetic of the backoff is scaled down; at its real size it is under
  Divergences.
- `ConfigStore`: three requests, so that a section is changed, refused half-way
  and put right or reset, or reset behind a page that was loaded before; one
  loss of power and one NVS call that fails, each at any step; a factory reset
  can come as often as there are restarts.
- `Sequential`: web: four requests over time steps 0 to 2, of two clients on one
  slot with a share of one request and a window of one step, so that every
  request of the other client takes the slot. Which of several slots is taken
  does not come up with one: that is left to the proof, for any number of them. The sizes of the others are scaled so
  that every boundary is met: a receive buffer of as many bytes as the longest
  datagram, a tag of three symbols with as many held back (the code holds back
  16 bytes for a tag of seven) and chunks of two, buffers of two to four for
  pages of up to six, DNS names of up to five bytes where three is already a
  pointer and room for eight, a clock that wraps at 16. The panel counts ticks
  of 100 ms: 30 before the LED task begins, 33 to 50 for a level, 20 for the
  confirmation, 21 until the reset; the LED task's pause of 20 ms is a whole
  tick. The battery has 4 to 12 units of voltage, 11 is full, a filter of a
  half instead of a fifth, a check every three samples and a trend of two.

`CHECK_DEADLOCK FALSE` stands in the runs that end when their bounds are used
up, or where everybody may wait for an event that need not come (no central, no
client, no request). `Switch` and `HalowLink` are checked for deadlock: some
task of them always can go on.

Every property of a passing run has a mutant in `PROJECT.json`: an operator
beside the original (marked "Mutant" in the modules) that changes it as a slip
would, and with it the run must fail.

## Fairness

Only what the scheduler and the calls justify:

- A task that can run does (weak fairness). FreeRTOS shares the processor among
  tasks of equal priority, and the higher ones block.
- A mutex waited for is obtained (strong fairness on the taking step):
  FreeRTOS queues takers by priority and arrival, and no holder here holds for
  ever.
- The radio takes a packet offered again and again, a `connect()` repeated often
  enough succeeds, a notification repeated gets through, a reachable network
  answers (strong fairness): these are the assumptions of each liveness
  property about them, not promises of the firmware.
- In `HalowLink` other tasks close the sockets they opened, so that `socket()`
  finds a number again and again. `RnsProxy` does not ask that; there `recv()`
  returns when the connection it waits on has ended, whosever it is.
- The NimBLE host synchronises, and a burst of fast advertising expires.
- In `Tasks` each part has its own fairness, asked only of the behaviours that
  run it. `ConfigStore` and `Sequential` claim safety only, with no fairness.
- No fairness for users and peers: centrals, clients, the button, requests,
  configuration changes and lost links may happen or not. The TCP client in
  particular may never come back.

`LinkRecovers` and `HalowDelivers` are stated up to the bounds on connections
and packets. `AdvertisesAgain` says that a device that can advertise does so in
the end, unless it stops being able to.

## Proofs

TLAPS checks, for every value of the constants that satisfies the assumptions
named in the modules:

| theorem | says |
|---|---|
| `SwitchProofs!TypeCorrect`, `RingsStaySound` | indices stay in the ring, `head`, `tail` and `count` agree, for any ring size, tasks and traffic |
| `SwitchProofs!HalowNeverLoses` | `HalowLossless`: what the HaLow ring accepted is sunk, in the hand or in the ring, in order and once |
| `SwitchProofs!HalowIsEndToEnd` | `HalowEndToEnd`: of each producer's packets exactly the valid ones `switch_rx` is past with are on the way to the radio or sunk, in order |
| `SwitchProofs!FreshestStayKept` | `FreshestKept`: the packets BLE and TCP accepted last, as many as a ring holds, are all sunk or on their way |
| `SwitchProofs!SwitchImplementsChannel` | `ImplementsChannel`: every step of the switch is, for each port, a step of `SwitchChannel` or a stutter |
| `HalowLinkProofs!SendsOnItsOwn` | `SendOnOwnSocket`: a send runs on the link's own socket, though numbers are recycled |
| `HalowLinkProofs!WritesInOrder` | `WrittenOnceInOrder`, over any number of connections |
| `HalowLinkProofs!FramesArriveWhole` | `FramesIntact`, for any packets the deframer's buffer has room for and connections cut after any byte |
| `HalowLinkProofs!LinkIsTyped` | types, whatever the radio sends |
| `BlePairingProofs!TypeCorrect` | types; every task stands at one of its steps; the pause depth is 1 during a scan and 0 otherwise, and never wraps below zero |
| `BlePairingProofs!OneBond`, `LinkIsReal` | `SingleBond` and `NoPhantomLink`, for any peers, any sequence of events and any interleaving of the four tasks' reads and writes |
| `TasksProofs!FramesGoOutWhole`, `FramesGoOutOnce` | `FrameAtomic` and `SentOnceInOrder`, each with the premise it states, for any senders, buffer, notifications and links |
| `TasksProofs!HandleIsLive` | types of the listener; `s_listen_task` never names a task that ended |
| `TasksProofs!RestartWorks` | `RestartApplies`, for any number of restarts |
| `TasksProofs!TypeCorrect` | types of the proxy; the listener never closes -1 for a client it replaces |
| `ConfigStoreProofs!SettingsAreDurable`, `SettingsAreInForce` | `Durable` and `InForce`, for any values, any number of requests, losses of power and failing calls |
| `ConfigStoreProofs!FactoryResetIsTotal`, `AbortsNeedAnAccident` | `FactoryResetTotal` and `AbortNeedsAccident`, for any number of requests the page sends, typed in, refused, or from a page loaded long before |
| `ConfigStoreProofs!SettingsAreTyped` | types; a refused value is never taken |
| `WifiProofs!StatusTellsTheTruth`, `LinkIsTheConfigured` | `StatusFollowsLink` and `LinkMatchesConfig`, for any networks, queue of events, retries and connects |
| `PagesProofs!ProxyIsTyped`, `UpstreamIsFree` | types; `NeverBusy`, for any requests and failures |
| `PagesProofs!PoliteClientIsServed` | `PoliteIsServed`, the first half of `RateLimit`, for any clients, slots, shares and windows |
| `PagesProofs!RateIsLimited` | `RateLimit`, for any clients, slots, shares and windows: less than two shares in a period as long as a window, and one more for each time the client's slot was taken while its window ran |
| `PagesProofs!PageGetsTheSnippet` | types; `SnippetOnce`, for any tag, hold at least as long, page, chunks and buffer |
| `PagesProofs!BrowserReachesThePortal` | types; `Captive`, for any addresses, names and messages |
| `InputsProofs!StreamResynchronises` | types; `FramesArrive`, for any number of frames of any length, any buffer, read from the start or from any byte of the first frame |
| `InputsProofs!AccidentsAreContained` | types; `LineRecovers`, for any finite set of datagrams that fit and any number of bytes lost or changed |
| `InputsProofs!GestureTakesItsTime` | types; `HeldLongEnough`, for any thresholds and delays and any clock, as long as a press is shorter than a round of it |
| `InputsProofs!ResetIsConfirmed` | types; `PanelAnswers`, for any durations that stand to each other as the code's |
| `InputsProofs!FallingIsNotCharging` | types; `TrendIsTrue`, for any voltages, filter and interval |

How the arguments go.

*Switch.* `HalowLossless` speaks of sequences and the code of arrays with
wrapping indices. `Sound(r)` says that the three indices of a ring agree and
that its entries are packets. Two lemmas translate: a write appends to the
contents of a ring (`WriteAppends`), a pop takes their first packet
(`RemoveTakesFirst`); below them lies modular arithmetic only (`Wrap`,
`HeadIsFree`, `Advance`, `WrapNext`). The invariant `Inv` joins the types, sound
rings, hands and loop counters that hold a packet exactly when they should, and
`HalowLossless`. It is needed because the property alone is not inductive: that
the pop of an empty ring, or the write into a full one, does not happen to the
HaLow ring follows only from the ring's shape and from the hand being empty
when the dispatcher pops. A full HaLow ring makes the producer wait, and a
refused packet stays in the hand; so nothing is ever evicted or put back there.

The other three look at the switch as queues. `StepMoves` says, once for all of
them, that a step of the rings and the dispatcher changes one port and in one of
seven ways (`Enters`, `Displaces`, `Leaves`, `Sunk`, `ComesBack`, `GivenUp`, or
`Still`). `FreshestKept` compares a history with a queue, and a queue is not
simply what was accepted less what was sunk, since a full ring loses packets;
`Trail` says where the accepted packets are: the last ones in the ring, the one
before them in the hand unless the ring filled up meanwhile, the others, back to
a ring's length, sunk. For the refinement each kind of move is one step of the
channel, a pop included, which moves a packet from the ring to the hand and is a
stutter there.
`HalowEndToEnd` joins the two ends: `Numbers` (a producer hands in packets with
rising numbers) and `Arrivals` (those of its packets it is past with, and no
others, are on the path of the radio).

*HaLow link.* The sink reads `sock_fd` twice without the mutex, so those reads
prove nothing. What does is `Held` (where the link task stands decides what it
owns and what is published) with `Locked` (the mutex is held exactly while the
sink sends, and then the number it sends on is the published one): withdrawing
needs the mutex, closing comes after withdrawing. `Numbered` bounds what was
written by what is offered.

`FramesIntact` says only what came out; its invariant `Framed` also says what is
still on its way. Every byte underway has a place in the radio's packets (`Place`:
which packet, before which byte, inside an escape or not), and `Passage` says
that the bytes lead from the place where the deframer is to the end of what was
sent, or to where the connection was cut off. Four lemmas do the work: the
encoder of a packet is a passage from between two packets to between the next
two (`OfPacket`); passages can be joined, cut off and read byte by byte
(`Joined`, `Cut`, `FirstByte`); a byte takes what the deframer holds at a place
to what it holds at the next, and only the closing flag of a packet hands it out
(`KeepsPace`). A connection that is cut inside a packet leaves the deframer
inside it; that the next one starts between two packets is what
`rns_framing_rx_reset` is for. The premise `Fits` (no packet of the radio is
longer than `RNS_FRAMING_MAX_PACKET`) is needed: of a longer one the deframer
silently drops the rest (rns_framing.c:57), and the packet that goes up is not
one the radio sent. That the bytes of a packet lead to its closing flag is an
induction along the packet. The library's induction theorems cannot be used
here, so `Along` states induction for sets of numbers and rests on the least
element of a set (`Least`); `Flattened` says with it what the recursive function
inside `FlattenSeq` returns.

*Transmit path.* `FrameAtomic` is about who may append, and that is decided by
two mutexes. `LocksTyped` says what the names of the scratch mutexes can be: who
is past the test for NULL waits for one that was created, and
`tx_scratch_lock` names one. If only one was created (`OneLock`), the one a task
took is the one it gives, and `OneBuilder` follows: no two tasks are between the
encoder and the end of `ble_write`, and what is in the scratch is the holder's
frame. So the part of a frame already in the buffer is followed by the rest of
the same one, or by nothing if the link is lost. `WholeFrames` states it of the
buffer behind what was notified, cut or not; it takes that the buffer was
emptied before the link came up (`~carried`). `Ordered` numbers the frames: what
a task has still to append (`Due`) comes after all of its own that was buffered
or notified, on whichever link; no premise but `OneLock` is needed for that.
Without the premises the two are false (divergences 11 and 12).

*Pairing.* Both invariants speak of the host between two of its events and have
to say what is due inside one. `Bonds`: an ENC_CHANGE that has encrypted the link
has the purge before it until it ends (`encrypts`, `close`). `Shown`: CONNECTED
is on show with an encrypted link, or the handler that the host is in will write
over it. The button and the system task only ever write PAIRING and ON, at any
moment and whatever they read before; that is all `OthersLeave` asks of their
steps, beside leaving the link and the bonds alone. So the opposite, that an
encrypted link shows CONNECTED, does not follow, and it is false (divergence 9).

*Listener.* `Orderly`: until something fails or is slow, the handle names the
only listener, one that is told to go is waited for, and a restart goes on only
without one. A listener therefore finds its port free.

*Proxy.* The types need that the listener has a client in hand outside
`select()`.

*Configuration.* `Durable` speaks of the flash, and what reaches it was in NVS
before, which was in a request before: `Handled` says at each place of the HTTP
task what of its request is done and what a restart may find (`may`), `Saved`
that what was answered for is in both copies. `InForce` needs `Applied`: what is
not in force is noted in `touched`, or the request at work will apply it.
`FactoryResetTotal` needs `Erased`, the shape of the store between the erase and
the restart. `AbortNeedsAccident` is the hard one: `Calm` follows a POST of the
access point through its fields and says that there is a password for the
security put into memory or still one to come (`Securing`), unless the POST was
refused on the way or had neither (`half`). `Mended` says what a POST answered
with 200, or a reset of the section, puts in the place of such a half: an access
point the driver has taken, or takes.

*WiFi.* Two invariants that do not look at each other. `Settled`: the events
not yet handled say what the status will be, so the last of them decides, and an
empty queue means it is decided. `Linked`: each place of the HTTP task says
which network the driver can be on. Neither looks at the delays, so the shift
of the backoff, a recursive function, stays out of them; for the same reason
`TypeOK` of `Wifi`, which bounds the delay, is not a theorem.

*Web proxy.* `NeverBusy` needs `Upstream`: until it is admitted a request holds
nothing. `PoliteIsServed` needs `Counts`: a slot counts no more requests than
its client made since its window began, which stays true when slots are taken
away. The second half of `RateLimit` follows a client's windows. `Granted`
weighs what the client was admitted since a time against a number `k` and a
share for each time its slot was taken since. In a window (`Windowed`) `k` is
what the slot has counted, one less from behind its first request on, and a
share more from further back; without one, or with one that is over (`Rested`),
it is nothing from now on, and a share less one for a time that still lies in
the period. A request in the window, a new one and the passing of time keep
this; taking the slot of a running window ends it, and the share that is due for
it makes up for what the client had before (`TakenAway`). `Bounded`, which is
`FloodBounded`, follows for the period a new request is in. That `find_or_alloc_slot` always finds a slot
rests on a least element of a set of numbers (`Least`).

*The parts of `Inputs` and `Pages`.* Each theorem speaks of the part's own
specification and of the composition's: a behaviour of `Inputs` that runs the
part is one of the part, and one that does not says nothing of it. `InputsSpec`
and `PagesSpec` leave `part` open, and a step of `Sequential` is one of theirs or
leaves their variables alone.

*The page on its way.* Until a tag is found, what was sent and what is held back
have no tag in them, and once anything was sent as much is held as the hold
allows (`Searching`). The hold is at least as long as the tag, so a tag that the
next chunk completes begins behind what was sent, and the search through the hold
and the chunk finds it. After that the snippet stands in front of a tag
(`Found`), and what follows cannot move it. `Good` restates `SnippetOnce` in two
pieces, before and behind the snippet; the lemmas below it say where a tag of two
pieces put together lies (`TagBefore`, `TagBehind`).

*The portal.* `Browsing`: a browser asks for what the user asked for or, sent on
once, for an address of the access point and a path no probe has, so it is not
sent on again; an address is resolved to itself, also when the addresses have
changed since. Addresses and names of the internet differ (`PortalAssumption`).
`AnswersWholeQuestions` compares the walk of the DNS task over a name, a recursive
function, with the cuts of a name as the format has them (`IsQuestion`), by
induction from the end of the message (`NameEnds`, `LeadsToEnd`).

*RNS framing and SLIP.* Both lines send a packet as a delimiter, a code for each
byte and the delimiter again, and both receivers keep a buffer and an escape.
One library serves both: a line is a sequence of packets with their delimiter
and codes (`IsLine`), a `Place` is a packet, a byte of it and how much of that
byte's code has gone by, and `Passage` says that a stream leads from one place to
another. It is `HalowLink`'s argument once more, for any code. `FramingInv` has
two cases: in the first frame the deframer holds what is before its place or, if
it joined there, anything (`FirstPacket`); from the second on it is in step, and
handed out every frame in between and at most one in front (`LaterPacket`). A
frame too long is no exception here, since what the deframer keeps of it is its
beginning (`Cut`).

An accident on the serial line breaks the step between place and buffer, so
`SerialInv` counts instead of comparing (`Recovered`). At a place, the datagrams
past of which no copy came out (`Lost`) and the present one, if the receiver
does not hold what it should of it (`Unsure`), are together at most the
accidents; and what was handed over, with what is left in the buffer between two
datagrams (`Pending`), exceeds the datagrams past by no more than the accidents.
A byte that goes by unharmed keeps both, and the delimiter in front of a datagram
puts the receiver in step; an accident adds one to each at most. The hard cases
are a lost delimiter (two delimiters stand between two datagrams, so the second
is not lost with the first) and a byte changed into a delimiter (one datagram in
two).

*Button.* While the button is held, the distance on the clock from `press_start`
is how long it was seen held (`GestureInv`); modular arithmetic carries it over
the wrap as long as the press is shorter than the round (`SinceGrows`).

*Panel.* `HeldOut` and `InTime` weigh times against each other: what the press
met, and one thing queued behind it, is over before the hold is; the blink then
fits into the delay. That is where the assumption on the durations is needed: a
hold (30 s) is longer than any two patterns, the delay of the reset (2.1 s) than
a pause of the task and the blink.

*Battery.* The filter's step goes a part of the way to the sample (`ShareOfWay`),
so it stays in the range, and with nothing but falls it is not above the
snapshot once there is one (`ChargeInv`).

Every module has a `TypeOK`. Those of `Switch`, `BlePairing`, `RnsListener`,
`RnsProxy`, `ConfigStore`, `HalowLink`, `WebProxy`, `PageRelay`, `CaptivePortal`,
`FramingStream`, `Slip`, `Button`, `FrontPanel` and `Battery` are proved. Those that are not in a
configuration make room for a property that says more; TLC agrees with each of
them when it is put there. For `BleTransmit` and `Wifi` a proof needs what a
recursive function returns (a sum over the senders, the backoff). The modules
that `MCTasks`, `Inputs`, `Pages` and `Sequential` instantiate state their assumptions as
definitions; TLC evaluates them there and the theorems assume them.

Left to TLC. Liveness, and everything with `ENABLED`, is out of the prover's
reach. `PageUnpacked` and `AlwaysAdvances` say what the decoder, recursive from
table to block, computes on every input. `CommandsArrive` is a place argument
like the one for SLIP, with bytes that two actors drop in different ways and
with damage that is counted by the frames it cuts; it is not proved so far.

## Divergences

Where a comment, a document or a name in the repository says one thing and the
code does another. The first five have a run. Of the others those with a name
are properties under "Said of this code and not so" at the end of their module,
and TLC refutes each when it is put in the place of the properties of a
configuration (an invariant, unless it is written with a temporal operator),
with the changes given: that of `Switch`, `BlePairing`, `Wifi` and
`ConfigStore` is their own. The properties of `RnsListener` go into `Tasks.cfg`,
those of `WebProxy` into `Sequential.cfg`, under their names. Those of
`RnsProxy` and `BleTransmit` need a definition `Proxy!...` or `Transmit!...` in
`MCTasks`, beside the ones that are there, and those of `KissStream`, `Inflate`,
`PageRelay` and `CaptivePortal` one in `Sequential`, `Runs("kiss") =>
Receiver!...`, `Runs("inflate") => Decoder!...`, `Runs("relay") => Relay!...` or
`Runs("portal") => Portal!...`.

1. run `HalowLinkLoss`, `TakenIsWritten`. halow_sink tests sock_fd, calls system_halow_send and returns true whatever became of the frame (system.c:113-116); system_halow_send returns when the link was withdrawn meanwhile (system.c:120-123) and ignores what send() returns (system.c:131); inc/switch.h:35 says "No HaLow packet is ever lost." The run ends with a packet the sink took and the switch forgot, which was never written to the radio.
2. run `BleWindow`, `WindowCloses`. The loop of system_run stops watching the window as soon as ble_get_state() is not BLE_STATE_PAIRING (system.c:289-290), without calling ble_disable_pairing; README.md:51 says the long press "opens a 35-second pairing window". In the run a central connects during the window (the state becomes ON, ble.c:408), the system task drops the window, the central leaves (the state becomes PAIRING again, ble.c:427), and allow_pairing stays set for good.
3. run `RnsProxyClose`, `ClosesOnlyItsOwn`. The listener shuts down and closes the descriptor of the client it replaces (rns_proxy.c:351-352), and the session of that client closes the same number when it ends (rns_proxy.c:241); rns_proxy.c:349-350 says of the session "it then closes the fd and detaches itself". In the run another task's socket gets the number between the two closes, and the second close is about to take it away.
4. run `ConfigBoot`, `BootSurvives`. A POST saves wifi_ap_authmode (web_proxy.c:489) before it checks the address and the password (web_proxy.c:496-508), and answers with an error at the first that is refused without taking the security back; thalow_inject.js:349-354 counts the password's characters where the setter counts bytes (thalow_config.c:349-351), and takes a password for set as long as the page was loaded when it was. wifi.c:328 says ESP_ERROR_CHECK(esp_wifi_set_config(WIFI_IF_AP, &wifi_config)), which takes it that the driver accepts whatever was saved. In the run a POST of a protected access point is refused at its address or its password, a POST of another section applies the WiFi, and the driver is given WPA2 without a password: wifi_apply aborts, and so does each later boot, before the 30 s hold that would reset the settings completes. Power lost between two keys, each committed by itself (thalow_config.c:81-119), or a reset, which erases ap_pass before ap_auth (thalow_config.c:221-222), does the same.
5. run `BatteryTrend`, `ChargingMeansRise`. s_snapshot_mv starts at 0 (battery.c:35), and a disconnection resets s_snapshot_count and not it (battery.c:120-122), so the first trend check after a boot or a reconnection compares with 0 or with another battery (battery.c:128-132); battery.c:19-20 says "compare the filtered voltage against a snapshot taken BATTERY_TREND_EVERY updates ago (60 s)" and battery.c:23 ">= this rise in 60 s means charging". In the run the voltage never rises and the state is CHARGING; a fall of less than BATTERY_TREND_MV a minute keeps it so (battery.c:135).
6. `Switch`, `RegisteredBeforeTraffic`. system_run starts ble_rx_task and halow_link_task (system.c:262, 276) before rns_proxy_init registers the TCP sink (system.c:279, rns_proxy.c:409); inc/switch.h:72-73 says "callers must register before the interfaces start producing packets". The run hands switch_rx a packet while the TCP sink is still NULL. The packet waits in the TCP ring, so what is broken is the rule, not the delivery.
7. `BlePairing`, `PausedIsQuiet`. on_sync (ble.c:605), a failed connect (ble.c:401) and ble_enable_pairing (ble.c:709-711) call ble_advertise without looking at s_ble_pause_depth, as the DISCONNECT handler does (ble.c:429); ble.c:116 says of the depth ">0 = advertising stopped". In the run the host synchronises after ble_pause, and advertising runs during the scan.
8. `BlePairing`, `PolicyFollowsWindow`. ble_advertise chooses the filter policy from allow_pairing (ble.c:337-346) and starts advertising later (ble.c:359), and it runs in the host task, the button task and the system task without a lock; the second of two starts fails and is only logged (ble.c:361-365). ble.c:338 says "Pairing window open: anyone may discover, scan and connect". In the run on_sync chooses the gated policy, the button opens the window, on_sync starts, and the start of the open policy fails: the window is open and only bonded peers can connect.
9. `BlePairing`, `StateIsTrue`. ble_enable_pairing looks at ble_state and then writes PAIRING (ble.c:698-700), ble_disable_pairing writes ON in the same way (ble.c:716-719), and the DISCONNECT handler chooses what it writes by a look at allow_pairing (ble.c:427); the three run in three tasks. status_led.c:137 says of PAIRING "fast blink while the pairing window is open". In the run the button task has looked when a bonded central connects and encrypts, which writes CONNECTED and closes the window; the button task then writes PAIRING. The window is closed, a central is connected, and the device shows an open window, until the central leaves or the 35 seconds are over, after which it shows ON. What does hold is `NoPhantomLink`.
10. `BlePairing`, `WindowLasts`. system_run reads `now` at the head of a pass (system.c:286) and subtracts pairing_started_ms later (system.c:291); a long press that sets pairing_started_ms and pairing_active in between makes the difference wrap, and ble_disable_pairing closes the window in the same pass. README.md:51 says the long press "opens a 35-second pairing window". In the run the window is over before it has lasted a pass.
11. `BleTransmit`, `ScratchGuarded`, `NobodyStuck`. send_kiss creates tx_scratch_lock at its first call by an unguarded test (kiss.c:60-61), and it is called from the switch's dispatch task, the BLE task and, by the battery push (system.c:299), the system task: two of them may each see NULL and create a mutex, and one may hold the first while the other holds the second; kiss.c:52-53 says "the scratch is static and guarded by a mutex". The run of `ScratchGuarded` has two tasks build a frame in tx_scratch at once. On the way out send_kiss gives whatever tx_scratch_lock names by then (kiss.c:86), so the mutex of the first is never given. In the run of `NobodyStuck` a third task waits for that one for ever. (Where the kernel's assertions are compiled in, giving a mutex that another task holds aborts instead.) `NobodyStuck` with `Sender = {sw_dispatch_task, ble_rx_task, system_task}`, `MaxFrames = 3`, `MaxLinks = 0`.
12. `BleTransmit`, `NeverSpliced`. ble_flush returns at once while BLE is disabled in the configuration (ble.c:821-822), and a POST of the "ble" section changes that at once without touching the link (web_proxy.c:553); so a link that is lost meanwhile leaves the rest of a frame in tx_buf, which the sweep of ble_flush would have dropped. ble.c:754-756 says "a silent mid-frame splice would corrupt the client's KISS parser". In the run BLE is disabled, the link goes, BLE is enabled when the next central is there, and that one is sent the rest of a frame it never saw the head of. `FrameAtomic` sets such a link aside (`carried`).
13. `KissStream`, `OnlyWholeFrames`. When the stream buffer is full rx_stream_send keeps the head of the write and drops bytes up to and including the next FEND (ble.c:195-207, 209-217), so the parser sees no delimiter after the head; ble.c:192-193 says "dropping whole frame tails (never a silent mid-frame splice)". In the run the head of a torn frame is ended by the first FEND of the next frame, and the parser hands on a frame nobody wrote.
14. `RnsProxy`, `SendsToClients`. When the session task cannot be created the listener closes the descriptor before it clears the slot (rns_proxy.c:362-366, 378-382), and tcp_sink uses the number it found in the slot after giving the mutex back (rns_proxy.c:191-206); rns_proxy.c:183-184 says "write it on the current client_fd". In the run another task gets the number between the close and the clearing, and the slot names a socket that is not a client's.
15. `RnsProxy`, `ReadsItsOwn`. A session that is inside switch_rx (rns_proxy.c:232) when the listener shuts down and closes its number (rns_proxy.c:351-352) is not in the recv() that would be woken. It calls it afterwards, by number (rns_proxy.c:228); rns_proxy.c:349-350 says "shutdown() wakes the session task's recv(); it then closes the fd and detaches itself". In the run the number has been given out again by then, and the session reads another connection's bytes.
16. `RnsProxy`, `IdleClosed`. The session reads with a recv() that has no timeout (rns_proxy.c:227-233), and RNS_PROXY_IDLE_TIMEOUT_MS is used nowhere; inc/rns_proxy.h:15-16 says "idle connections are closed after RNS_PROXY_IDLE_TIMEOUT_MS". In the run the session of a silent client never ends.
17. `RnsListener`, `DisabledStops`. rns_proxy_restart waits one second for the listener (rns_proxy.c:426-428) and goes on all the same; start_listener then withdraws the request (rns_proxy.c:392) before the old listener has seen it, and the new one, which cannot bind the port, sets s_listen_task to NULL (rns_proxy.c:283-288), so that later calls do not know of the old one; inc/rns_proxy.h:21-22 says "If the proxy is being disabled, the listener is stopped". The run disables the proxy after one such restart and a listener goes on accepting.
18. `Wifi`, `BackoffCapped`. The delay is computed as STA_BACKOFF_MIN_MS << (sta_retry - 1) in an int and capped afterwards (wifi.c:184-186): the 24th attempt without an address overflows and gives a negative or small delay, later ones shift by more than the width; wifi.c:50-51 says "exponential backoff capped at 60 s between attempts". The run fails 24 times in a row and takes a delay out of the range. With `MaxRetry = 25`, `STA_BACKOFF_MIN = 125`, `STA_BACKOFF_MAX = 15000` (a quarter of the code's numbers each, with `INT_RANGE = 1073741824` for an int of 32 bits), `Net = {dead}`, `Reachable = {}`.
19. `Wifi`, `FailureRestores`. wifi_sta_connect saves the new network (wifi.c:603-605) and returns without rolling back when esp_wifi_set_config or esp_wifi_connect fails (wifi.c:619-623, 638-642); wifi.c:588-590 says "if this connect fails we restore the snapshot". The run ends with an answer of failure and the new network in the configuration.
20. `Wifi`, `SuccessIsReal`. A got-IP event of the old network that is still queued when s_connect_pending is set (wifi.c:629) sets STA_CONNECTED_BIT (wifi.c:225-226), and the call returns success and keeps the new network; wifi.c:590-592 says the device falls back "instead of being stranded on a dead SSID". The run answers success though the new network never gave an address.
21. `Wifi`, `NeverGivesUp`. While s_connect_pending is set a disconnection that is not retried only sets the fail bit (wifi.c:143-174). When the connected bit is set already the call returns success (wifi.c:650-655) and nobody calls esp_wifi_connect again; wifi.c:50 says "Background reconnect never gives up". In the run the new network drops the station at once, both events are handled before the call wakes, and the station stays down with the network in reach.
22. `WebProxy`, `TwoShares`. find_or_alloc_slot gives the slot whose window began longest ago to a new client (firewall.c:117-135) even while that window is running, so with more than FW_CLIENT_SLOTS clients a client's count is forgotten and starts again at one; firewall.c:50-51 says "A client may issue up to this many requests inside the window; further ones get 429". The run takes a slot from a client in its window and admits more of its requests than two windows allow: two clients, one slot, three requests. What it costs at most is `FloodBounded`.
23. `WebProxy`, `DeniedCostsNothing`. handle_proxy reads the request's body into an allocated buffer (web_proxy.c:1025-1046) before the firewall is asked, and returns on FW_DENY without freeing it (web_proxy.c:1099-1100), unlike every other way out; firewall.c:23-24 says "a denied request costs only the accept'd socket". The run denies a POST and ends with its body still allocated.
24. `WebProxy`, `ForwardsAreCounted`. A path under /api/thalow_ is admitted without taking the upstream slot (firewall.c:176-177), but one of a method or name nobody registered (web_proxy.c:1725-1784) is handled by the "/*" handler, which sends it on to the radio; firewall.c:13-14 says "Management/OS-probe traffic is always served locally and never forwarded". The run reaches the radio with the slot not taken.
25. `Inflate`, `PrefixValid`. Past the end of the input inf_getbits notes the error and returns 0 (gzip_inflate.c:32-35), and inflate_codes goes on decoding the zeros until the code fails or the buffer is full (gzip_inflate.c:101-132); gzip_inflate.c:306-307 says "the prefix written before the error is valid data". The run cuts a stream and the output holds bytes the page never had.
26. `ConfigStore`, `LongPressBails`. A long press asks thalow_config_get_ble_enabled before it touches NimBLE (system.c:85-88), and ble_pause asks the same; system.c:82-84 says of ble_enable_pairing that it "touches NimBLE state that is never initialised in that case" and "Bail out cleanly". ble_init runs only at boot, and a POST of the "ble" section changes the setting at once: the run enables BLE on a device that booted without it, and the press touches the stack that is not there.
27. `ConfigStore`, `RebootRestoresAccess`. The page warns, when both WiFi interfaces are being turned off, "Web access will be lost until the device reboots" (thalow_inject.js:519-520). The setting is saved, so the run boots and there is no network either; what brings the device back is the factory reset.
28. `ConfigStore`, `AnsweredIsSaved`. The handler ignores what the setters of the switches, the LED's heartbeat and the proxy return (web_proxy.c:443, 589, 598, 613, 623) and answers 200; for every other field it answers with an error when the setter failed (web_proxy.c:453-461). The run has a save fail and is answered as if it had not; the next boot has the old value.
29. `PageRelay`, `OkIsWhole`. A page of known or unknown length whose read ends with EAGAIN is kept as it is (web_proxy.c:1546-1547), answered with 200 and cached; a streamed page that breaks off is closed like a whole one. A page that cannot be read for another reason is answered with 502 (web_proxy.c:1556-1562). The run answers "ok" with a part of the page.
30. `CaptivePortal`, `LanIsNotIntercepted`. captive_portal_is_foreign_host knows the station's address and the mDNS name (captive_portal.c:264-271); captive_portal.c:259-263 says of a request from the upstream network that it must "never be captive-intercepted". A browser there that uses the name its router gave the device sends another Host: in the run it is redirected to the access point's address, which it cannot reach.

By reading, with no property:

- `rns_proxy.c`. A send that failed or wrote only a part makes tcp_sink return false and nothing else (rns_proxy.c:206-212); rns_proxy.c:209-211 says "client will be dropped by the recv loop" and "retry after the dead client is gone". A client that was merely slow for a second is not dropped: it is sent the whole packet again behind the part it has.
- `gzip_inflate.c`. The tables of distances have 30 entries (gzip_inflate.c:123). The fixed code has 30 symbols, but a dynamic block may declare up to 32 distance codes (gzip_inflate.c:185; only the sum with the others is checked, 199), and the last two are looked up behind the tables. `Inflate` takes any value there; `AlwaysAdvances` says that the decoder goes on, and does not watch the read.
- `web_proxy.c`. When a compressed page below /api/ cannot be unpacked, "passing through" (web_proxy.c:1321) puts the snippet behind the compressed bytes all the same (1326-1345) and keeps the gzip header (1347-1348); the path outside /api/ does not (1582).
- `Inflate`. A distance beyond the output makes inflate_codes return -1 without setting s->error (gzip_inflate.c:126-127), and gzip_inflate answers by s.error alone (gzip_inflate.c:300-309); inc/gzip_inflate.h:11 says "Returns 0 on success, -1 on malformed/overflowing input". A match at the beginning of the output gives 0.
- `slip.c`. A datagram longer than rxbuf is cut and handed on (slip.c:105-106), as if it were whole; lwIP's checksum is what rejects it.
- `captive_portal.c`. The DNS answer repeats the query's number of questions and one question, also when there were more, and answers every type of question with an A record.
- `captive_portal.h:23` says a probe is recognised by "host and/or path"; the code wants both.
- `status_led.h:12-13` says that after the blink that confirms a factory reset the task will "then hold the LED on"; the code goes back to the LED of its mode (`continue`, status_led.c:195).
- `thalow_config_reset` ignores what nvs_commit returns (thalow_config.c:259) and says ESP_OK.
- A reset of the "tcp" section does not restart the listener, as a POST of it does (web_proxy.c:689-697); thalow_config.h:23 does not list the section. In `ConfigStore` this is what `touched` sets aside.
- The reset handler compares `section` after cJSON_Delete has freed it (web_proxy.c:692-697). `ConfigStore` allows both results for the sections it would be equal to.
- configure_sta stops the DHCP client for a static address (wifi.c:367); when a later one is not usable it logs "using DHCP" (wifi.c:365) and does not start the client again.

None of these is stated as a property of the passing runs, and where a passing
property depends on one of them the premise says so: `touched` and `ignored` in
`ConfigStore` (what a refused POST or a reset left to apply, a save that failed
unnoticed), `half` there (an access point half changed), `rose` and the first
check in `Battery`, `OneLock` and `carried` in `BleTransmit` (the scratch's
mutex, a link over an unemptied buffer), `Astray` in `RnsProxy` (a session that
waits on a socket no client has), `slow = 0` in `RestartApplies`, `http.answer`
in `Reconnects` and `LinkMatchesConfig`, `Robbed` in `WebProxy`.

## Not modelled

- The WiFi driver, NimBLE, lwIP, FreeRTOS, the flash and the radio are the
  environment, modelled by what the code expects of them.
- The battery's ADC and percentages (a table in floating point), what an LED
  pattern looks like, the ping of `slip.c`, the battery push of `system.c`, the
  statistics, scan and connect pages: no state kept across calls, or formatting.
- What a cached page contains, and for which query it was fetched: `WebProxy`
  keeps which paths are cached, `PageRelay` how a page is completed.
- In most modules two statements of a task with no call between them are one
  step, and so are a handler's stores up to its next call; races below that
  grain are left out. `BlePairing` is finer: one access to shared state is one
  step. In `BleTransmit` three places are coarser than the code and lose nothing.
  The test of `tx_scratch_lock` and the load of the handle are one step when it
  is there, since it is never taken away again. `FlushEnter` reads the setting
  and takes the mutex in one step: a change in between is one that may as well
  come before, with the change back behind. `FlushStops` gives `tx_mutex` and
  the scratch mutex together, between which a sender touches nothing.
- In `BlePairing`: ble_advertise's early returns when the advertising data is
  refused (ble.c:311-315, 327-331), as it would be each time for a name too long
  for the scan response; `AdvertisesAgain` takes it that the name fits. A device
  whose BLE is disabled has no BLE stack and none of this.
- Changes of the other keys of the settings page (names, the station's
  addresses, the LED's mode): they are checked and saved as the ones in
  `ConfigStore` are.
- `/api/thalow_connect` saves the station's settings as well (wifi.c:603-623);
  that is in `Wifi`, outside `ConfigStore`. Nor does `ConfigStore` have a client
  other than the settings page, which could send an empty password, a
  `nvs_flash_erase` that fails (system.c:102 ignores it), or the other calls
  under ESP_ERROR_CHECK in configure_ap (wifi.c:303-324): that the DHCP server
  starts on the address that was checked is taken for granted.
- The third way of a page through `handle_proxy`, compressed HTML below /api/
  (web_proxy.c:1257-1349): its parts are those of `Inflate` and of the buffered
  path of `PageRelay`, and its ways out are among those of `WebProxy`.
- The GATT tables, the advertising payload, the constants of KISS answers, gzip
  header fields, HTTP headers.
- `esp_http_server` runs every handler in one task; so in `WebProxy` requests
  do not overlap and the limit of upstream requests is never reached. If the
  server is ever given several workers, the release of the slot has to be
  looked at again.
- A partial `send()` of `halow_sink` on its blocking socket means the connection
  is breaking; it is the failing case of `SinkSend`. `RnsProxy` keeps no bytes:
  what a slow client is sent twice is said above, by reading.
- `BleTransmit` takes it that a link comes up only after the flush task has come
  by since the one before it went down, and has emptied the buffer or passed by
  because BLE is disabled: it runs every 10 ms, a connection with its encryption
  takes much longer.

## Plan

Done: the modules above, in this order: `Switch` with its abstraction and its
first proofs, since every byte passes it; the link and the data paths on both
sides; pairing; the proxy; the station; the web proxy; the sequential parts;
then the settings in their copies, the page on its way to the browser, the
serial line, the portal, the LED and the battery.

Next:

1. A proof of `CommandsArrive`.
2. What a cached page holds: its query, its method, whether it is complete.

## How to run

    tlc -workers 2 -config Switch.cfg MCSwitch
    tlapm SwitchProofs.tla

and likewise for the other configurations, each with the module `PROJECT.json`
names beside it.
