----------------------------- MODULE BleTransmit ----------------------------
(***************************************************************************)
(* The BLE transmit path: send_kiss (kiss.c) builds a frame in the shared  *)
(* tx_scratch under tx_scratch_lock, which the first caller creates, or    *)
(* each of the first callers; ble_write appends the frame to tx_buf and    *)
(* ble_flush sends tx_buf in notifications, both under tx_mutex (ble.c).   *)
(* Three tasks send frames: the switch's dispatch task, ble_rx_task        *)
(* (replies) and the system task (battery); flush_task only flushes.  The  *)
(* NimBLE host changes the link flags, and the HTTP task the ble_enabled   *)
(* of the configuration, under none of the mutexes.                        *)
(*                                                                         *)
(* BLE was enabled when the firmware began (otherwise there is no tx_mutex *)
(* and the whole path is dead until the next boot).                        *)
(*                                                                         *)
(* A frame is two bytes that name it: enough to tell a torn frame from a   *)
(* whole one.  A link is up when a central is connected, encrypted and     *)
(* subscribed.                                                             *)
(***************************************************************************)
EXTENDS Naturals, Sequences, FiniteSets, Functions

CONSTANTS
  Sender,          (* tasks that call send_kiss                             *)
  FlushTask,       (* flush_task                                            *)
  TX_BUFFER_SIZE,  (* bytes of tx_buf                                       *)
  MAX_CHUNK,       (* bytes of a notification                               *)
  MaxFrames,       (* bound: frames of all senders                          *)
  MaxLinks         (* bound: links that come up                             *)

Caller  == Sender \union {FlushTask}
NoTask  == "none"
NoLock  == "NULL"
LinkDown == 0
NoByte  == <<<<FlushTask, 0>>, "none">>

TransmitAssumption ==
  /\ FlushTask \notin Sender /\ NoLock \notin Sender
  /\ TX_BUFFER_SIZE \in Nat \ {0} /\ MAX_CHUNK \in Nat \ {0}
  /\ MaxFrames \in Nat /\ MaxLinks \in Nat

Frame == Sender \X (1..MaxFrames)
Bytes(f) == <<<<f, "head">>, <<f, "tail">>>>

VARIABLES
  pc,              (* where each task is                                    *)
  frame,           (* number of frames each sender has begun                *)
  tx_scratch_lock, (* NoLock or the mutex, named by the task that made it   *)
  created,         (* the mutexes there are                                 *)
  held,            (* those that somebody took and nobody gave              *)
  mine,            (* the mutex each sender waits for or took               *)
  tx_scratch,      (* the frame being built                                 *)
  tx_buf,          (* bytes waiting for a notification                      *)
  tx_mutex,        (* its holder                                            *)
  link,            (* number of the link that is up, or LinkDown            *)
  links,           (* links that came up                                    *)
  ble_enabled,     (* the setting                                           *)
  swept,           (* flush_task since the link went down: did not come by, *)
                   (* passed by (BLE was disabled), or emptied tx_buf       *)
  carried,         (* history: a link came up behind a flush that passed by *)
  notified         (* history: per link, bytes notified                     *)

lockVars    == <<tx_scratch_lock, created, mine>>
scratchVars == <<frame, lockVars, tx_scratch>>
linkVars    == <<link, links, swept, carried>>
vars == <<pc, scratchVars, held, tx_buf, tx_mutex, ble_enabled, linkVars, notified>>

Init ==
  /\ pc = [t \in Caller |-> "idle"]
  /\ frame = [s \in Sender |-> 0]
  /\ tx_scratch_lock = NoLock /\ created = {} /\ held = {}
  /\ mine = [s \in Sender |-> NoLock]
  /\ tx_scratch = <<NoByte, NoByte>>
  /\ tx_buf = <<>> /\ tx_mutex = NoTask
  /\ ble_enabled = TRUE
  /\ link = LinkDown /\ links = 0 /\ swept = "emptied" /\ carried = FALSE
  /\ notified = [l \in 1..MaxLinks |-> <<>>]

Goto(t, step) == pc' = [pc EXCEPT ![t] = step]
-----------------------------------------------------------------------------
(* send_kiss.                                                               *)

\* The wait is for the mutex that tx_scratch_lock names at the call; one that
\* is there is never taken away, so the test for NULL is part of this step.
SendKiss(s) ==
  /\ pc[s] = "idle"
  /\ FoldFunction(+, 0, frame) < MaxFrames
  /\ frame' = [frame EXCEPT ![s] = @ + 1]
  /\ Goto(s, IF tx_scratch_lock = NoLock THEN "create" ELSE "take")
  /\ mine' = [mine EXCEPT ![s] = tx_scratch_lock]
  /\ UNCHANGED <<tx_scratch_lock, created, held, tx_scratch, tx_buf, tx_mutex, ble_enabled,
                 linkVars, notified>>

CreateLock(s) ==
  /\ pc[s] = "create"
  /\ created' = created \union {s}
  /\ tx_scratch_lock' = s
  /\ Goto(s, "load")
  /\ UNCHANGED <<frame, held, mine, tx_scratch, tx_buf, tx_mutex, ble_enabled, linkVars,
                 notified>>

\* Another task may have created one since: the last one counts.
LoadLock(s) ==
  /\ pc[s] = "load"
  /\ mine' = [mine EXCEPT ![s] = tx_scratch_lock]
  /\ Goto(s, "take")
  /\ UNCHANGED <<frame, tx_scratch_lock, created, held, tx_scratch, tx_buf, tx_mutex,
                 ble_enabled, linkVars, notified>>

\* Takes the mutex and writes the head of the frame.
TakeLock(s) ==
  /\ pc[s] = "take"
  /\ mine[s] \notin held
  /\ held' = held \union {mine[s]}
  /\ tx_scratch' = <<Bytes(<<s, frame[s]>>)[1]>> \o Tail(tx_scratch)
  /\ Goto(s, "rest")
  /\ UNCHANGED <<frame, lockVars, tx_buf, tx_mutex, ble_enabled, linkVars, notified>>
-----------------------------------------------------------------------------
(* ble_write: the flags are looked at before the mutex is taken.            *)

\* The rest of the frame; then ble_write looks at the flags.
BuildRest(s) ==
  /\ pc[s] = "rest"
  /\ tx_scratch' = <<Head(tx_scratch), Bytes(<<s, frame[s]>>)[2]>>
  /\ Goto(s, IF link = LinkDown THEN "flush" ELSE "append")
  /\ UNCHANGED <<frame, lockVars, held, tx_buf, tx_mutex, ble_enabled, linkVars, notified>>

Room == TX_BUFFER_SIZE - Len(tx_buf)

\* Mutant: a frame that does not fit is cut.
WriteAppendCut(s) ==
  /\ pc[s] = "append"
  /\ tx_mutex = NoTask
  /\ tx_buf' = tx_buf \o SubSeq(tx_scratch, 1, IF Room < 2 THEN Room ELSE 2)
  /\ Goto(s, "flush")
  /\ UNCHANGED <<scratchVars, held, tx_mutex, ble_enabled, linkVars, notified>>

\* A frame that does not fit is dropped whole.
WriteAppend(s) ==
  /\ pc[s] = "append"
  /\ tx_mutex = NoTask
  /\ tx_buf' = IF Len(tx_scratch) > Room THEN tx_buf ELSE tx_buf \o tx_scratch
  /\ Goto(s, "flush")
  /\ UNCHANGED <<scratchVars, held, tx_mutex, ble_enabled, linkVars, notified>>
-----------------------------------------------------------------------------
(* ble_flush, by any task.                                                  *)

\* A sender gives tx_scratch_lock on the way out: the mutex of that name by
\* now, whoever took it, if anybody did.
FlushLeaves(t) ==
  /\ Goto(t, "idle")
  /\ held' = IF t \in Sender THEN held \ {tx_scratch_lock} ELSE held

\* Does nothing while BLE is disabled.  (The code reads the setting before it
\* waits for the mutex.  A change while it waits is one of those that may come
\* at any time: as well back to the old value, and forth again behind.)
FlushEnter(t) ==
  /\ pc[t] = "flush" \/ (t = FlushTask /\ pc[t] = "idle")
  /\ \/ /\ ~ble_enabled
        /\ FlushLeaves(t)
        /\ swept' = IF link = LinkDown /\ swept = "no" THEN "passed" ELSE swept
        /\ UNCHANGED <<tx_buf, tx_mutex>>
     \/ /\ ble_enabled /\ tx_mutex = NoTask /\ link = LinkDown
        /\ FlushLeaves(t)
        /\ tx_buf' = <<>> /\ swept' = "emptied"
        /\ UNCHANGED tx_mutex
     \/ /\ ble_enabled /\ tx_mutex = NoTask /\ link # LinkDown
        /\ Goto(t, "notify")
        /\ tx_mutex' = t
        /\ UNCHANGED <<held, tx_buf, swept>>
  /\ UNCHANGED <<scratchVars, ble_enabled, link, links, carried, notified>>

FlushEnds(t) == tx_mutex' = NoTask /\ FlushLeaves(t)

\* Mutants: what was notified stays in tx_buf; a flush waits for more than a
\* chunk; a flush that cannot go on starts again.
FlushNotifyKeeps(t) ==
  /\ pc[t] = "notify"
  /\ tx_buf # <<>> /\ link # LinkDown
  /\ LET n == IF Len(tx_buf) > MAX_CHUNK THEN MAX_CHUNK ELSE Len(tx_buf)
     IN  notified' = [notified EXCEPT ![link] = @ \o SubSeq(tx_buf, 1, n)]
  /\ UNCHANGED <<pc, scratchVars, held, tx_buf, tx_mutex, ble_enabled, linkVars>>

FlushNotifyFull(t) ==
  /\ pc[t] = "notify"
  /\ Len(tx_buf) > MAX_CHUNK /\ link # LinkDown
  /\ notified' = [notified EXCEPT ![link] = @ \o SubSeq(tx_buf, 1, MAX_CHUNK)]
  /\ tx_buf' = SubSeq(tx_buf, MAX_CHUNK + 1, Len(tx_buf))
  /\ UNCHANGED <<pc, scratchVars, held, tx_mutex, ble_enabled, linkVars>>

FlushStopsRetries(t) ==
  /\ pc[t] = "notify"
  /\ tx_mutex' = NoTask
  /\ Goto(t, "flush")
  /\ UNCHANGED <<scratchVars, held, tx_buf, ble_enabled, linkVars, notified>>

\* One turn of the loop; a notification that cannot be sent (no connection,
\* no buffers) ends it and tx_buf keeps the rest.
FlushNotify(t) ==
  /\ pc[t] = "notify"
  /\ tx_buf # <<>> /\ link # LinkDown
  /\ LET n == IF Len(tx_buf) > MAX_CHUNK THEN MAX_CHUNK ELSE Len(tx_buf)
     IN  /\ notified' = [notified EXCEPT ![link] = @ \o SubSeq(tx_buf, 1, n)]
         /\ tx_buf' = SubSeq(tx_buf, n + 1, Len(tx_buf))
  /\ UNCHANGED <<pc, scratchVars, held, tx_mutex, ble_enabled, linkVars>>

FlushStops(t) ==
  /\ pc[t] = "notify"
  /\ FlushEnds(t)
  /\ UNCHANGED <<scratchVars, tx_buf, ble_enabled, linkVars, notified>>
-----------------------------------------------------------------------------
(* The link.  Between two links lie a connection set-up and an encryption,  *)
(* hundreds of milliseconds, and flush_task runs every 10 ms: a link comes  *)
(* up only after a flush has come by.                                       *)

LinkUp ==
  /\ link = LinkDown /\ swept # "no"
  /\ links < MaxLinks
  /\ links' = links + 1
  /\ link' = links + 1
  /\ carried' = (carried \/ swept = "passed")
  /\ UNCHANGED <<pc, scratchVars, held, tx_buf, tx_mutex, ble_enabled, swept, notified>>

LinkLost ==
  /\ link # LinkDown
  /\ link' = LinkDown
  /\ swept' = "no"
  /\ UNCHANGED <<pc, scratchVars, held, tx_buf, tx_mutex, ble_enabled, links, carried, notified>>

\* A POST of ble_enabled: the setting, and nothing that runs.
SetBleEnabled ==
  /\ ble_enabled' = ~ble_enabled
  /\ UNCHANGED <<pc, scratchVars, held, tx_buf, tx_mutex, linkVars, notified>>

Send(s) ==
  \/ CreateLock(s) \/ LoadLock(s) \/ TakeLock(s) \/ BuildRest(s) \/ WriteAppend(s)
Flush(t) == FlushEnter(t) \/ FlushNotify(t) \/ FlushStops(t)

Next ==
  \/ \E s \in Sender : SendKiss(s) \/ Send(s)
  \/ \E t \in Caller : Flush(t)
  \/ LinkUp \/ LinkLost \/ SetBleEnabled

Spec == Init /\ [][Next]_vars

(* The tasks run, and where a task stands it has one step, or two inside    *)
(* the notify loop; a mutex waited for is obtained (FreeRTOS hands it over  *)
(* in order); a notification tried again and again is sent at last.         *)
Fairness ==
  /\ \A s \in Sender : SF_vars(Send(s) \/ Flush(s))
  /\ SF_vars(Flush(FlushTask))
  /\ SF_vars(\E t \in Caller : FlushNotify(t))

FairSpec == Spec /\ Fairness
-----------------------------------------------------------------------------
Byte == {NoByte} \union (Frame \X {"head", "tail"})

Building == {"rest", "append", "flush", "notify"}

TypeOK ==
  /\ pc \in [Caller -> {"idle", "create", "load", "take"} \union Building]
  /\ frame \in [Sender -> 0..MaxFrames]
  /\ created \subseteq Sender /\ held \subseteq created
  /\ tx_scratch_lock \in created \union {NoLock} /\ mine \in [Sender -> created \union {NoLock}]
  /\ tx_scratch \in Seq(Byte) /\ Len(tx_scratch) = 2
  /\ tx_buf \in Seq(Byte) /\ Len(tx_buf) <= TX_BUFFER_SIZE
  /\ tx_mutex \in Caller \union {NoTask}
  /\ links \in 0..MaxLinks /\ link \in {LinkDown, links}
  /\ ble_enabled \in BOOLEAN
  /\ swept \in {"no", "passed", "emptied"} /\ carried \in BOOLEAN
  /\ notified \in [1..MaxLinks -> Seq(Byte)]

\* The head of every frame is followed by the tail of the same frame.
Whole(bytes) ==
  \A i \in DOMAIN bytes :
    LET of == bytes[i][1]
    IN  bytes[i] = IF i % 2 = 1 THEN <<of, "head">> ELSE <<bytes[i - 1][1], "tail">>

(* "Frame-atomic" (ble.c:754-756): what a central was notified of and what  *)
(* is buffered for it are whole frames back to back, although links are     *)
(* lost in the middle of a flush, notifications fail, frames overrun the    *)
(* buffer and flushes come to nothing; only a lost link ends inside a       *)
(* frame.  It takes that the first calls of send_kiss created one mutex and *)
(* not one each, and that no link came up before tx_buf was emptied of what *)
(* the link before it left.                                                 *)
OneLock == \A a, b \in created : a = b

FrameAtomic ==
  OneLock /\ ~carried =>
    /\ \A l \in 1..MaxLinks : Whole(notified[l])
    /\ link # LinkDown =>
         /\ Whole(notified[link] \o tx_buf)
         /\ (Len(notified[link]) + Len(tx_buf)) % 2 = 0

\* Of two frames of one task, the one begun first; heads of frames in bytes.
Before(f, g) == f[1] = g[1] => f[2] < g[2]
Heads(bytes) == {i \in DOMAIN bytes : bytes[i][2] = "head"}

InOrder(bytes) ==
  \A i, j \in Heads(bytes) : i < j => Before(bytes[i][1], bytes[j][1])
Precedes(bytes, later) ==
  \A i \in Heads(bytes), j \in Heads(later) : Before(bytes[i][1], later[j][1])

(* No frame is sent twice, and the frames of one task stay in order, within *)
(* a link and from one link to the next.                                    *)
SentOnceInOrder ==
  OneLock =>
    \A l \in 1..MaxLinks :
      /\ InOrder(notified[l])
      /\ \A k \in 1..(l - 1) : Precedes(notified[k], notified[l])

(* send_kiss returns: tx_scratch_lock and tx_mutex, nested, the flags of    *)
(* the host and the setting cannot block a sender for ever, as long as      *)
(* there is one tx_scratch_lock.                                            *)
SendersReturn == \A s \in Sender : pc[s] # "idle" ~> (pc[s] = "idle" \/ ~OneLock)

(* What is buffered for a link that stays up, of a BLE that stays enabled,  *)
(* is sent.                                                                 *)
StableLinkFlushes ==
  <>[](link # LinkDown /\ ble_enabled) => []<>(tx_buf = <<>>)
-----------------------------------------------------------------------------
(* Said of this code and not so: each is refuted (README, Divergences).     *)

(* kiss.c:50-53, "the scratch is static and guarded by a mutex": no two     *)
(* tasks are building a frame in tx_scratch at once.                        *)
ScratchGuarded ==
  \A s, u \in Sender : pc[s] \in Building /\ pc[u] \in Building => s = u

(* The same, of a task that waits for it: a task that is behind a mutex     *)
(* nobody gives any more waits for ever.                                    *)
NobodyStuck == \A s \in Sender : pc[s] # "idle" ~> pc[s] = "idle"

(* ble.c:754-756, "a silent mid-frame splice would corrupt the client's     *)
(* KISS parser": as FrameAtomic, whatever was done to the setting.          *)
NeverSpliced == OneLock => \A l \in 1..MaxLinks : Whole(notified[l])
=============================================================================
