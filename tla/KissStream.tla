------------------------------ MODULE KissStream ----------------------------
(***************************************************************************)
(* The BLE receive path: a central writes a line of KISS frames in pieces  *)
(* of any length, several frames in a piece or several pieces to a frame   *)
(* (gatt_access_cb in the NimBLE host task), rx_stream_send puts them into *)
(* a stream buffer of RX_STREAM_SIZE bytes, and ble_rx_task takes them out *)
(* one at a time and parses them.  ble_rx_task may stand still for long    *)
(* (switch_rx blocks while the HaLow ring is full), so the stream does     *)
(* fill up.  Neither the stream, the resync flag nor the parser is touched *)
(* when a central disconnects.                                             *)
(***************************************************************************)
EXTENDS Kiss, FiniteSets

CONSTANTS
  RX_STREAM_SIZE,   (* capacity of rx_stream                                *)
  Frames,           (* the frames the central sends, in order               *)
  MaxWrite,         (* bound: bytes of one GATT write                       *)
  MaxLeave          (* bound: disconnects inside a frame                    *)

StreamAssumption ==
  /\ RX_STREAM_SIZE \in Nat \ {0} /\ MaxWrite \in Nat \ {0}
  /\ MaxLeave \in Nat
  /\ Frames \in Seq(Seq(Byte) \ {<<>>}) \ {<<>>}    (* each has a command   *)

\* All the bytes the central has to write, and the frame each belongs to.
Line  == FlattenSeq([i \in DOMAIN Frames |-> Encode(Frames[i])])
Owner == FlattenSeq([i \in DOMAIN Frames |-> [b \in DOMAIN Encode(Frames[i]) |-> i]])

VARIABLES
  written,       (* the central: bytes of Line behind it                    *)
  rx_stream,     (* the stream buffer                                       *)
  s_rx_resync,   (* drop bytes up to the next FEND                          *)
  kiss,          (* the parser                                              *)
  handled,       (* history: frames given to handle_frame                   *)
  sunk, replied, (* history: packets for switch_rx, frames sent back        *)
  torn,          (* history: times the stream was full                      *)
  hurt,          (* history: frames with a byte in a tail that was dropped  *)
  abandoned      (* history: frames a disconnect broke off                  *)

vars == <<written, rx_stream, s_rx_resync, kiss, handled, sunk, replied,
          torn, hurt, abandoned>>

Init ==
  /\ written = 0
  /\ rx_stream = <<>> /\ s_rx_resync = FALSE
  /\ kiss = EmptyParser
  /\ handled = <<>> /\ sunk = <<>> /\ replied = <<>>
  /\ torn = 0 /\ hurt = {} /\ abandoned = {}

-----------------------------------------------------------------------------
(* rx_stream_send.                                                          *)

\* What is left of a write once the resync has dropped its part.
FirstFend(data) == SelectInSeq(data, LAMBDA b : b = FEND)
AfterResync(data) ==
  IF ~s_rx_resync THEN data
  ELSE IF FirstFend(data) = 0 THEN <<>>
  ELSE SubSeq(data, FirstFend(data) + 1, Len(data))

Space == RX_STREAM_SIZE - Len(rx_stream)

\* Bytes of the tail there is no room for.
Dropped(data) ==
  LET rest == AfterResync(data)
  IN  IF Len(rest) > Space THEN Len(rest) - Space ELSE 0

\* Mutant: the space in the stream is not looked at.
RxStreamSendAll(data) ==
  /\ rx_stream' = rx_stream \o AfterResync(data)
  /\ s_rx_resync' = (s_rx_resync /\ FirstFend(data) = 0)
  /\ UNCHANGED torn

RxStreamSend(data) ==
  LET rest == AfterResync(data)
      full == Dropped(data) > 0
  IN  /\ rx_stream' = rx_stream \o SubSeq(rest, 1, Len(rest) - Dropped(data))
      /\ s_rx_resync' = (full \/ (s_rx_resync /\ FirstFend(data) = 0))
      /\ torn' = IF full THEN torn + 1 ELSE torn
-----------------------------------------------------------------------------
\* A GATT write carries the next bytes, whatever frames they belong to.
GattWrite ==
  \E n \in 1..MaxWrite :
    /\ written + n <= Len(Line)
    /\ LET chunk == SubSeq(Line, written + 1, written + n)
       IN  /\ RxStreamSend(chunk)
           /\ hurt' = hurt \union
                {Owner[p] : p \in (written + n - Dropped(chunk) + 1)..(written + n)}
    /\ written' = written + n
    /\ UNCHANGED <<kiss, handled, sunk, replied, abandoned>>

\* The central disconnects inside a frame and starts anew with the next one.
Leave ==
  /\ written \in 1..Len(Line) - 1
  /\ Owner[written] = Owner[written + 1]
  /\ Cardinality(abandoned) < MaxLeave
  /\ abandoned' = abandoned \union {Owner[written]}
  /\ written' = Cardinality({p \in DOMAIN Line : Owner[p] <= Owner[written]})
  /\ UNCHANGED <<rx_stream, s_rx_resync, kiss, handled, sunk, replied, torn, hurt>>

\* ble_rx_task: ble_read, kiss_rx_byte and handle_frame.
BleRx ==
  /\ rx_stream # <<>>
  /\ rx_stream' = Tail(rx_stream)
  /\ kiss' = RxByte(kiss, Head(rx_stream))
  /\ LET frame == RxFrame(kiss, Head(rx_stream))
     IN  /\ handled' = handled \o frame
         /\ sunk' = IF frame = <<>> THEN sunk ELSE sunk \o Payload(frame[1])
         /\ replied' = IF frame = <<>> THEN replied ELSE replied \o Reply(frame[1])
  /\ UNCHANGED <<written, s_rx_resync, torn, hurt, abandoned>>

Next == GattWrite \/ Leave \/ BleRx

Spec == Init /\ [][Next]_vars
-----------------------------------------------------------------------------
TypeOK ==
  /\ written \in 0..Len(Line)
  /\ rx_stream \in Seq(Byte) /\ Len(rx_stream) <= RX_STREAM_SIZE
  /\ s_rx_resync \in BOOLEAN
  /\ kiss \in [rx_frame : Seq(Byte), in_frame : BOOLEAN, escape : BOOLEAN,
               rx_overflow : BOOLEAN]
  /\ Len(kiss.rx_frame) <= KISS_FRAME_MAX
  /\ handled \in Seq(Seq(Byte)) /\ sunk \in Seq(Seq(Byte))
  /\ replied \in Seq(Seq(Byte))
  /\ torn \in Nat /\ hurt \union abandoned \subseteq DOMAIN Frames

Fits(frame) == Len(frame) <= KISS_FRAME_MAX
Done == written = Len(Line) /\ rx_stream = <<>>

\* Of the first n frames those that fit, in order.
Intact(n) ==
  FlattenSeq([i \in 1..n |-> IF Fits(Frames[i]) THEN <<Frames[i]>> ELSE <<>>])

\* The number of frames written to their end.
Whole == IF written < Len(Line) THEN Owner[written + 1] - 1 ELSE Len(Frames)

(* As long as the stream never was full and no central left inside a frame, *)
(* the frames handled are those written, in order and byte for byte, except *)
(* the ones longer than KISS_FRAME_MAX, which are dropped whole (kiss.h,    *)
(* rx_overflow); none waits for the next; packets go to the switch,         *)
(* configurations are echoed.                                               *)
IntactWhenUntorn ==
  torn = 0 /\ abandoned = {} =>
    /\ IsPrefix(handled, Intact(Whole))
    /\ rx_stream = <<>> => handled = Intact(Whole)
    /\ sunk = FlattenSeq([i \in DOMAIN handled |-> Payload(handled[i])])
    /\ replied = FlattenSeq([i \in DOMAIN handled |-> Reply(handled[i])])

Bogus == {i \in DOMAIN handled : \A j \in DOMAIN Frames : handled[i] # Frames[j]}
Lost  == {j \in DOMAIN Frames :
            Fits(Frames[j]) /\ \A i \in DOMAIN handled : handled[i] # Frames[j]}

(* A full stream or a disconnect inside a frame does bounded damage: each   *)
(* yields at most one frame the central never sent, and besides the frames  *)
(* a dropped tail or the disconnect cuts into, a frame is lost only behind  *)
(* one of those, and only one for each time the stream was full.            *)
DamageBounded ==
  LET cut == hurt \union abandoned
  IN  /\ Cardinality(Bogus) <= torn + Cardinality(abandoned)
      /\ Done => /\ \A j \in Lost \ cut : j - 1 \in cut
                 /\ Cardinality(Lost \ cut) <= torn
-----------------------------------------------------------------------------
(* Said of this code and not so: each is refuted (README, Divergences).     *)

(* ble.c:192-193, "dropping whole frame tails (never a silent mid-frame     *)
(* splice) when the stream is full": while no central leaves inside a       *)
(* frame, every frame handled is one that a central wrote.                  *)
OnlyWholeFrames == abandoned = {} => Bogus = {}
=============================================================================
