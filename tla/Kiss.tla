-------------------------------- MODULE Kiss --------------------------------
(***************************************************************************)
(* KISS framing as kiss.c does it: the encoder of send_kiss, the receiver  *)
(* that is fed one byte at a time, and the replies of handle_frame.  Bytes *)
(* are the members of Byte; a frame is its command byte and its payload.   *)
(***************************************************************************)
EXTENDS Naturals, Sequences, SequencesExt

CONSTANTS
  Byte,                        (* byte values, as model values              *)
  FEND, FESC, TFEND, TFESC,    (* the reserved bytes                        *)
  CMD_DATA,                    (* command of a frame that carries a packet  *)
  CMD_CONFIG,                  (* stands for the five commands echoed whole *)
  KISS_FRAME_MAX               (* room for command and payload              *)

KissAssumption ==
  /\ {FEND, FESC, TFEND, TFESC, CMD_DATA, CMD_CONFIG} \subseteq Byte
  /\ {FEND, FESC} \intersect {TFEND, TFESC, CMD_DATA, CMD_CONFIG} = {}
  /\ FEND # FESC /\ TFEND # TFESC /\ CMD_DATA # CMD_CONFIG
  /\ KISS_FRAME_MAX \in Nat \ {0}

\* send_kiss: the command is no reserved byte and is sent as it is.
EncodeByte(b) ==
  CASE b = FEND -> <<FESC, TFEND>>
    [] b = FESC -> <<FESC, TFESC>>
    [] OTHER    -> <<b>>

Encode(frame) ==
  <<FEND>> \o FlattenSeq([i \in DOMAIN frame |-> EncodeByte(frame[i])]) \o <<FEND>>

\* kiss_init.
EmptyParser ==
  [rx_frame |-> <<>>, in_frame |-> FALSE, escape |-> FALSE, rx_overflow |-> FALSE]

Unescape(b) ==
  CASE b = TFEND -> FEND
    [] b = TFESC -> FESC
    [] OTHER     -> b

Store(k, b) ==
  IF Len(k.rx_frame) < KISS_FRAME_MAX
  THEN [k EXCEPT !.rx_frame = Append(@, b), !.escape = FALSE]
  ELSE [k EXCEPT !.rx_overflow = TRUE, !.escape = FALSE]

\* Mutant: FEND does not end the overflow of the frame before.
RxByteKeepsOverflow(k, b) ==
  CASE b = FEND -> [EmptyParser EXCEPT !.in_frame = TRUE, !.rx_overflow = k.rx_overflow]
    [] b # FEND /\ (~k.in_frame \/ k.rx_overflow) -> k
    [] b = FESC /\ k.in_frame /\ ~k.rx_overflow -> [k EXCEPT !.escape = TRUE]
    [] OTHER -> Store(k, IF k.escape THEN Unescape(b) ELSE b)

\* kiss_rx_byte: the parser after the byte, and the frame it handles.
RxByte(k, b) ==
  CASE b = FEND -> [EmptyParser EXCEPT !.in_frame = TRUE]
    [] b # FEND /\ (~k.in_frame \/ k.rx_overflow) -> k
    [] b = FESC /\ k.in_frame /\ ~k.rx_overflow -> [k EXCEPT !.escape = TRUE]
    [] OTHER -> Store(k, IF k.escape THEN Unescape(b) ELSE b)

RxFrame(k, b) ==
  IF b = FEND /\ ~k.rx_overflow /\ k.in_frame /\ k.rx_frame # <<>>
  THEN <<k.rx_frame>> ELSE <<>>

\* handle_frame: a data frame goes to the data callback without its command,
\* a configuration frame is answered with itself.  The other commands are
\* answered with constants.
Payload(frame) == IF Head(frame) = CMD_DATA THEN <<Tail(frame)>> ELSE <<>>
Reply(frame)   == IF Head(frame) = CMD_CONFIG THEN <<frame>> ELSE <<>>
=============================================================================
