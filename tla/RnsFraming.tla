----------------------------- MODULE RnsFraming -----------------------------
(***************************************************************************)
(* The HDLC framing of rns_framing.c: an encoder over whole packets and a  *)
(* deframer fed one byte at a time.  Bytes are the members of Byte, among  *)
(* them the two reserved ones; Masked is the exclusive-or with HDLC_MASK.  *)
(***************************************************************************)
EXTENDS Naturals, Sequences, SequencesExt

CONSTANTS
  Byte,                    (* byte values, as model values                  *)
  HDLC_FLAG, HDLC_ESC,     (* the reserved bytes                            *)
  Masked,                  (* b |-> b ^ HDLC_MASK, an involution on Byte    *)
  RNS_FRAMING_MAX_PACKET   (* room in the deframer's buffer                 *)

ASSUME FramingAssumption ==
  /\ {HDLC_FLAG, HDLC_ESC} \subseteq Byte
  /\ HDLC_FLAG # HDLC_ESC
  /\ Masked \in [Byte -> Byte]
  /\ \A b \in Byte : Masked[Masked[b]] = b
  /\ \A b \in {HDLC_FLAG, HDLC_ESC} : Masked[b] \notin {HDLC_FLAG, HDLC_ESC}
  /\ RNS_FRAMING_MAX_PACKET \in Nat \ {0}

Reserved == {HDLC_FLAG, HDLC_ESC}

\* Mutant: reserved bytes are sent as they are.
EncodeByteRaw(b) == <<b>>

\* rns_framing_encode into a buffer that is large enough (every caller passes
\* twice the longest packet plus 4).
EncodeByte(b) == IF b \in Reserved THEN <<HDLC_ESC, Masked[b]>> ELSE <<b>>
Encode(packet) ==
  <<HDLC_FLAG>> \o FlattenSeq([i \in DOMAIN packet |-> EncodeByte(packet[i])])
    \o <<HDLC_FLAG>>

\* rns_framing_init and rns_framing_rx_reset.
EmptyDeframer == [buf |-> <<>>, escaped |-> FALSE]

\* A byte beyond the buffer is dropped, the frame goes on.
Store(f, b) ==
  [buf |-> IF Len(f.buf) < RNS_FRAMING_MAX_PACKET THEN Append(f.buf, b) ELSE f.buf,
   escaped |-> FALSE]

\* rns_framing_rx_byte: the deframer after the byte, and what it hands to the
\* frame callback.
RxByte(f, b) ==
  CASE b = HDLC_FLAG -> EmptyDeframer
    [] b # HDLC_FLAG /\ f.escaped -> Store(f, Masked[b])
    [] b = HDLC_ESC /\ ~f.escaped -> [f EXCEPT !.escaped = TRUE]
    [] OTHER -> Store(f, b)

RxFrame(f, b) ==
  IF b = HDLC_FLAG /\ f.buf # <<>> THEN <<f.buf>> ELSE <<>>
=============================================================================
