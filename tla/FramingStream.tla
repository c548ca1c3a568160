---------------------------- MODULE FramingStream ---------------------------
(***************************************************************************)
(* Both ends of one framed byte stream: a sender that encodes packets one  *)
(* after the other, a receiver that joins the stream at its start or       *)
(* somewhere later, and the deframer that makes packets of it again.       *)
(***************************************************************************)
EXTENDS RnsFraming

CONSTANTS
  MaxFrames,     (* bound: packets in a stream                              *)
  MaxFrameLen    (* bound: bytes of a packet                                *)

Frame == UNION {[1..n -> Byte] : n \in 1..MaxFrameLen}

VARIABLES
  frames,     (* packets the sender encodes                                 *)
  joined,     (* bytes of the stream that went by before the receiver       *)
  stream,     (* bytes still to be received                                 *)
  deframer,   (* the receiver's rns_framing_t                               *)
  received    (* packets handed to the frame callback                       *)

vars == <<frames, joined, stream, deframer, received>>

Encoded(fs) == FlattenSeq([i \in DOMAIN fs |-> Encode(fs[i])])

Init ==
  /\ frames \in UNION {[1..n -> Frame] : n \in 1..MaxFrames}
  /\ joined \in 0..Len(Encode(frames[1]))
  /\ stream = SubSeq(Encoded(frames), joined + 1, Len(Encoded(frames)))
  /\ deframer = EmptyDeframer
  /\ received = <<>>

Receive ==
  /\ stream # <<>>
  /\ deframer' = RxByte(deframer, Head(stream))
  /\ received' = received \o RxFrame(deframer, Head(stream))
  /\ stream' = Tail(stream)
  /\ UNCHANGED <<frames, joined>>

Next == Receive

Spec == Init /\ [][Next]_vars
-----------------------------------------------------------------------------
Cut(p) == SubSeq(p, 1, IF Len(p) < RNS_FRAMING_MAX_PACKET THEN Len(p)
                       ELSE RNS_FRAMING_MAX_PACKET)

TypeOK ==
  /\ deframer \in [buf : Seq(Byte), escaped : BOOLEAN]
  /\ Len(deframer.buf) <= RNS_FRAMING_MAX_PACKET
  /\ received \in Seq(Seq(Byte))

(* A receiver that sees the whole stream gets the packets that were sent,   *)
(* escapes undone, none merged, split or invented; a packet longer than the *)
(* buffer arrives cut to RNS_FRAMING_MAX_PACKET bytes.                      *)
RoundTrip ==
  joined = 0 /\ stream = <<>> =>
    received = [i \in DOMAIN frames |-> Cut(frames[i])]

(* A receiver that joins inside the first packet gets every later packet:   *)
(* the framing resynchronises at the next flag, with at most one bogus      *)
(* frame, the tail of the packet it joined in.                              *)
Resynchronises ==
  stream = <<>> =>
    LET later == [i \in 1..(Len(frames) - 1) |-> Cut(frames[i + 1])]
    IN  /\ IsSuffix(later, received)
        /\ Len(received) <= Len(later) + 1
=============================================================================
