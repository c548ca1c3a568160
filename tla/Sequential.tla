----------------------------- MODULE Sequential -----------------------------
(***************************************************************************)
(* With the parts of Inputs and Pages, the gzip decoder.  A behaviour runs *)
(* one part.                                                               *)
(***************************************************************************)
EXTENDS Inputs, Pages

CONSTANTS
  ByteBits, MaxBits, LenBase, LenExtra, DistBase,       (* Inflate          *)
  DistExtra, Beyond, FixedLit, FixedDist, CodeOrder,
  HlitBits, HdistBits, HclenBits, ClBits, MaxCodes,
  OutCap, Streams

VARIABLES
  stream, in, s, step, last, dyn, lit, dist             (* Inflate          *)

Decoder == INSTANCE Inflate WITH at <- step

ASSUME SequentialAssumption == Decoder!InflateAssumption

decoderVars ==
  <<stream, in, s, step, last, dyn, lit, dist>>
sequentialVars == <<part, inputVars, pageVars, decoderVars>>

\* A part that does not run keeps every variable of it at 0.
DecoderOut ==
  /\ stream = 0 /\ in = 0 /\ s = 0 /\ step = 0
  /\ last = 0 /\ dyn = 0 /\ lit = 0 /\ dist = 0

SequentialInit ==
  /\ part \in {"deframer", "slip", "button", "panel", "battery",
               "web", "relay", "portal", "kiss", "inflate"}
  /\ InputsInit /\ PagesInit
  /\ IF Runs("inflate") THEN Decoder!Init ELSE DecoderOut

SequentialNext ==
  \/ InputsNext /\ UNCHANGED <<pageVars, decoderVars>>
  \/ PagesNext /\ UNCHANGED <<inputVars, decoderVars>>
  \/ /\ Runs("inflate") /\ Decoder!Next
     /\ UNCHANGED <<part, inputVars, pageVars>>

SequentialSpec == SequentialInit /\ [][SequentialNext]_sequentialVars
-----------------------------------------------------------------------------
(* Inflate: what was compressed comes out as it was, and a stream cut short *)
(* or too long for the buffer is never called good (gzip_inflate.c).        *)
PageUnpacked ==
  Runs("inflate") => Decoder!RoundTrip /\ Decoder!FailuresReported

(* Inflate: every step consumes, writes or ends a loop, so that no bits can *)
(* make the decoder spin (gzip_inflate.c).                                  *)
AlwaysAdvances == [][Runs("inflate") => Decoder!Advances]_sequentialVars
=============================================================================
