---------------------------- MODULE MCSequential ----------------------------
(* Values for TLC: small alphabets, in which every reserved byte and what   *)
(* masks it is there.                                                       *)
EXTENDS Sequential, DeflateReference, TLC

CONSTANTS
  letter,                                               (* any other byte   *)
  data, config, byteA, byteB, byteC,                    (* in KISS frames   *)
  lt, body, gt                                          (* of a page's tag  *)

\* Two bytes are reserved, and their masked forms are ordinary bytes.
Swap(x, y) == (x :> y) @@ (y :> x)
MCMasked ==
  Swap(HDLC_FLAG, SLIP_ESC_END) @@ Swap(HDLC_ESC, SLIP_ESC_ESC) @@ (letter :> letter)

\* Frames that are no splice of one another, with both escapes, one that is
\* echoed and one that is too long.
MCFrames ==
  <<<<data, byteA, byteB, byteC, byteA>>, <<config, FESC>>,
    <<data, byteA, FEND>>, <<data, byteB, byteC>>>>

\* Datagrams with both reserved bytes, and with the bytes that mask them.
MCDatagram ==
  {<<SLIP_END, SLIP_ESC_ESC>>, <<SLIP_ESC, SLIP_ESC_END>>, <<SLIP_ESC_ESC>>}

MCTag == <<lt, body, gt>>
=============================================================================
