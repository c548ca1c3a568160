---------------------------- MODULE MCHalowLink -----------------------------
(* HalowLink for TLC: the alphabet of MCSequential and two radio packets none  *)
(* of whose proper prefixes or splices is one of them.                      *)
EXTENDS HalowLink

CONSTANTS flag, esc, flagMasked, escMasked, letter

MCMasked ==
  [b \in Byte |->
     CASE b = flag       -> flagMasked
       [] b = flagMasked -> flag
       [] b = esc        -> escMasked
       [] b = escMasked  -> esc
       [] b = letter     -> letter]

MCRadioFrame == <<<<letter, flag>>, <<esc, letter>>>>
=============================================================================
