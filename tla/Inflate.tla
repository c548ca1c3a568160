------------------------------- MODULE Inflate ------------------------------
(***************************************************************************)
(* The decoder of compressed pages (gzip_inflate.c), one block or one      *)
(* decoded symbol per step.  The sizes of the format are constants, so     *)
(* that a byte may have two bits and the alphabet a handful of symbols;    *)
(* the bits themselves are kept, as what happens when they run out in the  *)
(* middle of a code is the point.  Left out: the gzip header (the stream   *)
(* is the raw one behind it).                                              *)
(***************************************************************************)
EXTENDS Integers, Sequences, FiniteSets, FiniteSetsExt, SequencesExt

CONSTANTS
  ByteBits,             (* 8                                                *)
  MaxBits,              (* INF_MAXBITS                                      *)
  LenBase, LenExtra,    (* LEN_BASE, LEN_EXTRA                              *)
  DistBase, DistExtra,  (* DIST_BASE, DIST_EXTRA                            *)
  Beyond,               (* what may stand behind both: [base, extra]        *)
  FixedLit, FixedDist,  (* code lengths of inflate_fixed                    *)
  CodeOrder,            (* CODE_ORDER                                       *)
  HlitBits, HdistBits, HclenBits, ClBits,  (* header fields: 5, 5, 4, 3     *)
  MaxCodes,             (* INF_MAXCODES                                     *)
  OutCap,               (* size of the output buffer                        *)
  Streams               (* compressed streams: [bits, plain, wellformed]    *)

InflateAssumption ==
  /\ ByteBits \in Nat \ {0} /\ MaxBits \in Nat \ {0} /\ OutCap \in Nat
  /\ Len(DistBase) = Len(DistExtra)

Literals == 2 ^ ByteBits
EndOfBlock == Literals

VARIABLES
  stream,     (* what was compressed                                        *)
  in,         (* the bits received: the stream or a head of it              *)
  s,          (* inf_state_t: bits consumed, output, error                  *)
  at,         (* the loop of gzip_inflate, of inflate_codes, or done        *)
  last,       (* the final block is being decoded                           *)
  dyn,        (* inflate_dynamic: its table, the lengths read, how many     *)
  lit, dist   (* the tables of inflate_codes                                *)

vars == <<stream, in, s, at, last, dyn, lit, dist>>

NoTable == [counts |-> <<>>, symbols |-> <<>>]
NoDynamic == [cl |-> NoTable, lengths |-> <<>>, hlit |-> 0, n |-> 0]
-----------------------------------------------------------------------------
(* Bits and codes.  A read returns the state after it and a value.          *)

Value(bits) == FoldRight(LAMBDA b, v : b + 2 * v, bits, 0)

\* inf_getbits: past the end a zero, which the callers go on with; what is
\* left of the input stays for a shorter read.
Getbits(st, n) ==
  IF st.pos + n > Len(in)
  THEN [st |-> [st EXCEPT !.error = TRUE], v |-> 0]
  ELSE [st |-> [st EXCEPT !.pos = @ + n], v |-> Value(SubSeq(in, st.pos + 1, st.pos + n))]

\* k reads of n bits each.
GetbitsTimes(st, n, k) ==
  LET there == (Len(in) - st.pos) \div n
      read == IF k <= there THEN k ELSE there
  IN [st |-> [st EXCEPT !.pos = @ + read * n, !.error = @ \/ read < k],
      v  |-> [i \in 1..k |-> Getbits([st EXCEPT !.pos = @ + (i - 1) * n], n).v]]

\* huff_build: how many codes of each length, and the symbols in the order
\* of their codes, each i standing for the symbol i - 1.
Build(lengths) ==
  LET used == {i \in DOMAIN lengths : lengths[i] # 0}
      before(i, j) == lengths[i] < lengths[j] \/ (lengths[i] = lengths[j] /\ i < j)
  IN [counts  |-> [l \in 1..MaxBits |-> Cardinality({i \in used : lengths[i] = l})],
      symbols |-> [p \in 1..Cardinality(used) |->
                     CHOOSE i \in used : Cardinality({j \in used : before(j, i)}) = p - 1]]

NoSymbol == -1

\* huff_decode: bits are taken one by one until they are below the last code
\* of their length; first is the first code of a length, index its place.
HuffDecode(st, h) ==
  LET bits == GetbitsTimes(st, 1, MaxBits).v
      code(len) == Value(Reverse(SubSeq(bits, 1, len)))
      before(len, w(_)) == FoldSet(LAMBDA k, sum : sum + w(k), 0, 1..(len - 1))
      first(len) == before(len, LAMBDA k : h.counts[k] * 2 ^ (len - k))
      index(len) == before(len, LAMBDA k : h.counts[k])
      below == {len \in 1..MaxBits : code(len) - first(len) < h.counts[len]}
      len == Min(below)
  IN IF below = {}
     THEN [st |-> [GetbitsTimes(st, 1, MaxBits).st EXCEPT !.error = TRUE], v |-> NoSymbol]
     ELSE [st |-> GetbitsTimes(st, 1, len).st,
           v  |-> h.symbols[index(len) + code(len) - first(len) + 1] - 1]

\* inf_need
Need(st, extra) == Len(st.out) + extra <= OutCap
-----------------------------------------------------------------------------
Init ==
  /\ stream \in Streams
  /\ \E bytes \in 0..(Len(stream.bits) \div ByteBits) :
       in = SubSeq(stream.bits, 1, bytes * ByteBits)
  /\ s = [pos |-> 0, out |-> <<>>, error |-> FALSE]
  /\ at = "block" /\ last = FALSE
  /\ dyn = NoDynamic /\ lit = NoTable /\ dist = NoTable

\* A function of the decoder failed: the loop ends.
Fail(st) == s' = [st EXCEPT !.error = TRUE] /\ at' = "done"

\* Only the last block ends the loop.
BlockEndsAnyway(st) == s' = st /\ at' = IF last' THEN "done" ELSE "block"

\* A block ended: the loop ends after the last one, or when an error was
\* noted on the way.
BlockEnds(st) == s' = st /\ at' = IF last' \/ st.error THEN "done" ELSE "block"

\* inflate_stored: the rest of the byte is dropped, then come the length,
\* its complement (not looked at) and the bytes.
StoredBlock(st0) ==
  LET start == ((st0.pos + ByteBits - 1) \div ByteBits) * ByteBits
      byte(i) == Value(SubSeq(in, start + i * ByteBits + 1, start + (i + 1) * ByteBits))
      len == byte(0) + Literals * byte(1)
      taken == IF len <= OutCap - Len(st0.out) THEN len ELSE OutCap - Len(st0.out)
      st == [st0 EXCEPT !.pos = start + (4 + taken) * ByteBits,
                        !.out = @ \o [i \in 1..taken |-> byte(3 + i)]]
  IN /\ IF start + 4 * ByteBits > Len(in) THEN Fail(st0)
        ELSE IF start + (4 + len) * ByteBits > Len(in) THEN Fail(st0)
        ELSE IF taken < len THEN Fail(st)
        ELSE BlockEnds(st)
     /\ UNCHANGED <<dyn, lit, dist>>

FixedBlock(st) ==
  /\ lit' = Build(FixedLit)
  /\ dist' = Build(FixedDist)
  /\ s' = st /\ at' = "codes"
  /\ UNCHANGED dyn

\* inflate_dynamic, up to the table the code lengths are written in.
DynamicBlock(st) ==
  LET a == Getbits(st, HlitBits)
      b == Getbits(a.st, HdistBits)
      c == Getbits(b.st, HclenBits)
      hlit == a.v + Literals + 1
      n == hlit + b.v + 1
      cls == GetbitsTimes(c.st, ClBits, c.v + 4)
      lengths == [l \in DOMAIN CodeOrder |->
                    LET i == CHOOSE i \in DOMAIN CodeOrder : CodeOrder[i] + 1 = l
                    IN IF i <= c.v + 4 THEN cls.v[i] ELSE 0]
  IN /\ IF n > MaxCodes
        THEN Fail(cls.st) /\ UNCHANGED dyn
        ELSE /\ dyn' = [cl |-> Build(lengths), lengths |-> <<>>, hlit |-> hlit, n |-> n]
             /\ s' = cls.st /\ at' = "lengths"
     /\ UNCHANGED <<lit, dist>>

\* inflate_block
Block ==
  /\ at = "block"
  /\ LET final == Getbits(s, 1)
         type  == Getbits(final.st, 2)
     IN /\ last' = (final.v = 1)
        /\ \/ type.v = 0 /\ StoredBlock(type.st)
           \/ type.v = 1 /\ FixedBlock(type.st)
           \/ type.v = 2 /\ DynamicBlock(type.st)
           \/ type.v = 3 /\ Fail(type.st) /\ UNCHANGED <<dyn, lit, dist>>
  /\ UNCHANGED <<stream, in>>

\* A run is not cut at the end of the table.
AppendedUncut(v, count) == dyn.lengths \o [i \in 1..count |-> v]

\* The lengths with count more; a run is cut at the end of the table.
Appended(v, count) ==
  dyn.lengths \o [i \in 1..Min({count, dyn.n - Len(dyn.lengths)}) |-> v]

\* inflate_dynamic, one symbol of the code lengths: symbols up to MaxBits
\* are lengths, the next three repeat the last one or zero.
Lengths ==
  /\ at = "lengths"
  /\ LET g == HuffDecode(s, dyn.cl)
         run(v, base, bits) ==
           /\ dyn' = [dyn EXCEPT !.lengths = Appended(v, base + Getbits(g.st, bits).v)]
           /\ s' = Getbits(g.st, bits).st
           /\ UNCHANGED at
     IN /\ Len(dyn.lengths) < dyn.n
        /\ \/ g.v = NoSymbol /\ Fail(g.st) /\ UNCHANGED dyn
           \/ /\ g.v \in 0..MaxBits
              /\ dyn' = [dyn EXCEPT !.lengths = Appended(g.v, 1)]
              /\ s' = g.st /\ UNCHANGED at
           \/ /\ g.v = MaxBits + 1
              /\ IF dyn.lengths = <<>> THEN Fail(g.st) /\ UNCHANGED dyn
                 ELSE run(Last(dyn.lengths), 3, 2)
           \/ g.v = MaxBits + 2 /\ run(0, 3, 3)
           \/ g.v = MaxBits + 3 /\ run(0, 11, 7)
  /\ UNCHANGED <<stream, in, last, lit, dist>>

LengthsEnd ==
  /\ at = "lengths" /\ Len(dyn.lengths) = dyn.n
  /\ lit' = Build(SubSeq(dyn.lengths, 1, dyn.hlit))
  /\ dist' = Build(SubSeq(dyn.lengths, dyn.hlit + 1, dyn.n))
  /\ dyn' = NoDynamic
  /\ at' = "codes"
  /\ UNCHANGED <<stream, in, s, last>>

\* A match takes the bytes as they were before it, and no further.
CopiedAtOnce(out, length, distance) ==
  out \o [i \in 1..length |-> IF i <= distance THEN out[Len(out) - distance + i] ELSE 0]

\* The copy goes byte by byte: a match may take what it has just written.
Copied(out, length, distance) ==
  LET byte[i \in 1..(Len(out) + length)] ==
        IF i <= Len(out) THEN out[i] ELSE byte[i - distance]
  IN [i \in 1..(Len(out) + length) |-> byte[i]]

\* A dynamic block may use two distance symbols more than the tables have:
\* they are read from what stands behind.
Distance(sym) ==
  IF sym < Len(DistBase) THEN {[base |-> DistBase[sym + 1], extra |-> DistExtra[sym + 1]]}
  ELSE Beyond

\* Over no distance the bytes not yet written are copied onto themselves.
Copies(out, length, distance) ==
  IF distance = 0 THEN {out \o stale : stale \in [1..length -> 0..(Literals - 1)]}
  ELSE {Copied(out, length, distance)}

\* A match: its length and distance, then the copy.  One that reaches back
\* before the output ends the block without an error.
Match(st, sym) ==
  LET l == Getbits(st, LenExtra[sym])
      length == LenBase[sym] + l.v
      d == HuffDecode(l.st, dist)
  IN IF sym > Len(LenBase) THEN Fail(st)
     ELSE IF d.v = NoSymbol THEN Fail(d.st)
     ELSE \E entry \in Distance(d.v) :
       LET e == Getbits(d.st, entry.extra)
           distance == entry.base + e.v
       IN IF ~Need(e.st, length) THEN Fail(e.st)
          ELSE IF distance > Len(s.out) THEN s' = e.st /\ at' = "done"
          ELSE /\ \E out \in Copies(s.out, length, distance) : s' = [e.st EXCEPT !.out = out]
               /\ at' = "codes"

\* inflate_codes, one symbol.
Codes ==
  /\ at = "codes"
  /\ LET g == HuffDecode(s, lit) IN
     \/ g.v = NoSymbol /\ Fail(g.st)
     \/ g.v = EndOfBlock /\ last' = last /\ BlockEnds(g.st)
     \/ /\ g.v \in 0..(Literals - 1)
        /\ IF Need(g.st, 1)
           THEN s' = [g.st EXCEPT !.out = Append(@, g.v)] /\ at' = "codes"
           ELSE Fail(g.st)
     \/ g.v > EndOfBlock /\ Match(g.st, g.v - EndOfBlock)
  /\ UNCHANGED <<stream, in, last, dyn, lit, dist>>

Next == Block \/ Lengths \/ LengthsEnd \/ Codes
Spec == Init /\ [][Next]_vars
-----------------------------------------------------------------------------
(* Correctness.                                                             *)

Whole == in = stream.bits
Fits == Len(stream.plain) <= OutCap

\* Type invariant: no more bits are consumed than received, no more bytes
\* written than there is room for.
TypeOK ==
  /\ s.pos \in 0..Len(in) /\ s.error \in BOOLEAN
  /\ Len(s.out) <= OutCap
  /\ \A i \in DOMAIN s.out : s.out[i] \in 0..(Literals - 1)
  /\ at \in {"block", "lengths", "codes", "done"}
  /\ Len(dyn.lengths) <= dyn.n /\ last \in BOOLEAN

\* What a compressor wrote, in stored, fixed or dynamic blocks, comes out as
\* it was, and is called good.
RoundTrip ==
  at = "done" /\ Whole /\ Fits /\ stream.wellformed => s.out = stream.plain /\ ~s.error

\* A stream cut short, or one too long for the buffer, is never called good:
\* the web proxy passes it on compressed rather than serve half a page.
FailuresReported ==
  at = "done" /\ stream.wellformed /\ (~Whole \/ ~Fits) => s.error

\* The decoder cannot spin, though it goes on decoding when the bits have run
\* out: every step consumes input, writes output, reads a code length, or ends
\* a loop that cannot be entered again without new input.
Advances ==
  \/ at' = "done"
  \/ s'.pos > s.pos
  \/ Len(s'.out) > Len(s.out)
  \/ Len(dyn'.lengths) > Len(dyn.lengths)
  \/ at = "lengths" /\ at' = "codes"

AlwaysAdvances == [][Advances]_vars
-----------------------------------------------------------------------------
(* Said of this code and not so: each is refuted (README, Divergences).     *)

\* gzip_inflate.c: "the prefix written before the error is valid data".
PrefixValid == at = "done" /\ stream.wellformed => IsPrefix(s.out, stream.plain)
=============================================================================
