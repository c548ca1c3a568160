------------------------- MODULE DeflateReference ---------------------------
(***************************************************************************)
(* Compressed streams for the decoder, written from the definition of the  *)
(* format: a canonical code word is the number of code words before it,    *)
(* weighted by their lengths; a match stands for the bytes it repeats.     *)
(***************************************************************************)
EXTENDS Integers, Sequences, FiniteSets, FiniteSetsExt, SequencesExt

\* A byte of two bits, codes of up to three bits: four literals, the end of
\* a block, one match length symbol and one symbol nobody may use.
MCLenBase == <<2>>
MCLenExtra == <<1>>
MCDistBase == <<1, 2>>
MCDistExtra == <<0, 1>>
MCBeyond == {[base |-> 0, extra |-> 0], [base |-> 1, extra |-> 1]}
MCFixedLit == <<3, 3, 3, 3, 2, 3, 3>>
MCFixedDist == <<1, 1>>
MCCodeOrder == <<4, 5, 6, 0, 2, 1, 3>>
Bytes == 0..3
End == 4
MatchSym == 5
Unusable == 6

Lowest(v, n) == [i \in 1..n |-> (v \div 2^(i - 1)) % 2]
Highest(v, n) == [i \in 1..n |-> (v \div 2^(n - i)) % 2]

\* The code word of symbol sym, its first bit first.
CodeWord(lengths, sym) ==
  LET l == lengths[sym + 1]
      before == {i \in DOMAIN lengths : /\ lengths[i] # 0
                                        /\ lengths[i] < l \/ (lengths[i] = l /\ i <= sym)}
  IN Highest(FoldSet(LAMBDA i, v : v + 2^(l - lengths[i]), 0, before), l)

(* Tokens of a block: literals, and matches of a length over a distance.    *)
Tokens == {[lit |-> b, len |-> 0, dist |-> 0] : b \in {0, 1}}
            \cup {[lit |-> 0, len |-> l, dist |-> d] : l \in {3}, d \in {1, 3}}

Meaning(out, t) ==
  IF t.len = 0 THEN Append(out, t.lit)
  ELSE LET period == SubSeq(out, Len(out) - t.dist + 1, Len(out))
       IN out \o [i \in 1..t.len |-> period[((i - 1) % t.dist) + 1]]

Sound(ts) == \A i \in DOMAIN ts : ts[i].dist <=
  FoldLeft(LAMBDA n, t : n + IF t.len = 0 THEN 1 ELSE t.len, 0, SubSeq(ts, 1, i - 1))

TokenBits(t, litCode, distCode) ==
  IF t.len = 0 THEN CodeWord(litCode, t.lit)
  ELSE CodeWord(litCode, MatchSym) \o Lowest(t.len - 2, 1)
       \o IF t.dist = 1 THEN CodeWord(distCode, 0)
          ELSE CodeWord(distCode, 1) \o Lowest(t.dist - 2, 1)

BodyBits(ts, litCode, distCode) ==
  FlattenSeq([i \in DOMAIN ts |-> TokenBits(ts[i], litCode, distCode)]) \o CodeWord(litCode, End)

(* Dynamic tables: the lengths of both codes, the code they are written in, *)
(* and how: symbol, extra bits and their number.                            *)
Plain(sym) == [sym |-> sym, extra |-> 0, bits |-> 0]
Tables == <<
  [lit |-> <<1, 3, 0, 0, 2, 3>>, dist |-> <<1, 1>>, cl |-> <<2, 2, 2, 2, 0, 0, 0>>,
   run |-> <<Plain(1), Plain(3), Plain(0), Plain(0), Plain(2), Plain(3), Plain(1), Plain(1)>>],
  [lit |-> <<2, 0, 0, 0, 1, 2>>, dist |-> <<1, 1>>, cl |-> <<0, 1, 2, 0, 0, 2, 0>>,
   run |-> <<Plain(2), [sym |-> 5, extra |-> 0, bits |-> 3], Plain(1), Plain(2), Plain(1), Plain(1)>>],
  [lit |-> <<3, 3, 3, 3, 2, 2>>, dist |-> <<1, 1>>, cl |-> <<0, 2, 2, 2, 2, 0, 0>>,
   run |-> <<Plain(3), [sym |-> 4, extra |-> 0, bits |-> 2], Plain(2), Plain(2), Plain(1), Plain(1)>>]>>

\* hlit 6, hdist 2 or more, hclen 7.
TableBits(t) ==
  Lowest(1, 2) \o Lowest(Len(t.dist) - 1, 2) \o Lowest(3, 2)
    \o FlattenSeq([i \in 1..7 |-> Lowest(t.cl[MCCodeOrder[i] + 1], 2)])
    \o FlattenSeq([i \in DOMAIN t.run |-> CodeWord(t.cl, t.run[i].sym)
                                           \o Lowest(t.run[i].extra, t.run[i].bits)])

\* A block: its kind (stored, fixed, or a dynamic table by its number) and
\* its tokens.
Fixed == 0
Stored == -1

Usable(b) == \A i \in DOMAIN b.tokens :
  b.kind \in DOMAIN Tables =>
    Tables[b.kind].lit[(IF b.tokens[i].len = 0 THEN b.tokens[i].lit ELSE MatchSym) + 1] # 0

Coded(b) ==
  IF b.kind = Fixed THEN Lowest(1, 2) \o BodyBits(b.tokens, MCFixedLit, MCFixedDist)
  ELSE LET t == Tables[b.kind]
       IN Lowest(2, 2) \o TableBits(t) \o BodyBits(b.tokens, t.lit, t.dist)

Padding(bits) == [i \in 1..(Len(bits) % 2) |-> 0]

\* The bits of a block behind those of the ones before it.
BlockBits(bits, b, final) ==
  LET head == Append(bits, IF final THEN 1 ELSE 0)
      stored == head \o Lowest(0, 2)
      n == Len(b.tokens)
  IN IF b.kind = Stored
     THEN stored \o Padding(stored) \o Lowest(n % 4, 2) \o Lowest(n \div 4, 2)
          \o Lowest(3 - (n % 4), 2) \o Lowest(3 - (n \div 4), 2)
          \o FlattenSeq([i \in 1..n |-> Lowest(b.tokens[i].lit, 2)])
     ELSE head \o Coded(b)

StreamOf(blocks, good) ==
  LET bits == FoldLeft(LAMBDA o, i : BlockBits(o, blocks[i], i = Len(blocks)), <<>>,
                       [i \in DOMAIN blocks |-> i])
      tokens == FlattenSeq([i \in DOMAIN blocks |-> blocks[i].tokens])
  IN [bits |-> bits \o Padding(bits), wellformed |-> good,
      plain |-> IF good THEN FoldLeft(Meaning, <<>>, tokens) ELSE <<>>]

Lists(n) == UNION {[1..k -> Tokens] : k \in 0..n}
OnlyLiterals(ts) == \A i \in DOMAIN ts : ts[i].len = 0
Blocks(n) == {b \in [kind : {Fixed} \cup DOMAIN Tables, tokens : Lists(n)] : Usable(b)}
               \cup {b \in [kind : {Stored}, tokens : Lists(n)] : OnlyLiterals(b.tokens)}
SoundBlocks(n) == {b \in Blocks(n) : Sound(b.tokens)}

\* Anything else that may arrive: every string of ten bits, and a table that
\* ends in the longest kind of run, cut by the decoder.
AnyBits == {[bits |-> bits, wellformed |-> FALSE, plain |-> <<>>] : bits \in [1..10 -> 0..1]}

LongRun ==
  LET table == [lit |-> <<1, 2, 0, 0, 2, 0>>, dist |-> <<0, 0>>, cl |-> <<2, 2, 2, 0, 0, 0, 2>>,
                run |-> <<Plain(1), Plain(2), Plain(0), Plain(0), Plain(2),
                          [sym |-> 6, extra |-> 0, bits |-> 7]>>]
      bits == <<1>> \o Lowest(2, 2) \o TableBits(table) \o CodeWord(table.lit, 1)
                \o CodeWord(table.lit, End)
  IN [bits |-> bits \o Padding(bits), wellformed |-> FALSE, plain |-> <<>>]

\* A literal, then a match over the third distance symbol, which has no place
\* in the tables.
BeyondTable ==
  LET table == [lit |-> <<2, 0, 0, 0, 2, 1>>, dist |-> <<0, 0, 1>>, cl |-> <<2, 2, 2, 0, 0, 2, 0>>,
                run |-> <<Plain(2), [sym |-> 5, extra |-> 0, bits |-> 3], Plain(2), Plain(1),
                          Plain(0), Plain(0), Plain(1)>>]
      bits == <<1>> \o Lowest(2, 2) \o TableBits(table)
                \o CodeWord(table.lit, 0) \o CodeWord(table.lit, MatchSym) \o Lowest(0, 1)
                \o CodeWord(table.dist, 2) \o CodeWord(table.lit, End)
  IN [bits |-> bits \o Padding(bits), wellformed |-> FALSE, plain |-> <<>>]

MCStreams ==
  AnyBits \cup {LongRun, BeyondTable} \cup
  {StreamOf(<<b>>, TRUE) : b \in SoundBlocks(3)}
    \cup {StreamOf(<<b, c>>, TRUE) : b \in SoundBlocks(1), c \in SoundBlocks(1)}
=============================================================================
