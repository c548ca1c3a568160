---------------------------- MODULE InputsProofs ----------------------------
(***************************************************************************)
(* Theorems about the parts that are one task over one input: the two byte *)
(* streams, the button poll, the requests to the LED and the battery.      *)
(* Each is first proved of the part's own specification, then of the       *)
(* composition.                                                            *)
(***************************************************************************)
EXTENDS Inputs, SequencesExt, FiniteSetTheorems, SequenceTheorems, TLAPS
-----------------------------------------------------------------------------
(***************************************************************************)
(* Lines.  The RNS framing and the serial line to the radio send a packet  *)
(* as a delimiter, a code for each of its bytes, and the delimiter again.  *)
(* The first part says where in which packet the bytes of such a line are; *)
(* it knows nothing of who reads them.                                     *)
(***************************************************************************)

(* A set of numbers that is not empty has a least one.                      *)
LEMMA Least ==
  ASSUME NEW T \in SUBSET Nat, T # {}
  PROVE  \E x \in T : \A y \in T : x <= y
<1>. DEFINE F == {0..t : t \in T}
<1>1. F \subseteq FiniteSubsetsOf(Nat)
  <2>1. ASSUME NEW t \in T
        PROVE  0..t \in FiniteSubsetsOf(Nat)
    <3>1. IsFiniteSet(0..t)
      BY FS_Interval
    <3>. QED  BY <3>1 DEF FiniteSubsetsOf
  <2>. QED  BY <2>1
<1>2. PICK m \in F : \A k \in F : ~ (<<k, m>> \in StrictSubsetOrdering(Nat))
  <2>1. F # {}
    OBVIOUS
  <2>. HIDE DEF F
  <2>. QED  BY <1>1, <2>1, WFMin, FS_StrictSubsetOrderingWellFounded
<1>3. PICK x \in T : m = 0..x
  OBVIOUS
<1>4. ASSUME NEW y \in T, y < x
      PROVE  FALSE
  <2>1. 0..y \in F /\ 0..y \subseteq 0..x /\ 0..y # 0..x /\ 0..x \in SUBSET Nat
        /\ 0..y \in SUBSET Nat
    BY <1>4
  <2>. QED  BY <1>2, <1>3, <2>1 DEF StrictSubsetOrdering
<1>. QED  BY <1>4

(* Induction along a sequence: what holds of its first place and passes     *)
(* from each place to the next holds of all.                                *)
LEMMA Along ==
  ASSUME NEW N \in Nat, NEW T, N # 0 => 1 \in T,
         \A n \in 1..N : n \in T /\ n # N => n + 1 \in T
  PROVE  1..N \subseteq T
<1>. SUFFICES ASSUME ~(1..N \subseteq T)
              PROVE  FALSE
  OBVIOUS
<1>. DEFINE C == {n \in 1..N : n \notin T}
<1>1. PICK x \in C : \A y \in C : x <= y
  <2>1. C \in SUBSET Nat /\ C # {}
    OBVIOUS
  <2>. HIDE DEF C
  <2>. QED  BY <2>1, Least
<1>2. x \in 2..N /\ x \notin T
  OBVIOUS
<1>3. x - 1 \in 1..N /\ x - 1 # N /\ (x - 1) + 1 = x /\ ~(x <= x - 1)
  BY <1>2
<1>4. x - 1 \in T
  BY <1>1, <1>3
<1>. QED  BY <1>2, <1>3, <1>4

(* The recursive function inside FlattenSeq.                                *)
IsFlat(f, s, n) == f = [i \in 1..n |-> IF i = 1 THEN s[i] ELSE f[i-1] \o s[i]]

(* It exists for every length.                                              *)
LEMMA FlatExists ==
  ASSUME NEW s, NEW n \in Nat
  PROVE  \E f : IsFlat(f, s, n)
<1>. DEFINE T == {m \in Nat : \E f : IsFlat(f, s, m)}
<1>1. 1 \in T
  <2>1. IsFlat([i \in 1..1 |-> s[1]], s, 1)
    BY DEF IsFlat
  <2>. QED  BY <2>1
<1>2. ASSUME NEW m \in 1..n, m \in T
      PROVE  m + 1 \in T
  <2>1. PICK f : IsFlat(f, s, m)
    BY <1>2
  <2>. DEFINE g == [i \in 1..(m+1) |-> IF i = m + 1 THEN f[m] \o s[m+1] ELSE f[i]]
  <2>2. ASSUME NEW i \in 1..(m+1)
        PROVE  g[i] = IF i = 1 THEN s[i] ELSE g[i-1] \o s[i]
    <3>1. CASE i = m + 1
      <4>1. i # 1 /\ i - 1 = m /\ m \in 1..(m+1) /\ m # m + 1
        BY <3>1
      <4>. QED  BY <3>1, <4>1
    <3>2. CASE i # m + 1
      <4>1. i \in 1..m /\ (i # 1 => i - 1 \in 1..(m+1) /\ i - 1 # m + 1)
        BY <3>2
      <4>2. f[i] = IF i = 1 THEN s[i] ELSE f[i-1] \o s[i]
        BY <2>1, <4>1 DEF IsFlat
      <4>. QED  BY <3>2, <4>1, <4>2
    <3>. QED  BY <3>1, <3>2
  <2>3. IsFlat(g, s, m + 1)
    <3>. DEFINE h == [i \in 1..(m+1) |-> IF i = 1 THEN s[i] ELSE g[i-1] \o s[i]]
    <3>1. g = h
      <4>1. DOMAIN g = DOMAIN h /\ \A i \in DOMAIN g : g[i] = h[i]
        BY <2>2
      <4>. QED  BY <4>1
    <3>. QED  BY <3>1 DEF IsFlat
  <2>. QED  BY <2>3
<1>3. 0 \in T
  <2>1. IsFlat([i \in 1..0 |-> s[1]], s, 0)
    BY DEF IsFlat
  <2>. QED  BY <2>1
<1>4. 1..n \subseteq T
  <2>. HIDE DEF T
  <2>. QED  BY <1>1, <1>2, Along
<1>. QED  BY <1>3, <1>4

(* FlattenSeq joins the sequences one by one.                               *)
LEMMA Flattened ==
  ASSUME NEW s, Len(s) \in Nat \ {0}
  PROVE  \E f : /\ f[1] = s[1]
                /\ \A i \in 1..Len(s) : i # 1 => f[i] = f[i-1] \o s[i]
                /\ FlattenSeq(s) = f[Len(s)]
<1>. DEFINE h == CHOOSE f : IsFlat(f, s, Len(s))
<1>1. IsFlat(h, s, Len(s))
  BY FlatExists
<1>2. FlattenSeq(s) = h[Len(s)]
  BY DEF FlattenSeq, IsFlat
<1>3. \A i \in 1..Len(s) : h[i] = IF i = 1 THEN s[i] ELSE h[i-1] \o s[i]
  <2>. HIDE DEF h
  <2>. QED  BY <1>1 DEF IsFlat
<1>4. 1 \in 1..Len(s)
  OBVIOUS
<1>. HIDE DEF h
<1>. QED  BY <1>2, <1>3, <1>4
-----------------------------------------------------------------------------
(* A line c: its packets, the code of a byte and the delimiter.  A place in *)
(* it is a packet, a byte of that packet and a byte of its code: at = 0     *)
(* before the opening delimiter, and after the last byte before the closing *)
(* one.  n packets were sent.                                               *)

IsLine(c, n) ==
  /\ c.delim \in Byte
  /\ \A b \in Byte : c.code[b] \in Seq(Byte) /\ c.code[b] # <<>>
  /\ \A k \in 1..n : c.packet[k] \in Seq(Byte)

OnLine(c, p) == <<c.delim>> \o FlattenSeq([i \in DOMAIN p |-> c.code[p[i]]]) \o <<c.delim>>

At(k, i) == [frame |-> k, at |-> i, part |-> 1]
Between(k) == At(k, 0)
Closing(c, k) == Len(c.packet[k]) + 1
CodeOf(c, q) == c.code[c.packet[q.frame][q.at]]

Place(c, n) ==
  {Between(k) : k \in 1..(n + 1)} \union
  {q \in [frame : 1..n, at : Nat \ {0}, part : Nat \ {0}] :
     \/ q.at = Closing(c, q.frame) /\ q.part = 1
     \/ q.at < Closing(c, q.frame) /\ q.part <= Len(CodeOf(c, q))}

ByteAt(c, q) ==
  IF q.at = 0 \/ q.at = Closing(c, q.frame) THEN c.delim ELSE CodeOf(c, q)[q.part]

Following(c, q) ==
  IF q.at = 0 THEN At(q.frame, 1)
  ELSE IF q.at = Closing(c, q.frame) THEN Between(q.frame + 1)
  ELSE IF q.part < Len(CodeOf(c, q)) THEN [q EXCEPT !.part = q.part + 1]
  ELSE At(q.frame, q.at + 1)

\* The bytes w lead from place q to place r.
Traces(c, n, l, w) ==
  /\ l \in [1..(Len(w) + 1) -> Place(c, n)]
  /\ \A j \in 1..Len(w) : w[j] = ByteAt(c, l[j]) /\ l[j + 1] = Following(c, l[j])

Passage(c, n, q, w, r) ==
  /\ w \in Seq(Byte)
  /\ \E l : Traces(c, n, l, w) /\ l[1] = q /\ l[Len(w) + 1] = r

(* Passages: over nothing, over one byte, one after another; without their  *)
(* first byte, cut off, and among more packets sent.                        *)
LEMMA NoBytes ==
  ASSUME NEW c, NEW n \in Nat, NEW q \in Place(c, n)
  PROVE  Passage(c, n, q, <<>>, q)
<1>. DEFINE l == [j \in 1..1 |-> q]
<1>1. Traces(c, n, l, <<>>) /\ l[1] = q /\ l[Len(<<>>) + 1] = q
  BY DEF Traces
<1>. QED  BY <1>1 DEF Passage

LEMMA OneByte ==
  ASSUME NEW c, NEW n \in Nat, NEW q \in Place(c, n), Following(c, q) \in Place(c, n), ByteAt(c, q) \in Byte
  PROVE  Passage(c, n, q, <<ByteAt(c, q)>>, Following(c, q))
<1>. DEFINE l == [j \in 1..2 |-> IF j = 1 THEN q ELSE Following(c, q)]
            w == <<ByteAt(c, q)>>
<1>1. Len(w) = 1 /\ w[1] = ByteAt(c, q) /\ w \in Seq(Byte)
  OBVIOUS
<1>2. l \in [1..2 -> Place(c, n)] /\ l[1] = q /\ l[2] = Following(c, q)
  OBVIOUS
<1>. HIDE DEF l, w
<1>3. Traces(c, n, l, w)
  BY <1>1, <1>2 DEF Traces
<1>4. Passage(c, n, q, w, Following(c, q))
  BY <1>1, <1>2, <1>3 DEF Passage
<1>. QED  BY <1>4 DEF w

LEMMA Joined ==
  ASSUME NEW c, NEW n \in Nat, NEW q, NEW r, NEW s, NEW v, NEW w,
         Passage(c, n, q, v, r), Passage(c, n, r, w, s)
  PROVE  Passage(c, n, q, v \o w, s)
<1>1. v \in Seq(Byte) /\ w \in Seq(Byte)
  BY DEF Passage
<1>2. PICK a : Traces(c, n, a, v) /\ a[1] = q /\ a[Len(v) + 1] = r
  BY DEF Passage
<1>3. PICK b : Traces(c, n, b, w) /\ b[1] = r /\ b[Len(w) + 1] = s
  BY DEF Passage
<1>. DEFINE x == v \o w
            l == [j \in 1..(Len(x) + 1) |-> IF j <= Len(v) + 1 THEN a[j] ELSE b[j - Len(v)]]
<1>4. x \in Seq(Byte) /\ Len(x) = Len(v) + Len(w) /\ Len(v) \in Nat /\ Len(w) \in Nat
      /\ (\A j \in 1..Len(v) : x[j] = v[j])
      /\ (\A j \in 1..Len(w) : x[Len(v) + j] = w[j])
  BY <1>1
<1>. HIDE DEF x
<1>5. l \in [1..(Len(x) + 1) -> Place(c, n)]
  <2>1. ASSUME NEW j \in 1..(Len(x) + 1)
        PROVE  (IF j <= Len(v) + 1 THEN a[j] ELSE b[j - Len(v)]) \in Place(c, n)
    <3>1. CASE j <= Len(v) + 1
      <4>1. j \in 1..(Len(v) + 1)
        BY <3>1, <1>4
      <4>. QED  BY <3>1, <4>1, <1>2 DEF Traces
    <3>2. CASE ~(j <= Len(v) + 1)
      <4>1. j - Len(v) \in 1..(Len(w) + 1)
        BY <3>2, <1>4
      <4>. QED  BY <3>2, <4>1, <1>3 DEF Traces
    <3>. QED  BY <3>1, <3>2
  <2>. QED  BY <2>1
<1>6. ASSUME NEW j \in 1..Len(x)
      PROVE  x[j] = ByteAt(c, l[j]) /\ l[j + 1] = Following(c, l[j])
  <2>1. CASE j <= Len(v)
    <3>1. l[j] = a[j] /\ l[j + 1] = a[j + 1] /\ j \in 1..Len(v) /\ x[j] = v[j]
      BY <2>1, <1>4
    <3>. QED  BY <3>1, <1>2 DEF Traces
  <2>2. CASE j > Len(v)
    <3>. DEFINE i == j - Len(v)
    <3>0. i \in 1..Len(w) /\ j = Len(v) + i /\ ~(j + 1 <= Len(v) + 1)
          /\ j + 1 \in 1..(Len(x) + 1) /\ (j + 1) - Len(v) = i + 1
      BY <2>2, <1>4
    <3>1. i \in 1..Len(w) /\ l[j + 1] = b[i + 1] /\ x[j] = w[i]
      BY <1>4, <3>0
    <3>2. l[j] = b[i]
      BY <2>2, <1>2, <1>3, <1>4
    <3>. HIDE DEF i, l
    <3>. QED  BY <3>1, <3>2, <1>3 DEF Traces
  <2>. QED  BY <2>1, <2>2, <1>4
<1>7. l[1] = q /\ l[Len(x) + 1] = s
  BY <1>2, <1>3, <1>4
<1>. HIDE DEF l
<1>8. Traces(c, n, l, x)
  BY <1>5, <1>6 DEF Traces
<1>. QED  BY <1>4, <1>7, <1>8 DEF Passage, x

Leads(c, n, q, w, r) ==
  /\ q \in Place(c, n) /\ Following(c, q) \in Place(c, n)
  /\ Head(w) = ByteAt(c, q)
  /\ Passage(c, n, Following(c, q), Tail(w), r)

LEMMA FirstByte ==
  ASSUME NEW c, NEW n \in Nat, NEW q, NEW r, NEW w, Passage(c, n, q, w, r), w # <<>>
  PROVE  Leads(c, n, q, w, r)
<1>1. w \in Seq(Byte)
  BY DEF Passage
<1>2. PICK a : Traces(c, n, a, w) /\ a[1] = q /\ a[Len(w) + 1] = r
  BY DEF Passage
<1>. DEFINE x == Tail(w)
            l == [j \in 1..(Len(x) + 1) |-> a[j + 1]]
<1>3. x \in Seq(Byte) /\ Len(x) = Len(w) - 1 /\ Len(w) \in Nat \ {0} /\ Head(w) = w[1]
      /\ (\A j \in 1..Len(x) : x[j] = w[j + 1])
  BY <1>1
<1>. HIDE DEF x
<1>4. 1 \in 1..Len(w) /\ 2 \in 1..(Len(w) + 1)
  BY <1>3
<1>5. q \in Place(c, n) /\ a[2] = Following(c, q) /\ a[2] \in Place(c, n) /\ Head(w) = ByteAt(c, q)
  <2>1. q \in Place(c, n) /\ a[2] \in Place(c, n)
    BY <1>2, <1>3, <1>4 DEF Traces
  <2>2. a[1 + 1] = Following(c, a[1]) /\ w[1] = ByteAt(c, a[1])
    BY <1>2, <1>4 DEF Traces
  <2>. QED  BY <2>1, <2>2, <1>2, <1>3
<1>6. l \in [1..(Len(x) + 1) -> Place(c, n)]
  BY <1>2, <1>3 DEF Traces
<1>7. ASSUME NEW j \in 1..Len(x)
      PROVE  x[j] = ByteAt(c, l[j]) /\ l[j + 1] = Following(c, l[j])
  <2>1. j + 1 \in 1..Len(w) /\ l[j] = a[j + 1] /\ l[j + 1] = a[(j + 1) + 1] /\ x[j] = w[j + 1]
    BY <1>3
  <2>. HIDE DEF l
  <2>. QED  BY <2>1, <1>2 DEF Traces
<1>8. l[1] = a[2] /\ l[Len(x) + 1] = r
  BY <1>2, <1>3
<1>. HIDE DEF l
<1>9. Traces(c, n, l, x)
  BY <1>6, <1>7 DEF Traces
<1>10. Passage(c, n, Following(c, q), x, r)
  BY <1>3, <1>5, <1>8, <1>9 DEF Passage
<1>. QED  BY <1>3, <1>5, <1>10 DEF Leads, x

LEMMA Piece ==
  ASSUME NEW c, NEW n \in Nat, NEW q, NEW r, NEW w, Passage(c, n, q, w, r),
         NEW k \in 0..Len(w), NEW d \in 0..k
  PROVE  \E s, t : /\ Passage(c, n, s, SubSeq(w, d + 1, k), t)
                   /\ d = 0 => s = q
                   /\ k = Len(w) => t = r
<1>1. w \in Seq(Byte)
  BY DEF Passage
<1>2. PICK a : Traces(c, n, a, w) /\ a[1] = q /\ a[Len(w) + 1] = r
  BY DEF Passage
<1>. DEFINE x == SubSeq(w, d + 1, k)
            l == [j \in 1..(Len(x) + 1) |-> a[d + j]]
<1>3. x \in Seq(Byte) /\ Len(x) = k - d /\ Len(w) \in Nat /\ (\A j \in 1..(k - d) : x[j] = w[d + j])
  BY <1>1
<1>. HIDE DEF x
<1>4. l \in [1..(Len(x) + 1) -> Place(c, n)]
  <2>1. \A j \in 1..(Len(x) + 1) : d + j \in 1..(Len(w) + 1)
    BY <1>3
  <2>. QED  BY <1>2, <2>1 DEF Traces
<1>5. ASSUME NEW j \in 1..Len(x)
      PROVE  x[j] = ByteAt(c, l[j]) /\ l[j + 1] = Following(c, l[j])
  <2>1. d + j \in 1..Len(w) /\ l[j] = a[d + j] /\ l[j + 1] = a[(d + j) + 1] /\ x[j] = w[d + j]
    <3>1. j \in Nat /\ j \in 1..(k - d) /\ d + j \in 1..Len(w) /\ d + (j + 1) = (d + j) + 1
      BY <1>3
    <3>2. j \in 1..(Len(x) + 1) /\ j + 1 \in 1..(Len(x) + 1)
      BY <1>3
    <3>3. l[j] = a[d + j] /\ l[j + 1] = a[d + (j + 1)]
      BY <3>2
    <3>. QED  BY <3>1, <3>3, <1>3
  <2>. HIDE DEF l
  <2>. QED  BY <2>1, <1>2 DEF Traces
<1>6. (d = 0 => l[1] = q) /\ (k = Len(w) => l[Len(x) + 1] = r)
  BY <1>2, <1>3
<1>. HIDE DEF l
<1>7. Traces(c, n, l, x)
  BY <1>4, <1>5 DEF Traces
<1>8. Passage(c, n, l[1], x, l[Len(x) + 1])
  BY <1>3, <1>7 DEF Passage
<1>. QED  BY <1>6, <1>8 DEF x

LEMMA BothEnds ==
  ASSUME NEW c, NEW n \in Nat, NEW q, NEW r, NEW w, Passage(c, n, q, w, r)
  PROVE  q \in Place(c, n) /\ r \in Place(c, n) /\ w \in Seq(Byte) /\ (w = <<>> => q = r)
<1>1. w \in Seq(Byte)
  BY DEF Passage
<1>2. PICK a : Traces(c, n, a, w) /\ a[1] = q /\ a[Len(w) + 1] = r
  BY DEF Passage
<1>3. 1 \in 1..(Len(w) + 1) /\ Len(w) + 1 \in 1..(Len(w) + 1)
  BY <1>1
<1>4. q \in Place(c, n) /\ r \in Place(c, n)
  BY <1>2, <1>3 DEF Traces
<1>5. w = <<>> => q = r
  BY <1>2
<1>. QED  BY <1>1, <1>4, <1>5

LEMMA SentMore ==
  ASSUME NEW c, NEW n \in Nat, NEW m \in Nat, n <= m,
         NEW q, NEW r, NEW w, Passage(c, n, q, w, r)
  PROVE  Passage(c, m, q, w, r)
<1>1. Place(c, n) \subseteq Place(c, m)
  BY DEF Place
<1>. QED  BY <1>1 DEF Passage, Traces

(* The packet a place belongs to.                                           *)
LEMMA FrameOf ==
  ASSUME NEW c, NEW n \in Nat, NEW q \in Place(c, n)
  PROVE  /\ q.frame \in 1..(n + 1) /\ q.at \in Nat
         /\ q.at = 0 => q = Between(q.frame)
         /\ q.at # 0 => q.frame \in 1..n
<1>1. CASE \E k \in 1..(n + 1) : q = Between(k)
  <2>1. PICK k \in 1..(n + 1) : q = Between(k)
    BY <1>1
  <2>2. q.frame = k /\ q.at = 0
    BY <2>1 DEF Between, At
  <2>. QED  BY <2>1, <2>2
<1>2. CASE q \in [frame : 1..n, at : Nat \ {0}, part : Nat \ {0}]
  BY <1>2
<1>. QED  BY <1>1, <1>2 DEF Place

(* A place inside a packet: at the closing delimiter or in a byte's code.   *)
LEMMA InPacket ==
  ASSUME NEW c, NEW n \in Nat, IsLine(c, n), NEW q \in Place(c, n), q.at # 0
  PROVE  /\ q.frame \in 1..n
         /\ q = [frame |-> q.frame, at |-> q.at, part |-> q.part]
         /\ c.packet[q.frame] \in Seq(Byte)
         /\ Closing(c, q.frame) = Len(c.packet[q.frame]) + 1
         /\ \/ q.at = Closing(c, q.frame) /\ q.part = 1
            \/ /\ q.at \in 1..Len(c.packet[q.frame])
               /\ c.packet[q.frame][q.at] \in Byte
               /\ q.part \in 1..Len(CodeOf(c, q))
<1>1. /\ q \in [frame : 1..n, at : Nat \ {0}, part : Nat \ {0}]
      /\ \/ q.at = Closing(c, q.frame) /\ q.part = 1
         \/ q.at < Closing(c, q.frame) /\ q.part <= Len(CodeOf(c, q))
  <2>1. \A k : Between(k).at = 0
    BY DEF Between, At
  <2>. QED  BY <2>1 DEF Place
<1>2. /\ q.frame \in 1..n /\ q.at \in Nat \ {0} /\ q.part \in Nat \ {0}
      /\ q = [frame |-> q.frame, at |-> q.at, part |-> q.part]
  BY <1>1
<1>3. c.packet[q.frame] \in Seq(Byte)
  BY <1>2 DEF IsLine
<1>4. CASE q.at = Closing(c, q.frame) /\ q.part = 1
  BY <1>2, <1>3, <1>4 DEF Closing
<1>5. CASE q.at < Closing(c, q.frame) /\ q.part <= Len(CodeOf(c, q))
  <2>1. q.at \in 1..Len(c.packet[q.frame])
    BY <1>2, <1>3, <1>5 DEF Closing
  <2>2. c.packet[q.frame][q.at] \in Byte
    BY <1>3, <2>1
  <2>3. c.code[c.packet[q.frame][q.at]] \in Seq(Byte)
    BY <2>2 DEF IsLine
  <2>4. q.part \in 1..Len(CodeOf(c, q))
    BY <1>2, <1>5, <2>3 DEF CodeOf
  <2>. QED  BY <1>2, <1>3, <2>1, <2>2, <2>4 DEF Closing
<1>. QED  BY <1>1, <1>4, <1>5
-----------------------------------------------------------------------------
(* The sender: from between two packets to between the next two.            *)

LEMMA Places ==
  ASSUME NEW c, NEW n \in Nat, IsLine(c, n)
  PROVE  /\ \A k \in 1..(n + 1) : Between(k) \in Place(c, n)
         /\ \A k \in 1..n, i \in Nat \ {0} : i <= Closing(c, k) => At(k, i) \in Place(c, n)
<1>1. \A k \in 1..(n + 1) : Between(k) \in Place(c, n)
  BY DEF Place
<1>2. ASSUME NEW k \in 1..n, NEW i \in Nat \ {0}, i <= Closing(c, k)
      PROVE  At(k, i) \in Place(c, n)
  <2>. PICK q : q = At(k, i)
    OBVIOUS
  <2>1. q = At(k, i) /\ q.frame = k /\ q.at = i /\ q.part = 1
        /\ q \in [frame : 1..n, at : Nat \ {0}, part : Nat \ {0}]
    BY DEF At
  <2>2. c.packet[k] \in Seq(Byte) /\ Closing(c, k) \in Nat
    BY DEF IsLine, Closing
  <2>3. CASE i = Closing(c, k)
    BY <2>1, <2>3 DEF Place
  <2>4. CASE i # Closing(c, k)
    <3>1. i \in 1..Len(c.packet[k]) /\ i < Closing(c, k)
      BY <1>2, <2>2, <2>4 DEF Closing
    <3>2. c.packet[k][i] \in Byte
      BY <2>2, <3>1
    <3>3. CodeOf(c, q) \in Seq(Byte) /\ CodeOf(c, q) # <<>>
      BY <2>1, <3>2 DEF CodeOf, IsLine
    <3>4. 1 <= Len(CodeOf(c, q))
      BY <3>3
    <3>. QED  BY <2>1, <3>1, <3>4 DEF Place
  <2>. QED  BY <2>3, <2>4
<1>. QED  BY <1>1, <1>2

(* The code of a byte leads to the next byte.                               *)
LEMMA OfByte ==
  ASSUME NEW c, NEW n \in Nat \ {0}, IsLine(c, n), NEW i \in 1..Len(c.packet[n])
  PROVE  Passage(c, n, At(n, i), c.code[c.packet[n][i]], At(n, i + 1))
<1>. PICK w : w = c.code[c.packet[n][i]]
  OBVIOUS
<1>1. w = c.code[c.packet[n][i]] /\ w \in Seq(Byte) /\ Len(w) \in Nat \ {0}
  <2>1. c.packet[n] \in Seq(Byte)
    BY DEF IsLine
  <2>2. c.packet[n][i] \in Byte
    BY <2>1
  <2>3. w = c.code[c.packet[n][i]] /\ w \in Seq(Byte) /\ w # <<>>
    BY <2>2 DEF IsLine
  <2>4. Len(w) \in Nat \ {0}
    BY <2>3, EmptySeq
  <2>. QED  BY <2>3, <2>4
<1>2. i \in Nat \ {0} /\ Closing(c, n) \in Nat /\ i < Closing(c, n) /\ i + 1 <= Closing(c, n)
  BY DEF IsLine, Closing
<1>. DEFINE In(j) == [frame |-> n, at |-> i, part |-> j]
            l == [j \in 1..(Len(w) + 1) |-> IF j <= Len(w) THEN In(j) ELSE At(n, i + 1)]
<1>3. \A j : In(j).frame = n /\ In(j).at = i /\ In(j).part = j /\ CodeOf(c, In(j)) = w
  BY <1>1 DEF CodeOf
<1>4. \A j \in 1..Len(w) : In(j) \in Place(c, n)
  <2>1. \A j \in 1..Len(w) : In(j) \in [frame : 1..n, at : Nat \ {0}, part : Nat \ {0}]
    BY <1>1, <1>2
  <2>. HIDE DEF In
  <2>. QED  BY <1>1, <1>2, <1>3, <2>1 DEF Place
<1>5. \A j \in 1..Len(w) : /\ ByteAt(c, In(j)) = w[j]
                           /\ Following(c, In(j)) = IF j < Len(w) THEN In(j + 1) ELSE At(n, i + 1)
  <2>1. ASSUME NEW j \in 1..Len(w)
        PROVE  /\ ByteAt(c, In(j)) = w[j]
               /\ Following(c, In(j)) = IF j < Len(w) THEN In(j + 1) ELSE At(n, i + 1)
    <3>1. PICK q : q = In(j)
      OBVIOUS
    <3>2. [q EXCEPT !.part = q.part + 1] = In(j + 1)
      BY <3>1
    <3>. HIDE DEF In
    <3>3. /\ q.frame = n /\ q.at = i /\ q.part = j /\ CodeOf(c, q) = w
          /\ q.at # 0 /\ q.at # Closing(c, q.frame)
      BY <1>2, <1>3, <3>1
    <3>4. ByteAt(c, q) = w[j]
      BY <3>3 DEF ByteAt
    <3>5. Following(c, q) = IF j < Len(w) THEN In(j + 1) ELSE At(n, i + 1)
      BY <3>2, <3>3 DEF Following
    <3>. QED  BY <3>1, <3>4, <3>5
  <2>. QED  BY <2>1
<1>6. At(n, i + 1) \in Place(c, n)
  BY <1>2, Places
<1>. HIDE DEF In
<1>7. l \in [1..(Len(w) + 1) -> Place(c, n)]
  BY <1>1, <1>4, <1>6
<1>8. ASSUME NEW j \in 1..Len(w)
      PROVE  w[j] = ByteAt(c, l[j]) /\ l[j + 1] = Following(c, l[j])
  <2>1. l[j] = In(j) /\ l[j + 1] = IF j < Len(w) THEN In(j + 1) ELSE At(n, i + 1)
    BY <1>1
  <2>. HIDE DEF l
  <2>. QED  BY <1>5, <2>1
<1>9. l[1] = At(n, i) /\ l[Len(w) + 1] = At(n, i + 1)
  <2>1. 1 \in 1..(Len(w) + 1) /\ 1 <= Len(w) /\ Len(w) + 1 \in 1..(Len(w) + 1)
        /\ ~(Len(w) + 1 <= Len(w))
    <3>1. \A m \in Nat \ {0} : /\ 1 \in 1..(m + 1) /\ 1 <= m
                              /\ m + 1 \in 1..(m + 1) /\ ~(m + 1 <= m)
      OBVIOUS
    <3>2. Len(w) \in Nat \ {0}
      BY <1>1
    <3>. HIDE DEF l
    <3>. QED  BY <3>1, <3>2
  <2>2. \A j \in 1..(Len(w) + 1) : l[j] = IF j <= Len(w) THEN In(j) ELSE At(n, i + 1)
    OBVIOUS
  <2>. HIDE DEF l
  <2>3. l[1] = In(1) /\ l[Len(w) + 1] = At(n, i + 1)
    BY <2>1, <2>2
  <2>. QED  BY <2>3 DEF In, At
<1>. HIDE DEF l
<1>10. Traces(c, n, l, w)
  BY <1>7, <1>8 DEF Traces
<1>11. Passage(c, n, At(n, i), w, At(n, i + 1))
  BY <1>1, <1>9, <1>10 DEF Passage
<1>. QED  BY <1>1, <1>11

(* The bytes of a packet lead from its opening to its closing delimiter.    *)
LEMMA OfBytes ==
  ASSUME NEW c, NEW n \in Nat \ {0}, IsLine(c, n)
  PROVE  Passage(c, n, At(n, 1),
                 FlattenSeq([i \in DOMAIN c.packet[n] |-> c.code[c.packet[n][i]]]),
                 At(n, Closing(c, n)))
<1>. PICK p : p = c.packet[n]
  OBVIOUS
<1>. DEFINE s == [i \in DOMAIN p |-> c.code[p[i]]]
<1>1. p = c.packet[n] /\ p \in Seq(Byte) /\ Len(p) \in Nat /\ DOMAIN p = 1..Len(p)
      /\ Closing(c, n) = Len(p) + 1
  BY DEF IsLine, Closing
<1>2. At(n, 1) \in Place(c, n)
  BY <1>1, Places
<1>3. Len(s) = Len(p) /\ \A i \in 1..Len(p) : s[i] = c.code[p[i]]
  <2>1. \A i \in 1..Len(p) : c.code[p[i]] \in Seq(Byte)
    BY <1>1 DEF IsLine
  <2>2. s \in Seq(Seq(Byte))
    BY <1>1, <2>1
  <2>. QED  BY <1>1, <2>2
<1>4. CASE Len(p) = 0
  <2>1. FlattenSeq(s) = s
    BY <1>3, <1>4 DEF FlattenSeq
  <2>2. s = <<>> /\ Closing(c, n) = 1
    BY <1>1, <1>4
  <2>. HIDE DEF s
  <2>3. Passage(c, n, At(n, 1), FlattenSeq(s), At(n, Closing(c, n)))
    BY <1>2, <2>1, <2>2, NoBytes
  <2>. QED  BY <1>1, <2>3 DEF s
<1>5. CASE Len(p) # 0
  <2>1. PICK f : /\ f[1] = s[1]
                 /\ \A i \in 1..Len(p) : i # 1 => f[i] = f[i-1] \o s[i]
                 /\ FlattenSeq(s) = f[Len(p)]
    <3>. HIDE DEF s
    <3>. QED  BY <1>1, <1>3, <1>5, Flattened
  <2>. DEFINE T == {i \in 1..Len(p) : Passage(c, n, At(n, 1), f[i], At(n, i + 1))}
  <2>2. \A i \in 1..Len(p) : Passage(c, n, At(n, i), s[i], At(n, i + 1))
    <3>. HIDE DEF s
    <3>. QED  BY <1>1, <1>3, OfByte
  <2>3. 1 \in 1..Len(p)
    BY <1>1, <1>5
  <2>4. 1 \in T
    <3>1. Passage(c, n, At(n, 1), s[1], At(n, 1 + 1))
      BY <2>2, <2>3
    <3>. QED  BY <2>1, <2>3, <3>1
  <2>5. ASSUME NEW i \in 1..Len(p), i \in T, i # Len(p)
        PROVE  i + 1 \in T
    <3>1. i + 1 \in 1..Len(p) /\ i + 1 # 1 /\ (i + 1) - 1 = i
      BY <1>1, <2>5
    <3>2. f[i+1] = f[i] \o s[i+1]
      BY <2>1, <3>1
    <3>3. Passage(c, n, At(n, i + 1), s[i+1], At(n, (i + 1) + 1))
      BY <2>2, <3>1
    <3>4. Passage(c, n, At(n, 1), f[i+1], At(n, (i + 1) + 1))
      <4>. HIDE DEF s
      <4>. QED  BY <2>5, <3>2, <3>3, Joined
    <3>. QED  BY <3>1, <3>4
  <2>6. 1..Len(p) \subseteq T
    <3>. HIDE DEF T
    <3>. QED  BY <1>1, <2>4, <2>5, Along
  <2>7. Len(p) \in T
    <3>1. Len(p) \in 1..Len(p)
      BY <1>1, <1>5
    <3>. QED  BY <2>6, <3>1
  <2>8. Passage(c, n, At(n, 1), FlattenSeq(s), At(n, Closing(c, n)))
    BY <1>1, <2>1, <2>7
  <2>. QED  BY <1>1, <2>8
<1>. QED  BY <1>4, <1>5

(* A packet leads from between two packets to between the next two.         *)
LEMMA OfPacket ==
  ASSUME NEW c, NEW n \in Nat \ {0}, IsLine(c, n)
  PROVE  Passage(c, n, Between(n), OnLine(c, c.packet[n]), Between(n + 1))
<1>. DEFINE body == FlattenSeq([i \in DOMAIN c.packet[n] |-> c.code[c.packet[n][i]]])
<1>1. /\ c.packet[n] \in Seq(Byte) /\ c.delim \in Byte
      /\ Closing(c, n) \in Nat \ {0} /\ 1 <= Closing(c, n)
  BY DEF IsLine, Closing
<1>2. /\ Between(n) \in Place(c, n) /\ Between(n + 1) \in Place(c, n)
      /\ At(n, 1) \in Place(c, n) /\ At(n, Closing(c, n)) \in Place(c, n)
  <2>1. n \in 1..(n + 1) /\ n + 1 \in 1..(n + 1) /\ n \in 1..n /\ 1 \in Nat \ {0}
        /\ Closing(c, n) <= Closing(c, n)
    BY <1>1
  <2>. QED  BY <1>1, <2>1, Places
<1>3. ByteAt(c, Between(n)) = c.delim /\ Following(c, Between(n)) = At(n, 1)
  BY DEF ByteAt, Between, Following, At
<1>4. ByteAt(c, At(n, Closing(c, n))) = c.delim
      /\ Following(c, At(n, Closing(c, n))) = Between(n + 1)
  <2>1. At(n, Closing(c, n)).frame = n /\ At(n, Closing(c, n)).at = Closing(c, n)
    BY DEF At
  <2>. QED  BY <1>1, <2>1 DEF ByteAt, Following
<1>5. Passage(c, n, Between(n), <<c.delim>>, At(n, 1))
      /\ Passage(c, n, At(n, Closing(c, n)), <<c.delim>>, Between(n + 1))
  <2>1. Passage(c, n, Between(n), <<c.delim>>, At(n, 1))
    BY <1>1, <1>2, <1>3, OneByte
  <2>2. Passage(c, n, At(n, Closing(c, n)), <<c.delim>>, Between(n + 1))
    BY <1>1, <1>2, <1>4, OneByte
  <2>. QED  BY <2>1, <2>2
<1>6. Passage(c, n, At(n, 1), body, At(n, Closing(c, n)))
  BY OfBytes
<1>. HIDE DEF body
<1>7. Passage(c, n, Between(n), <<c.delim>> \o body, At(n, Closing(c, n)))
  BY <1>5, <1>6, Joined
<1>8. Passage(c, n, Between(n), (<<c.delim>> \o body) \o <<c.delim>>, Between(n + 1))
  BY <1>5, <1>7, Joined
<1>. QED  BY <1>8 DEF OnLine, body

(* All the packets, the first and what follows it.                          *)
LEMMA OfPackets ==
  ASSUME NEW c, NEW n \in Nat \ {0}, IsLine(c, n), NEW s, Len(s) = n,
         \A k \in 1..n : s[k] = OnLine(c, c.packet[k])
  PROVE  \E rest : /\ FlattenSeq(s) = s[1] \o rest
                   /\ Passage(c, 1, Between(1), s[1], Between(2))
                   /\ Passage(c, n, Between(2), rest, Between(n + 1))
<1>1. PICK f : /\ f[1] = s[1]
               /\ \A i \in 1..n : i # 1 => f[i] = f[i-1] \o s[i]
               /\ FlattenSeq(s) = f[n]
  BY Flattened
<1>2. \A k \in 1..n : IsLine(c, k) /\ Passage(c, k, Between(k), s[k], Between(k + 1))
  <2>1. ASSUME NEW k \in 1..n
        PROVE  IsLine(c, k) /\ Passage(c, k, Between(k), s[k], Between(k + 1))
    <3>1. IsLine(c, k)
      BY DEF IsLine
    <3>. QED  BY <3>1, OfPacket
  <2>. QED  BY <2>1
<1>3. 1 \in 1..n /\ Passage(c, 1, Between(1), s[1], Between(2)) /\ s[1] \in Seq(Byte)
  <2>1. Passage(c, 1, Between(1), s[1], Between(1 + 1))
    BY <1>2
  <2>. QED  BY <2>1 DEF Passage
<1>. DEFINE T == {i \in 1..n : \E rest : /\ f[i] = s[1] \o rest
                                         /\ Passage(c, i, Between(2), rest, Between(i + 1))}
<1>4. 1 \in T
  <2>1. Between(2) \in Place(c, 1)
    BY <1>3, BothEnds
  <2>2. Passage(c, 1, Between(2), <<>>, Between(1 + 1))
    BY <2>1, NoBytes
  <2>3. f[1] = s[1] \o <<>>
    BY <1>1, <1>3
  <2>. QED  BY <1>3, <2>2, <2>3
<1>5. ASSUME NEW i \in 1..n, i \in T, i # n
      PROVE  i + 1 \in T
  <2>1. PICK rest : f[i] = s[1] \o rest /\ Passage(c, i, Between(2), rest, Between(i + 1))
    BY <1>5
  <2>2. i + 1 \in 1..n /\ i + 1 # 1 /\ (i + 1) - 1 = i /\ i \in Nat
    BY <1>5
  <2>3. f[i + 1] = f[i] \o s[i + 1]
    BY <1>1, <2>2
  <2>4. Passage(c, i + 1, Between(i + 1), s[i + 1], Between((i + 1) + 1))
    BY <1>2, <2>2
  <2>5. Passage(c, i + 1, Between(2), rest, Between(i + 1))
    <3>1. i <= i + 1 /\ i + 1 \in Nat
      BY <2>2
    <3>. QED  BY <2>1, <2>2, <3>1, SentMore
  <2>6. Passage(c, i + 1, Between(2), rest \o s[i + 1], Between((i + 1) + 1))
    BY <2>2, <2>4, <2>5, Joined
  <2>7. rest \in Seq(Byte) /\ s[i + 1] \in Seq(Byte)
    BY <2>4, <2>5 DEF Passage
  <2>8. f[i + 1] = s[1] \o (rest \o s[i + 1])
    <3>1. ASSUME NEW a \in Seq(Byte), NEW b \in Seq(Byte), NEW d \in Seq(Byte)
          PROVE  (a \o b) \o d = a \o (b \o d)
      BY ConcatAssociative
    <3>. PICK a, b, d : a = s[1] /\ b = rest /\ d = s[i + 1]
      OBVIOUS
    <3>2. a \in Seq(Byte) /\ b \in Seq(Byte) /\ d \in Seq(Byte)
      BY <1>3, <2>7
    <3>3. (a \o b) \o d = a \o (b \o d)
      BY <3>1, <3>2
    <3>4. f[i + 1] = (a \o b) \o d
      BY <2>1, <2>3
    <3>. QED  BY <3>3, <3>4
  <2>. QED  BY <2>2, <2>6, <2>8
<1>6. 1..n \subseteq T
  <2>. HIDE DEF T
  <2>. QED  BY <1>3, <1>4, <1>5, Along
<1>7. n \in T
  BY <1>6
<1>. QED  BY <1>1, <1>3, <1>7

(* What a receiver holds of a packet before its i-th byte, in a buffer with *)
(* room for max bytes.                                                      *)
Held(p, i, max) == SubSeq(p, 1, IF i - 1 < max THEN i - 1 ELSE max)

LEMMA Holds ==
  ASSUME NEW max \in Nat, NEW p \in Seq(Byte), NEW i \in 1..Len(p)
  PROVE  Held(p, i + 1, max) = IF Len(Held(p, i, max)) < max
                               THEN Append(Held(p, i, max), p[i]) ELSE Held(p, i, max)
<1>1. Len(p) \in Nat /\ p[i] \in Byte /\ (i + 1) - 1 = i
  OBVIOUS
<1>2. CASE i - 1 < max
  <2>. DEFINE b == SubSeq(p, 1, i - 1)
              d == SubSeq(p, 1, i)
              e == Append(b, p[i])
  <2>1. b \in Seq(Byte) /\ Len(b) = i - 1 /\ \A j \in 1..(i - 1) : b[j] = p[j]
    BY <1>1
  <2>2. d \in Seq(Byte) /\ Len(d) = i /\ \A j \in 1..i : d[j] = p[j]
    BY <1>1
  <2>3. Held(p, i, max) = b /\ Held(p, i + 1, max) = d
    BY <1>1, <1>2 DEF Held
  <2>. HIDE DEF b, d
  <2>4. e \in Seq(Byte) /\ Len(e) = i /\ \A j \in 1..i : e[j] = p[j]
    BY <1>1, <2>1
  <2>. HIDE DEF e
  <2>5. e = d
    BY <2>2, <2>4, SeqEqual
  <2>. QED  BY <1>2, <2>1, <2>3, <2>5 DEF e
<1>3. CASE ~(i - 1 < max)
  <2>1. Held(p, i, max) = SubSeq(p, 1, max) /\ Held(p, i + 1, max) = SubSeq(p, 1, max)
    BY <1>1, <1>3 DEF Held
  <2>2. Len(SubSeq(p, 1, max)) = max
    BY <1>1, <1>3
  <2>3. ~(Len(Held(p, i, max)) < max)
    BY <2>1, <2>2
  <2>. QED  BY <2>1, <2>3
<1>. QED  BY <1>2, <1>3

LEMMA HeldTypes ==
  ASSUME NEW max \in Nat, NEW p \in Seq(Byte), NEW i \in 1..(Len(p) + 1)
  PROVE  /\ Held(p, i, max) \in Seq(Byte) /\ Len(Held(p, i, max)) <= max
         /\ Held(p, 1, max) = <<>>
         /\ Held(p, Len(p) + 1, max) = SubSeq(p, 1, IF Len(p) < max THEN Len(p) ELSE max)
<1>1. Len(p) \in Nat /\ (Len(p) + 1) - 1 = Len(p) /\ 1 - 1 = 0
  OBVIOUS
<1>2. Held(p, i, max) \in Seq(Byte) /\ Len(Held(p, i, max)) <= max
  BY <1>1 DEF Held
<1>3. Held(p, 1, max) = <<>>
  BY <1>1 DEF Held
<1>4. Held(p, Len(p) + 1, max) = SubSeq(p, 1, IF Len(p) < max THEN Len(p) ELSE max)
  BY <1>1 DEF Held
<1>. QED  BY <1>2, <1>3, <1>4
-----------------------------------------------------------------------------
(* RNS framing: the line of the packets fs, and what the deframer holds at  *)
(* a place of it.                                                           *)
Rns(fs) == [packet |-> fs, code |-> [b \in Byte |-> Framing!EncodeByte(b)],
            delim |-> HDLC_FLAG]

Deframed(fs, q) ==
  IF q.at = 0 THEN Framing!EmptyDeframer
  ELSE [buf     |-> Held(fs[q.frame], q.at, RNS_FRAMING_MAX_PACKET),
        escaped |-> IF q.part = 1 THEN FALSE ELSE TRUE]

LEMMA RnsBytes ==
  ASSUME Framing!FramingAssumption, NEW b \in Byte
  PROVE  \/ /\ b \in {HDLC_FLAG, HDLC_ESC}
            /\ Framing!EncodeByte(b) = <<HDLC_ESC, Masked[b]>>
            /\ Masked[b] \in Byte \ {HDLC_FLAG, HDLC_ESC} /\ Masked[Masked[b]] = b
         \/ b \notin {HDLC_FLAG, HDLC_ESC} /\ Framing!EncodeByte(b) = <<b>>
  BY DEF Framing!FramingAssumption, Framing!EncodeByte, Framing!Reserved

LEMMA RnsIsLine ==
  ASSUME Framing!FramingAssumption, NEW fs, NEW n \in Nat, \A k \in 1..n : fs[k] \in Seq(Byte)
  PROVE  /\ IsLine(Rns(fs), n) /\ Rns(fs).packet = fs /\ Rns(fs).delim = HDLC_FLAG
         /\ \A b \in Byte : Rns(fs).code[b] = Framing!EncodeByte(b)
<1>1. HDLC_FLAG \in Byte /\ HDLC_ESC \in Byte
  BY DEF Framing!FramingAssumption
<1>2. ASSUME NEW b \in Byte
      PROVE  Framing!EncodeByte(b) \in Seq(Byte) /\ Framing!EncodeByte(b) # <<>>
  <2>1. CASE Framing!EncodeByte(b) = <<HDLC_ESC, Masked[b]>> /\ Masked[b] \in Byte
    BY <1>1, <2>1
  <2>2. CASE Framing!EncodeByte(b) = <<b>>
    BY <2>2
  <2>. QED  BY <2>1, <2>2, RnsBytes
<1>3. /\ Rns(fs).packet = fs /\ Rns(fs).delim = HDLC_FLAG
      /\ \A b \in Byte : Rns(fs).code[b] = Framing!EncodeByte(b)
  BY DEF Rns
<1>. QED  BY <1>1, <1>2, <1>3 DEF IsLine

LEMMA RnsOnLine ==
  ASSUME Framing!FramingAssumption, NEW fs, NEW p \in Seq(Byte)
  PROVE  Framing!Encode(p) = OnLine(Rns(fs), p)
<1>1. [i \in DOMAIN p |-> Framing!EncodeByte(p[i])] = [i \in DOMAIN p |-> Rns(fs).code[p[i]]]
  <2>1. \A i \in DOMAIN p : p[i] \in Byte
    OBVIOUS
  <2>2. \A b \in Byte : Rns(fs).code[b] = Framing!EncodeByte(b)
    BY DEF Rns
  <2>. QED  BY <2>1, <2>2
<1>2. Rns(fs).delim = HDLC_FLAG
  BY DEF Rns
<1>3. \A s : Framing!FlattenSeq(s) = FlattenSeq(s)
  BY DEF Framing!FlattenSeq, FlattenSeq
<1>. QED  BY <1>1, <1>2, <1>3 DEF Framing!Encode, OnLine

(* A flag empties the deframer whatever it held; nothing else hands out     *)
(* anything.                                                                *)
LEMMA AtFlag ==
  ASSUME Framing!FramingAssumption, NEW f
  PROVE  /\ Framing!RxByte(f, HDLC_FLAG) = Framing!EmptyDeframer
         /\ Framing!RxFrame(f, HDLC_FLAG) = IF f.buf = <<>> THEN <<>> ELSE <<f.buf>>
         /\ \A b : b # HDLC_FLAG => Framing!RxFrame(f, b) = <<>>
<1>1. Framing!RxByte(f, HDLC_FLAG) = Framing!EmptyDeframer
  BY DEF Framing!RxByte, Framing!FramingAssumption
<1>2. Framing!RxFrame(f, HDLC_FLAG) = IF f.buf = <<>> THEN <<>> ELSE <<f.buf>>
  BY DEF Framing!RxFrame
<1>3. \A b : b # HDLC_FLAG => Framing!RxFrame(f, b) = <<>>
  BY DEF Framing!RxFrame
<1>. QED  BY <1>1, <1>2, <1>3

Deframer == [buf : Seq(Byte), escaped : BOOLEAN]

LEMMA DeframerTypes ==
  ASSUME Framing!FramingAssumption, NEW f \in Deframer, NEW b \in Byte,
         Len(f.buf) <= RNS_FRAMING_MAX_PACKET
  PROVE  /\ Framing!RxByte(f, b) \in Deframer
         /\ Len(Framing!RxByte(f, b).buf) <= RNS_FRAMING_MAX_PACKET
         /\ Framing!RxFrame(f, b) \in Seq(Seq(Byte))
<1>1. /\ RNS_FRAMING_MAX_PACKET \in Nat \ {0} /\ Masked[b] \in Byte /\ f.buf \in Seq(Byte)
      /\ Len(f.buf) \in Nat
  BY DEF Framing!FramingAssumption, Deframer
<1>2. Framing!EmptyDeframer \in Deframer /\ Framing!EmptyDeframer.buf = <<>>
  BY DEF Framing!EmptyDeframer, Deframer
<1>3. ASSUME NEW x \in Byte
      PROVE  Framing!Store(f, x) \in Deframer /\ Len(Framing!Store(f, x).buf) <= RNS_FRAMING_MAX_PACKET
  <2>. PICK v : v = IF Len(f.buf) < RNS_FRAMING_MAX_PACKET THEN Append(f.buf, x) ELSE f.buf
    OBVIOUS
  <2>1. v \in Seq(Byte) /\ Len(v) <= RNS_FRAMING_MAX_PACKET
    BY <1>1
  <2>2. Framing!Store(f, x) = [buf |-> v, escaped |-> FALSE]
    BY DEF Framing!Store
  <2>. QED  BY <2>1, <2>2 DEF Deframer
<1>4. [f EXCEPT !.escaped = TRUE] \in Deframer /\ [f EXCEPT !.escaped = TRUE].buf = f.buf
  BY DEF Deframer
<1>5. Framing!RxByte(f, b) \in {Framing!EmptyDeframer, Framing!Store(f, Masked[b]),
                                [f EXCEPT !.escaped = TRUE], Framing!Store(f, b)}
  BY Z3 DEF Framing!RxByte
<1>6. Len(<<>>) <= RNS_FRAMING_MAX_PACKET
  BY <1>1
<1>7. /\ Framing!RxByte(f, b) \in Deframer
      /\ Len(Framing!RxByte(f, b).buf) <= RNS_FRAMING_MAX_PACKET
  <2>1. CASE Framing!RxByte(f, b) = Framing!EmptyDeframer
    BY <1>2, <1>6, <2>1
  <2>2. CASE \E x \in Byte : Framing!RxByte(f, b) = Framing!Store(f, x)
    BY <1>3, <2>2
  <2>3. CASE Framing!RxByte(f, b) = [f EXCEPT !.escaped = TRUE]
    BY <1>4, <2>3
  <2>. QED  BY <1>1, <1>5, <2>1, <2>2, <2>3
<1>8. Framing!RxFrame(f, b) \in Seq(Seq(Byte))
  BY <1>1 DEF Framing!RxFrame
<1>. QED  BY <1>7, <1>8

(* The deframer keeps pace: a byte takes what it holds to what it should    *)
(* hold at the next place, and the closing flag of a packet hands it out.   *)
LEMMA KeepsPace ==
  ASSUME Framing!FramingAssumption, NEW fs, NEW n \in Nat,
         \A k \in 1..n : fs[k] \in Seq(Byte), NEW q \in Place(Rns(fs), n)
  PROVE  /\ Framing!RxByte(Deframed(fs, q), ByteAt(Rns(fs), q))
              = Deframed(fs, Following(Rns(fs), q))
         /\ q.at = 0 => /\ ByteAt(Rns(fs), q) = HDLC_FLAG
                        /\ Following(Rns(fs), q).frame = q.frame
                        /\ Deframed(fs, q).buf = <<>>
         /\ q.at # 0 /\ q.at = Closing(Rns(fs), q.frame) =>
              /\ ByteAt(Rns(fs), q) = HDLC_FLAG
              /\ Following(Rns(fs), q) = Between(q.frame + 1)
              /\ Deframed(fs, q).buf = Framing!Cut(fs[q.frame])
         /\ q.at # 0 /\ q.at # Closing(Rns(fs), q.frame) =>
              /\ ByteAt(Rns(fs), q) # HDLC_FLAG
              /\ Following(Rns(fs), q).frame = q.frame /\ Following(Rns(fs), q).at # 0
<1>. PICK c : c = Rns(fs)
  OBVIOUS
<1>1. c = Rns(fs) /\ IsLine(c, n) /\ c.packet = fs /\ c.delim = HDLC_FLAG
      /\ \A b \in Byte : c.code[b] = Framing!EncodeByte(b)
  BY RnsIsLine
<1>2. RNS_FRAMING_MAX_PACKET \in Nat
  BY DEF Framing!FramingAssumption
<1>3. CASE q.at = 0
  <2>1. ByteAt(c, q) = HDLC_FLAG /\ Following(c, q) = At(q.frame, 1)
        /\ Deframed(fs, q) = Framing!EmptyDeframer
    BY <1>1, <1>3 DEF ByteAt, Following, Deframed
  <2>2. q.frame \in 1..(n + 1)
    BY FrameOf, <1>1
  <2>3. Held(fs[q.frame], 1, RNS_FRAMING_MAX_PACKET) = <<>>
    BY <1>2 DEF Held
  <2>4. Deframed(fs, At(q.frame, 1)) = Framing!EmptyDeframer
    BY <2>3 DEF Deframed, At, Framing!EmptyDeframer
  <2>5. At(q.frame, 1).frame = q.frame /\ Framing!EmptyDeframer.buf = <<>>
    BY DEF At, Framing!EmptyDeframer
  <2>. QED  BY <1>1, <1>3, <2>1, <2>4, <2>5, AtFlag
<1>4. CASE q.at # 0
  <2>. PICK k, i, p : k = q.frame /\ i = q.at /\ p = fs[k]
    OBVIOUS
  <2>1. /\ k = q.frame /\ i = q.at /\ p = fs[k]
        /\ k \in 1..n /\ p \in Seq(Byte) /\ Len(p) \in Nat /\ Closing(c, k) = Len(p) + 1
        /\ q = [frame |-> k, at |-> i, part |-> q.part]
        /\ \/ i = Closing(c, k) /\ q.part = 1
           \/ i \in 1..Len(p) /\ p[i] \in Byte /\ q.part \in 1..Len(CodeOf(c, q))
    BY <1>1, <1>4, InPacket
  <2>2. Deframed(fs, q) = [buf |-> Held(p, i, RNS_FRAMING_MAX_PACKET), 
                               escaped |-> IF q.part = 1 THEN FALSE ELSE TRUE]
    BY <1>4, <2>1 DEF Deframed
  <2>3. CASE i = Closing(c, k)
    <3>1. ByteAt(c, q) = HDLC_FLAG /\ Following(c, q) = Between(k + 1)
      BY <1>1, <1>4, <2>1, <2>3 DEF ByteAt, Following
    <3>2. Deframed(fs, Between(k + 1)) = Framing!EmptyDeframer
      BY DEF Deframed, Between, At
    <3>3. Deframed(fs, q).buf = Framing!Cut(p)
      <4>1. Held(p, i, RNS_FRAMING_MAX_PACKET) = Framing!Cut(p)
        BY <1>2, <2>1, <2>3 DEF Held, Framing!Cut
      <4>. QED  BY <2>2, <4>1
    <3>. QED  BY <1>1, <1>4, <2>1, <2>3, <3>1, <3>2, <3>3, AtFlag
  <2>4. CASE i # Closing(c, k)
    <3>. PICK H, G : /\ H = Held(p, i, RNS_FRAMING_MAX_PACKET)
                     /\ G = Held(p, i + 1, RNS_FRAMING_MAX_PACKET)
      OBVIOUS
    <3>1. /\ i \in 1..Len(p) /\ p[i] \in Byte /\ CodeOf(c, q) = Framing!EncodeByte(p[i])
          /\ q.part \in 1..Len(Framing!EncodeByte(p[i]))
      BY <1>1, <2>1, <2>4 DEF CodeOf
    <3>2. G = IF Len(H) < RNS_FRAMING_MAX_PACKET THEN Append(H, p[i]) ELSE H
      BY <1>2, <2>1, <3>1, Holds
    <3>3. \A f : f.buf = H => Framing!Store(f, p[i]) = [buf |-> G, escaped |-> FALSE]
      BY <3>2 DEF Framing!Store
    <3>4. Deframed(fs, At(k, i + 1)) = [buf |-> G, escaped |-> FALSE]
      BY <2>1, <3>1 DEF Deframed, At
    <3>5. At(k, i + 1).frame = k /\ At(k, i + 1).at # 0
      BY <3>1 DEF At
    <3>6. ByteAt(c, q) = CodeOf(c, q)[q.part]
          /\ Following(c, q) = IF q.part < Len(CodeOf(c, q)) THEN [q EXCEPT !.part = q.part + 1]
                               ELSE At(k, i + 1)
      BY <1>4, <2>1, <2>4 DEF ByteAt, Following
    <3>7. CASE /\ p[i] \in {HDLC_FLAG, HDLC_ESC}
               /\ Framing!EncodeByte(p[i]) = <<HDLC_ESC, Masked[p[i]]>>
               /\ Masked[p[i]] \in Byte \ {HDLC_FLAG, HDLC_ESC} /\ Masked[Masked[p[i]]] = p[i]
      <4>1. Len(CodeOf(c, q)) = 2 /\ CodeOf(c, q)[1] = HDLC_ESC /\ CodeOf(c, q)[2] = Masked[p[i]]
        BY <3>1, <3>7
      <4>2. CASE q.part = 1
        <5>1. ByteAt(c, q) = HDLC_ESC /\ Following(c, q) = [frame |-> k, at |-> i, part |-> 2]
          BY <2>1, <3>6, <4>1, <4>2
        <5>2. Deframed(fs, [frame |-> k, at |-> i, part |-> 2]) = [buf |-> H, escaped |-> TRUE]
          BY <1>4, <2>1 DEF Deframed
        <5>3. Deframed(fs, q) = [buf |-> H, escaped |-> FALSE]
          BY <2>2, <4>2
        <5>4. HDLC_ESC # HDLC_FLAG
          BY DEF Framing!FramingAssumption
        <5>5. Framing!RxByte([buf |-> H, escaped |-> FALSE], HDLC_ESC) = [buf |-> H, escaped |-> TRUE]
          BY <5>4 DEF Framing!RxByte
        <5>6. Following(c, q).frame = k /\ Following(c, q).at # 0
          BY <5>1, <1>4, <2>1
        <5>. QED  BY <1>1, <1>4, <2>1, <2>4, <5>1, <5>2, <5>3, <5>4, <5>5, <5>6
      <4>3. CASE q.part = 2
        <5>1. ByteAt(c, q) = Masked[p[i]] /\ Following(c, q) = At(k, i + 1)
          BY <3>6, <4>1, <4>3
        <5>2. Deframed(fs, q) = [buf |-> H, escaped |-> TRUE]
          BY <2>2, <4>3
        <5>3. Framing!RxByte([buf |-> H, escaped |-> TRUE], Masked[p[i]])
                = Framing!Store([buf |-> H, escaped |-> TRUE], p[i])
          BY <3>7 DEF Framing!RxByte
        <5>4. Framing!Store([buf |-> H, escaped |-> TRUE], p[i]) = [buf |-> G, escaped |-> FALSE]
          BY <3>3
        <5>. QED  BY <1>1, <1>4, <2>1, <2>4, <3>4, <3>5, <3>7, <5>1, <5>2, <5>3, <5>4
      <4>. QED  BY <3>1, <4>1, <4>2, <4>3
    <3>8. CASE p[i] \notin {HDLC_FLAG, HDLC_ESC} /\ Framing!EncodeByte(p[i]) = <<p[i]>>
      <4>1. Len(CodeOf(c, q)) = 1 /\ CodeOf(c, q)[1] = p[i] /\ q.part = 1
        BY <3>1, <3>8
      <4>2. ByteAt(c, q) = p[i] /\ Following(c, q) = At(k, i + 1)
        BY <3>6, <4>1
      <4>3. Deframed(fs, q) = [buf |-> H, escaped |-> FALSE]
        BY <2>2, <4>1
      <4>4. Framing!RxByte([buf |-> H, escaped |-> FALSE], p[i])
              = Framing!Store([buf |-> H, escaped |-> FALSE], p[i])
        BY <3>8 DEF Framing!RxByte
      <4>5. Framing!Store([buf |-> H, escaped |-> FALSE], p[i]) = [buf |-> G, escaped |-> FALSE]
        BY <3>3
      <4>. QED  BY <1>1, <1>4, <2>1, <2>4, <3>4, <3>5, <3>8, <4>2, <4>3, <4>4, <4>5
    <3>. QED  BY <3>1, <3>7, <3>8, RnsBytes
  <2>. QED  BY <2>3, <2>4
<1>. QED  BY <1>3, <1>4

\* What the receiver has while the byte at place q is next: of the first
\* packet nothing (it may have joined in the middle of it), of the others all,
\* behind at most one that is the first, or its tail.
FirstPacket(q) ==
  /\ q.frame = 1 /\ received = <<>>
  /\ deframer = Deframed(frames, q) \/ (joined # 0 /\ q.at # 0)

LaterPacket(q) ==
  /\ q.frame >= 2 /\ deframer = Deframed(frames, q)
  /\ \E d \in 0..1 :
       /\ Len(received) = d + (q.frame - 2)
       /\ \A i \in 1..(q.frame - 2) : received[d + i] = Framing!Cut(frames[i + 1])
       /\ joined = 0 => d = 1 /\ received[1] = Framing!Cut(frames[1])

FramingInv ==
  /\ Len(frames) \in Nat \ {0} /\ DOMAIN frames = 1..Len(frames)
  /\ \A k \in 1..Len(frames) : frames[k] \in Seq(Byte) /\ frames[k] # <<>>
  /\ joined \in Nat
  /\ deframer \in Deframer /\ Len(deframer.buf) <= RNS_FRAMING_MAX_PACKET
  /\ received \in Seq(Seq(Byte))
  /\ \E q : /\ Passage(Rns(frames), Len(frames), q, line, Between(Len(frames) + 1))
            /\ FirstPacket(q) \/ LaterPacket(q)

(* What is left of two sequences from a place in the first.                 *)
LEMMA FromThere ==
  ASSUME NEW a \in Seq(Byte), NEW b \in Seq(Byte), NEW d \in 0..Len(a)
  PROVE  SubSeq(a \o b, d + 1, Len(a \o b)) = SubSeq(a, d + 1, Len(a)) \o b
<1>. DEFINE w == SubSeq(a, d + 1, Len(a))
            x == a \o b
            y == SubSeq(x, d + 1, Len(x))
            z == w \o b
<1>1. Len(a) \in Nat /\ Len(b) \in Nat /\ d \in Nat /\ d <= Len(a)
  OBVIOUS
<1>2. x \in Seq(Byte) /\ Len(x) = Len(a) + Len(b)
      /\ \A j \in 1..Len(x) : x[j] = IF j <= Len(a) THEN a[j] ELSE b[j - Len(a)]
  BY <1>1
<1>3. w \in Seq(Byte) /\ Len(w) = Len(a) - d /\ \A j \in 1..(Len(a) - d) : w[j] = a[d + j]
  BY <1>1
<1>. HIDE DEF w
<1>4. z \in Seq(Byte) /\ Len(z) = (Len(a) - d) + Len(b)
      /\ \A j \in 1..Len(z) : z[j] = IF j <= Len(w) THEN w[j] ELSE b[j - Len(w)]
  <2>1. w \in Seq(Byte)
    BY <1>3
  <2>2. z \in Seq(Byte) /\ Len(z) = Len(w) + Len(b)
        /\ \A j \in 1..Len(z) : z[j] = IF j <= Len(w) THEN w[j] ELSE b[j - Len(w)]
    BY <2>1
  <2>. QED  BY <1>3, <2>2
<1>. HIDE DEF x, z
<1>5. y \in Seq(Byte) /\ Len(y) = Len(x) - d /\ \A j \in 1..Len(y) : y[j] = x[d + j]
  BY <1>1, <1>2
<1>. HIDE DEF y
<1>6. Len(y) = Len(z)
  BY <1>1, <1>2, <1>4, <1>5
<1>7. ASSUME NEW j \in 1..Len(y)
      PROVE  y[j] = z[j]
  <2>. PICK i : i = d + j
    OBVIOUS
  <2>1. j \in Nat /\ i = d + j /\ i \in 1..Len(x) /\ j \in 1..Len(z)
    BY <1>1, <1>2, <1>5, <1>6
  <2>2. y[j] = x[i]
    BY <1>5, <2>1
  <2>3. CASE i <= Len(a)
    <3>1. j \in 1..(Len(a) - d) /\ j <= Len(w)
      BY <1>1, <1>3, <2>1, <2>3
    <3>2. x[i] = a[i] /\ w[j] = a[d + j] /\ z[j] = w[j]
      BY <1>2, <1>3, <1>4, <2>1, <2>3, <3>1
    <3>. QED  BY <2>1, <2>2, <3>2
  <2>4. CASE ~(i <= Len(a))
    <3>1. ~(j <= Len(w)) /\ j - Len(w) = i - Len(a)
      BY <1>1, <1>3, <2>1, <2>4
    <3>2. x[i] = b[i - Len(a)] /\ z[j] = b[j - Len(w)]
      BY <1>2, <1>4, <2>1, <2>4, <3>1
    <3>. QED  BY <2>2, <3>1, <3>2
  <2>. QED  BY <2>3, <2>4
<1>8. y = z
  BY <1>4, <1>5, <1>6, <1>7, SeqEqual
<1>. QED  BY <1>8 DEF w, x, y, z

LEMMA FramingInit ==
  ASSUME Framing!FramingAssumption, Framing!Init
  PROVE  FramingInv
<1>. PICK N, c : N = Len(frames) /\ c = Rns(frames)
  OBVIOUS
<1>1. /\ N \in Nat \ {0} /\ DOMAIN frames = 1..N
      /\ \A k \in 1..N : frames[k] \in Seq(Byte) /\ frames[k] # <<>>
  <2>1. PICK n \in 1..MaxFrames : frames \in [1..n -> Framing!Frame]
    BY DEF Framing!Init
  <2>2. n \in Nat \ {0} /\ DOMAIN frames = 1..n /\ \A k \in 1..n : frames[k] \in Framing!Frame
    BY <2>1
  <2>3. Len(frames) = n
    BY <2>1, <2>2
  <2>4. ASSUME NEW p \in Framing!Frame
        PROVE  p \in Seq(Byte) /\ p # <<>>
    <3>1. PICK m \in 1..MaxFrameLen : p \in [1..m -> Byte]
      BY DEF Framing!Frame
    <3>2. m \in Nat \ {0}
      OBVIOUS
    <3>3. p \in Seq(Byte) /\ Len(p) = m
      BY <3>1, <3>2
    <3>. QED  BY <3>2, <3>3
  <2>. QED  BY <2>2, <2>3, <2>4
<1>2. c = Rns(frames) /\ c.packet = frames /\ IsLine(c, N) /\ IsLine(c, 1)
  <2>1. \A k \in 1..1 : frames[k] \in Seq(Byte)
    BY <1>1
  <2>. QED  BY <1>1, <2>1, RnsIsLine
<1>. DEFINE s == [i \in 1..N |-> OnLine(c, frames[i])]
<1>3. Framing!Encoded(frames) = FlattenSeq(s) /\ Framing!Encode(frames[1]) = s[1]
  <2>1. \A k \in 1..N : Framing!Encode(frames[k]) = OnLine(c, frames[k])
    BY <1>1, <1>2, RnsOnLine
  <2>2. [i \in DOMAIN frames |-> Framing!Encode(frames[i])] = s
    BY <1>1, <2>1
  <2>3. \A x : Framing!FlattenSeq(x) = FlattenSeq(x)
    BY DEF Framing!FlattenSeq, FlattenSeq
  <2>4. Framing!Encoded(frames) = FlattenSeq(s)
    <3>. HIDE DEF s
    <3>. QED  BY <2>2, <2>3 DEF Framing!Encoded
  <2>. QED  BY <1>1, <2>1, <2>4
<1>4. Len(s) = N /\ \A k \in 1..N : s[k] = OnLine(c, c.packet[k])
  <2>1. \A k \in 1..N : OnLine(c, frames[k]) \in Seq(Byte)
    <3>1. ASSUME NEW k \in 1..N
          PROVE  OnLine(c, frames[k]) \in Seq(Byte)
      <4>1. IsLine(c, k) /\ k \in Nat \ {0}
        BY <1>1, <1>2 DEF IsLine
      <4>2. Passage(c, k, Between(k), OnLine(c, c.packet[k]), Between(k + 1))
        BY <4>1, OfPacket
      <4>. QED  BY <1>2, <4>2 DEF Passage
    <3>. QED  BY <3>1
  <2>2. s \in Seq(Seq(Byte))
    BY <1>1, <2>1
  <2>. QED  BY <1>1, <1>2, <2>2
<1>. HIDE DEF s
<1>5. PICK rest : /\ FlattenSeq(s) = s[1] \o rest
                  /\ Passage(c, 1, Between(1), s[1], Between(2))
                  /\ Passage(c, N, Between(2), rest, Between(N + 1))
  BY <1>1, <1>2, <1>4, OfPackets
<1>6. s[1] \in Seq(Byte) /\ rest \in Seq(Byte) /\ joined \in 0..Len(s[1])
      /\ Len(s[1]) \in Nat /\ Len(rest) \in Nat
  BY <1>3, <1>5 DEF Passage, Framing!Init
<1>. PICK w : w = SubSeq(s[1], joined + 1, Len(s[1]))
  OBVIOUS
<1>7. PICK q, t : Passage(c, 1, q, w, t) /\ (joined = 0 => q = Between(1)) /\ t = Between(2)
  <2>. PICK n, v, k, d, e : n = 1 /\ v = s[1] /\ k = Len(v) /\ d = joined /\ e = Between(2)
    OBVIOUS
  <2>1. k \in 0..Len(v) /\ n \in Nat /\ d \in 0..k /\ Passage(c, n, Between(1), v, e)
    BY <1>5, <1>6
  <2>. PICK p : p = Between(1)
    OBVIOUS
  <2>2. Passage(c, n, p, v, e)
    BY <2>1
  <2>3. \E q, t : /\ Passage(c, n, q, SubSeq(v, d + 1, k), t)
                  /\ d = 0 => q = p
                  /\ k = Len(v) => t = e
    BY <2>1, <2>2, Piece, Z3
  <2>. QED  BY <2>3
<1>8. line = w \o rest
  <2>1. line = SubSeq(s[1] \o rest, joined + 1, Len(s[1] \o rest))
    BY <1>3, <1>5 DEF Framing!Init
  <2>. QED  BY <1>6, <2>1, FromThere
<1>9. Passage(c, N, q, line, Between(N + 1))
  <2>1. Passage(c, N, q, w, Between(2))
    <3>1. 1 \in Nat /\ N \in Nat /\ 1 <= N
      BY <1>1
    <3>. QED  BY <1>7, <3>1, SentMore
  <2>2. N \in Nat
    BY <1>1
  <2>. QED  BY <1>5, <1>8, <2>1, <2>2, Joined
<1>10. deframer = Framing!EmptyDeframer /\ received = <<>>
       /\ Framing!EmptyDeframer \in Deframer /\ Framing!EmptyDeframer.buf = <<>>
  BY DEF Framing!Init, Framing!EmptyDeframer, Deframer
<1>11. FirstPacket(q) \/ LaterPacket(q)
  <2>1. q \in Place(c, 1)
    <3>1. 1 \in Nat
      OBVIOUS
    <3>. QED  BY <1>7, <3>1, BothEnds
  <2>2. q.frame \in 1..2 /\ (q.at # 0 => q.frame = 1)
    <3>1. 1 \in Nat /\ 1 + 1 = 2 /\ 1..1 = {1}
      OBVIOUS
    <3>. QED  BY <2>1, <3>1, FrameOf
  <2>3. q.at = 0 => Deframed(frames, q) = Framing!EmptyDeframer
    BY DEF Deframed
  <2>4. joined = 0 => q.frame = 1 /\ q.at = 0
    BY <1>7 DEF Between, At
  <2>5. CASE q.frame = 1
    BY <1>10, <2>2, <2>3, <2>4, <2>5 DEF FirstPacket
  <2>6. CASE q.frame = 2
    <3>1. deframer = Deframed(frames, q) /\ joined # 0
      BY <1>10, <2>2, <2>3, <2>4, <2>6
    <3>2. Len(received) = 0 + (q.frame - 2) /\ 1..(q.frame - 2) = {}
      BY <1>10, <2>6
    <3>3. 0 \in 0..1 /\ q.frame >= 2
      BY <2>6
    <3>. QED  BY <3>1, <3>2, <3>3 DEF LaterPacket
  <2>. QED  BY <2>2, <2>5, <2>6
<1>12. joined \in Nat /\ Len(deframer.buf) <= RNS_FRAMING_MAX_PACKET
       /\ received \in Seq(Seq(Byte)) /\ deframer \in Deframer
  BY <1>6, <1>10 DEF Framing!FramingAssumption
<1>. QED  BY <1>1, <1>2, <1>9, <1>11, <1>12 DEF FramingInv

LEMMA CutTypes ==
  ASSUME Framing!FramingAssumption, NEW p \in Seq(Byte), p # <<>>
  PROVE  Framing!Cut(p) \in Seq(Byte) /\ Framing!Cut(p) # <<>>
<1>1. RNS_FRAMING_MAX_PACKET \in Nat \ {0} /\ Len(p) \in Nat \ {0}
  BY EmptySeq DEF Framing!FramingAssumption
<1>. PICK k : k = IF Len(p) < RNS_FRAMING_MAX_PACKET THEN Len(p) ELSE RNS_FRAMING_MAX_PACKET
  OBVIOUS
<1>2. k \in 1..Len(p) /\ Framing!Cut(p) = SubSeq(p, 1, k)
  BY <1>1 DEF Framing!Cut
<1>3. SubSeq(p, 1, k) \in Seq(Byte) /\ Len(SubSeq(p, 1, k)) = k
  BY <1>2
<1>. QED  BY <1>2, <1>3

(* One more element.                                                        *)
LEMMA Pushed ==
  ASSUME NEW S, NEW u \in Seq(S), NEW p \in S, NEW v, v = u \o <<p>>
  PROVE  /\ v \in Seq(S) /\ Len(u) \in Nat /\ Len(v) = Len(u) + 1 /\ v[Len(u) + 1] = p
         /\ \A i \in 1..Len(u) : v[i] = u[i]
<1>1. <<p>> \in Seq(S) /\ Len(<<p>>) = 1 /\ <<p>>[1] = p
  OBVIOUS
<1>. QED  BY <1>1

LEMMA FramingReceive ==
  ASSUME Framing!FramingAssumption, FramingInv, Framing!Receive
  PROVE  FramingInv'
<1>. PICK N, c, b : N = Len(frames) /\ c = Rns(frames) /\ b = Head(line)
  OBVIOUS
<1>1. /\ line # <<>> /\ line' = Tail(line) /\ frames' = frames /\ joined' = joined
      /\ deframer' = Framing!RxByte(deframer, b)
      /\ received' = received \o Framing!RxFrame(deframer, b)
  BY DEF Framing!Receive
<1>2. PICK q : Passage(c, N, q, line, Between(N + 1)) /\ (FirstPacket(q) \/ LaterPacket(q))
  BY DEF FramingInv
<1>3. /\ N \in Nat \ {0} /\ \A k \in 1..N : frames[k] \in Seq(Byte) /\ frames[k] # <<>>
      /\ joined \in Nat /\ deframer \in Deframer /\ Len(deframer.buf) <= RNS_FRAMING_MAX_PACKET
      /\ received \in Seq(Seq(Byte)) /\ DOMAIN frames = 1..N
  BY DEF FramingInv
<1>. PICK r : r = Following(c, q)
  OBVIOUS
<1>4. q \in Place(c, N) /\ r \in Place(c, N) /\ b = ByteAt(c, q)
      /\ Passage(c, N, r, line', Between(N + 1))
  <2>1. N \in Nat
    BY <1>3
  <2>2. Leads(c, N, q, line, Between(N + 1))
    BY <1>1, <1>2, <2>1, FirstByte
  <2>. QED  BY <1>1, <2>2 DEF Leads
<1>5. b \in Byte
  <2>1. line \in Seq(Byte)
    BY <1>2 DEF Passage
  <2>. QED  BY <1>1, <2>1
<1>6. /\ q.frame \in 1..(N + 1) /\ q.at \in Nat /\ (q.at # 0 => q.frame \in 1..N)
  <2>1. N \in Nat
    BY <1>3
  <2>. QED  BY <1>4, <2>1, FrameOf
<1>7. /\ Framing!RxByte(Deframed(frames, q), b) = Deframed(frames, r)
      /\ q.at = 0 => b = HDLC_FLAG /\ r.frame = q.frame /\ Deframed(frames, q).buf = <<>>
      /\ q.at # 0 /\ q.at = Closing(c, q.frame) =>
           /\ b = HDLC_FLAG /\ r = Between(q.frame + 1)
           /\ Deframed(frames, q).buf = Framing!Cut(frames[q.frame])
      /\ q.at # 0 /\ q.at # Closing(c, q.frame) =>
           b # HDLC_FLAG /\ r.frame = q.frame /\ r.at # 0
  <2>1. N \in Nat /\ \A k \in 1..N : frames[k] \in Seq(Byte)
    BY <1>3
  <2>. QED  BY <1>4, <2>1, KeepsPace
<1>8. /\ deframer' \in Deframer /\ Len(deframer'.buf) <= RNS_FRAMING_MAX_PACKET
      /\ Framing!RxFrame(deframer, b) \in Seq(Seq(Byte)) /\ received' \in Seq(Seq(Byte))
  <2>1. /\ Framing!RxByte(deframer, b) \in Deframer
        /\ Len(Framing!RxByte(deframer, b).buf) <= RNS_FRAMING_MAX_PACKET
        /\ Framing!RxFrame(deframer, b) \in Seq(Seq(Byte))
    BY <1>3, <1>5, DeframerTypes
  <2>. QED  BY <1>1, <1>3, <2>1
<1>9. deframer = Deframed(frames, q) => deframer' = Deframed(frames, r)
  BY <1>1, <1>7
<1>10. ASSUME received' = received, r.frame = q.frame,
              deframer' = Deframed(frames, r) \/ (FirstPacket(q) /\ joined # 0 /\ r.at # 0)
       PROVE  FirstPacket(r)' \/ LaterPacket(r)'
  <2>1. CASE FirstPacket(q)
    BY <1>1, <1>10, <2>1 DEF FirstPacket
  <2>2. CASE LaterPacket(q) /\ ~FirstPacket(q)
    BY <1>1, <1>10, <2>2 DEF LaterPacket
  <2>. QED  BY <1>2, <2>1, <2>2
<1>11. ASSUME q.at = 0
       PROVE  FirstPacket(r)' \/ LaterPacket(r)'
  <2>1. deframer = Deframed(frames, q)
    BY <1>2, <1>11 DEF FirstPacket, LaterPacket
  <2>2. Framing!RxFrame(deframer, b) = <<>>
    BY <1>7, <1>11, <2>1, AtFlag
  <2>3. received' = received
    BY <1>1, <1>3, <2>2
  <2>. QED  BY <1>7, <1>9, <1>10, <1>11, <2>1, <2>3
<1>12. ASSUME q.at # 0, q.at # Closing(c, q.frame)
       PROVE  FirstPacket(r)' \/ LaterPacket(r)'
  <2>1. Framing!RxFrame(deframer, b) = <<>>
    BY <1>7, <1>12, AtFlag
  <2>2. received' = received
    BY <1>1, <1>3, <2>1
  <2>3. deframer = Deframed(frames, q) \/ (FirstPacket(q) /\ joined # 0)
    BY <1>2 DEF FirstPacket, LaterPacket
  <2>. QED  BY <1>7, <1>9, <1>10, <1>12, <2>2, <2>3
<1>13. ASSUME q.at # 0, q.at = Closing(c, q.frame)
       PROVE  FirstPacket(r)' \/ LaterPacket(r)'
  <2>1. /\ deframer' = Framing!EmptyDeframer
        /\ received' = received \o (IF deframer.buf = <<>> THEN <<>> ELSE <<deframer.buf>>)
    BY <1>1, <1>7, <1>13, AtFlag
  <2>2. r.frame = q.frame + 1 /\ r.at = 0 /\ Deframed(frames, r) = Framing!EmptyDeframer
    BY <1>7, <1>13 DEF Between, At, Deframed
  <2>3. q.frame \in 1..N /\ Framing!Cut(frames[q.frame]) \in Seq(Byte)
        /\ Framing!Cut(frames[q.frame]) # <<>>
    BY <1>3, <1>6, <1>13, CutTypes
  <2>4. deframer.buf \in Seq(Byte)
    BY <1>3 DEF Deframer
  <2>5. CASE FirstPacket(q)
    <3>1. q.frame = 1 /\ received = <<>> /\ (joined = 0 => deframer = Deframed(frames, q))
      BY <2>5 DEF FirstPacket
    <3>2. joined = 0 => deframer.buf = Framing!Cut(frames[1])
      BY <1>7, <1>13, <3>1
    <3>3. received' = IF deframer.buf = <<>> THEN <<>> ELSE <<deframer.buf>>
      BY <2>1, <2>4, <3>1
    <3>4. \E d \in 0..1 : Len(received') = d /\ (joined = 0 => d = 1 /\ received'[1] = Framing!Cut(frames[1]))
      <4>1. CASE deframer.buf = <<>>
        <5>1. Len(received') = 0 /\ joined # 0
          BY <2>3, <3>1, <3>2, <3>3, <4>1
        <5>. QED  BY <5>1
      <4>2. CASE deframer.buf # <<>>
        <5>1. received' = <<deframer.buf>>
          BY <3>3, <4>2
        <5>2. Len(received') = 1 /\ received'[1] = deframer.buf
          BY <5>1
        <5>. QED  BY <3>2, <5>2
      <4>. QED  BY <4>1, <4>2
    <3>5. r.frame = 2 /\ r.frame - 2 = 0 /\ 1..(r.frame - 2) = {} /\ r.frame >= 2
      BY <2>2, <3>1
    <3>6. \E d \in 0..1 :
            /\ Len(received') = d + (r.frame - 2)
            /\ \A i \in 1..(r.frame - 2) : received'[d + i] = Framing!Cut(frames'[i + 1])
            /\ joined' = 0 => d = 1 /\ received'[1] = Framing!Cut(frames'[1])
      <4>1. PICK d \in 0..1 : Len(received') = d
                              /\ (joined = 0 => d = 1 /\ received'[1] = Framing!Cut(frames[1]))
        BY <3>4
      <4>2. d + (r.frame - 2) = d
        BY <3>5
      <4>. QED  BY <1>1, <3>5, <4>1, <4>2
    <3>. QED  BY <1>1, <2>1, <2>2, <3>5, <3>6 DEF LaterPacket
  <2>6. CASE LaterPacket(q)
    <3>1. q.frame >= 2 /\ deframer = Deframed(frames, q)
      BY <2>6 DEF LaterPacket
    <3>2. PICK d \in 0..1 :
            /\ Len(received) = d + (q.frame - 2)
            /\ \A i \in 1..(q.frame - 2) : received[d + i] = Framing!Cut(frames[i + 1])
            /\ joined = 0 => d = 1 /\ received[1] = Framing!Cut(frames[1])
      BY <2>6 DEF LaterPacket
    <3>. PICK p, k : p = Framing!Cut(frames[q.frame]) /\ k = q.frame
      OBVIOUS
    <3>3. p \in Seq(Byte) /\ p # <<>> /\ k \in 1..N /\ k >= 2 /\ Len(received) = d + (k - 2)
          /\ p = Framing!Cut(frames[k]) /\ k = q.frame
      BY <2>3, <3>1, <3>2
    <3>4. received' = received \o <<p>>
      BY <1>7, <1>13, <2>1, <3>1, <3>3
    <3>5. Len(received') = Len(received) + 1 /\ received'[Len(received) + 1] = p
          /\ \A i \in 1..Len(received) : received'[i] = received[i]
        <4>. PICK u, v : u = received /\ v = received'
        OBVIOUS
      <4>1. u \in Seq(Seq(Byte)) /\ p \in Seq(Byte) /\ v = u \o <<p>>
        BY <1>3, <3>3, <3>4
      <4>2. Len(v) = Len(u) + 1 /\ v[Len(u) + 1] = p /\ \A i \in 1..Len(u) : v[i] = u[i]
        BY <4>1, Pushed
      <4>. QED  BY <4>2
    <3>6. r.frame = k + 1 /\ r.frame >= 2 /\ r.frame - 2 = k - 1 /\ d + (k - 1) = Len(received) + 1
      BY <2>2, <3>3
    <3>7. ASSUME NEW i \in 1..(k - 1)
          PROVE  received'[d + i] = Framing!Cut(frames[i + 1])
      <4>1. CASE i = k - 1
        <5>1. d + i = Len(received) + 1 /\ i + 1 = k
          BY <3>3, <4>1
        <5>. QED  BY <3>3, <3>5, <5>1
      <4>2. CASE i # k - 1
        <5>1. i \in 1..(k - 2) /\ d + i \in 1..Len(received)
          <6>. PICK l : l = Len(received)
            OBVIOUS
          <6>1. k \in Nat /\ k >= 2 /\ l = d + (k - 2) /\ d \in 0..1 /\ i \in Nat /\ i # k - 1
            BY <1>3, <3>3, <4>2
          <6>2. i \in 1..(k - 2) /\ d + i \in 1..l
            BY <6>1
          <6>. QED  BY <6>2
        <5>2. received[d + i] = Framing!Cut(frames[i + 1])
          BY <3>2, <3>3, <5>1
        <5>. QED  BY <3>5, <5>1, <5>2
      <4>. QED  BY <4>1, <4>2
    <3>8. joined = 0 => d = 1 /\ received'[1] = Framing!Cut(frames[1])
      <4>1. joined = 0 => d = 1 /\ 1 \in 1..Len(received)
        BY <3>2, <3>3
      <4>. QED  BY <3>2, <3>5, <4>1
    <3>9. Len(received') = d + (r.frame - 2)
      BY <3>3, <3>5, <3>6
    <3>10. \A i \in 1..(r.frame - 2) : received'[d + i] = Framing!Cut(frames'[i + 1])
      BY <1>1, <3>6, <3>7
    <3>. QED  BY <1>1, <2>1, <2>2, <3>6, <3>8, <3>9, <3>10 DEF LaterPacket
  <2>. QED  BY <1>2, <2>5, <2>6
<1>14. \E x : /\ Passage(c, N, x, line', Between(N + 1))
              /\ FirstPacket(x)' \/ LaterPacket(x)'
  BY <1>4, <1>11, <1>12, <1>13
<1>15. Rns(frames)' = c /\ Len(frames)' = N
  BY <1>1
<1>. QED  BY <1>1, <1>3, <1>8, <1>14, <1>15 DEF FramingInv

LEMMA SuffixOf ==
  ASSUME NEW S, NEW s \in Seq(S), NEW t \in Seq(S), NEW d \in Nat, Len(t) = d + Len(s),
         \A i \in 1..Len(s) : t[d + i] = s[i]
  PROVE  IsSuffix(s, t)
<1>. PICK m, n : m = Len(s) /\ n = Len(t)
  OBVIOUS
<1>1. m \in Nat /\ n \in Nat /\ n = d + m /\ m = Len(s) /\ n = Len(t)
      /\ (\A i \in 1..m : s[i] \in S) /\ (\A i \in 1..n : t[i] \in S)
      /\ (\A i \in 1..m : t[d + i] = s[i])
  OBVIOUS
<1>. DEFINE u == [i \in 1..m |-> s[(m - i) + 1]]
            v == [i \in 1..n |-> t[(n - i) + 1]]
<1>2. Reverse(s) = u /\ Reverse(t) = v
  BY <1>1 DEF Reverse
<1>3. u \in Seq(S) /\ Len(u) = m /\ \A i \in 1..m : u[i] = s[(m - i) + 1]
  <2>1. \A i \in 1..m : (m - i) + 1 \in 1..m
    BY <1>1
  <2>2. u \in [1..m -> S]
    BY <1>1, <2>1
  <2>. QED  BY <1>1, <2>2
<1>4. v \in Seq(S) /\ Len(v) = n /\ \A i \in 1..n : v[i] = t[(n - i) + 1]
  <2>1. \A i \in 1..n : (n - i) + 1 \in 1..n
    BY <1>1
  <2>2. v \in [1..n -> S]
    BY <1>1, <2>1
  <2>. QED  BY <1>1, <2>2
<1>. HIDE DEF u, v
<1>5. ASSUME NEW i \in 1..m
      PROVE  u[i] = v[i]
  <2>1. (m - i) + 1 \in 1..m /\ (n - i) + 1 = d + ((m - i) + 1) /\ i \in 1..n
    BY <1>1
  <2>2. t[d + ((m - i) + 1)] = s[(m - i) + 1]
    BY <1>1, <2>1
  <2>. QED  BY <1>3, <1>4, <2>1, <2>2
<1>6. SubSeq(u, 1, m) = SubSeq(v, 1, m)
  <2>1. \A i \in 1..m : u[i] = v[i]
    BY <1>5
  <2>2. m <= n
    BY <1>1
  <2>. DEFINE x == SubSeq(u, 1, m)
              y == SubSeq(v, 1, m)
  <2>3. x \in Seq(S) /\ Len(x) = m /\ \A i \in 1..m : x[i] = u[i]
    BY <1>1, <1>3
  <2>4. y \in Seq(S) /\ Len(y) = m /\ \A i \in 1..m : y[i] = v[i]
    BY <1>1, <1>4, <2>2
  <2>. HIDE DEF x, y
  <2>5. x = y
    BY <2>1, <2>3, <2>4, SeqEqual
  <2>. QED  BY <2>5 DEF x, y
<1>7. Len(u) <= Len(v) /\ SubSeq(u, 1, Len(u)) = SubSeq(v, 1, Len(u))
  BY <1>1, <1>3, <1>4, <1>6
<1>. QED  BY <1>2, <1>7 DEF IsSuffix, IsPrefix

LEMMA FramingDone ==
  ASSUME Framing!FramingAssumption, FramingInv
  PROVE  Framing!TypeOK /\ Framing!RoundTrip /\ Framing!Resynchronises
<1>. PICK N : N = Len(frames)
  OBVIOUS
<1>1. /\ N \in Nat \ {0} /\ DOMAIN frames = 1..N
      /\ \A k \in 1..N : frames[k] \in Seq(Byte) /\ frames[k] # <<>>
      /\ joined \in Nat /\ deframer \in Deframer /\ Len(deframer.buf) <= RNS_FRAMING_MAX_PACKET
      /\ received \in Seq(Seq(Byte))
  BY DEF FramingInv
<1>2. Framing!TypeOK
  BY <1>1 DEF Framing!TypeOK, Deframer
<1>3. \A k \in 1..N : Framing!Cut(frames[k]) \in Seq(Byte)
  BY <1>1, CutTypes
<1>4. ASSUME line = <<>>
      PROVE  \E d \in 0..1 :
               /\ Len(received) = d + (N - 1)
               /\ \A i \in 1..(N - 1) : received[d + i] = Framing!Cut(frames[i + 1])
               /\ joined = 0 => d = 1 /\ received[1] = Framing!Cut(frames[1])
  <2>1. PICK q : /\ Passage(Rns(frames), N, q, line, Between(N + 1))
                 /\ FirstPacket(q) \/ LaterPacket(q)
    BY DEF FramingInv
  <2>2. q = Between(N + 1)
    <3>1. N \in Nat
      BY <1>1
    <3>. QED  BY <1>4, <2>1, <3>1, BothEnds
  <2>3. q.frame = N + 1 /\ q.frame # 1 /\ q.frame - 2 = N - 1
    BY <1>1, <2>2 DEF Between, At
  <2>4. LaterPacket(q)
    BY <2>1, <2>3 DEF FirstPacket
  <2>. QED  BY <2>3, <2>4 DEF LaterPacket
<1>5. Framing!RoundTrip
  <2>1. ASSUME joined = 0, line = <<>>
        PROVE  received = [i \in DOMAIN frames |-> Framing!Cut(frames[i])]
    <3>1. /\ Len(received) = N /\ received[1] = Framing!Cut(frames[1])
          /\ \A i \in 1..(N - 1) : received[1 + i] = Framing!Cut(frames[i + 1])
      <4>1. PICK d \in 0..1 : /\ Len(received) = d + (N - 1)
                              /\ \A i \in 1..(N - 1) : received[d + i] = Framing!Cut(frames[i + 1])
                              /\ joined = 0 => d = 1 /\ received[1] = Framing!Cut(frames[1])
        BY <1>4, <2>1
      <4>2. d = 1 /\ 1 + (N - 1) = N
        BY <1>1, <2>1, <4>1
      <4>. QED  BY <2>1, <4>1, <4>2
    <3>2. ASSUME NEW k \in 1..N
          PROVE  received[k] = Framing!Cut(frames[k])
      <4>1. CASE k = 1
        BY <3>1, <4>1
      <4>2. CASE k # 1
        <5>. PICK i : i = k - 1
          OBVIOUS
        <5>1. i \in 1..(N - 1) /\ 1 + i = k /\ i + 1 = k
          BY <1>1, <4>2
        <5>. QED  BY <3>1, <5>1
      <4>. QED  BY <4>1, <4>2
    <3>3. received = [i \in 1..N |-> received[i]]
      <4>1. DOMAIN received = 1..N /\ received = [i \in DOMAIN received |-> received[i]]
        BY <1>1, <3>1
      <4>. QED  BY <4>1
    <3>4. [i \in 1..N |-> received[i]] = [i \in 1..N |-> Framing!Cut(frames[i])]
      BY <3>2
    <3>. QED  BY <1>1, <3>3, <3>4
  <2>. QED  BY <2>1 DEF Framing!RoundTrip
<1>6. Framing!Resynchronises
  <2>. DEFINE later == [i \in 1..(N - 1) |-> Framing!Cut(frames[i + 1])]
  <2>1. ASSUME line = <<>>
        PROVE  Framing!IsSuffix(later, received) /\ Len(received) <= Len(later) + 1
    <3>1. PICK d \in 0..1 : /\ Len(received) = d + (N - 1)
                            /\ \A i \in 1..(N - 1) : received[d + i] = Framing!Cut(frames[i + 1])
      BY <1>4, <2>1
    <3>2. N - 1 \in Nat /\ \A i \in 1..(N - 1) : i + 1 \in 1..N
      BY <1>1
    <3>3. \A i \in 1..(N - 1) : Framing!Cut(frames[i + 1]) \in Seq(Byte)
      BY <1>3, <3>2
    <3>4. later \in Seq(Seq(Byte)) /\ Len(later) = N - 1
          /\ \A i \in 1..(N - 1) : later[i] = Framing!Cut(frames[i + 1])
      <4>. PICK m : m = N - 1
        OBVIOUS
      <4>1. m \in Nat /\ later \in [1..m -> Seq(Byte)]
        BY <3>2, <3>3
      <4>2. \A i \in 1..m : later[i] = Framing!Cut(frames[i + 1])
        OBVIOUS
      <4>. HIDE DEF later
      <4>3. later \in Seq(Seq(Byte)) /\ Len(later) = m
        BY <4>1
      <4>. QED  BY <4>2, <4>3
    <3>. HIDE DEF later
    <3>5. d \in Nat /\ Len(received) = d + Len(later)
          /\ \A i \in 1..Len(later) : received[d + i] = later[i]
      BY <3>1, <3>4
    <3>6. IsSuffix(later, received)
      BY <1>1, <3>4, <3>5, SuffixOf
    <3>7. Framing!IsSuffix(later, received)
      BY <3>6 DEF Framing!IsSuffix, Framing!IsPrefix, Framing!Reverse, IsSuffix, IsPrefix, Reverse
    <3>8. Len(received) <= Len(later) + 1
      BY <3>2, <3>4, <3>5
    <3>. QED  BY <3>7, <3>8
  <2>2. N = Len(frames)
    OBVIOUS
  <2>. QED  BY <2>1, <2>2 DEF Framing!Resynchronises
<1>. QED  BY <1>2, <1>5, <1>6

(* A receiver that sees the whole stream gets every packet that was sent,   *)
(* in order, escapes undone, cut only to the deframer's buffer; one that    *)
(* joins inside the first packet gets all the others, behind at most one    *)
(* that is the rest of the first: for all packets, buffers and bytes where  *)
(* it joins (rns_framing.c:9-26, rns_framing_encode; 40-59,                 *)
(* rns_framing_rx_byte).                                                    *)
THEOREM StreamResynchronises ==
  ASSUME Framing!FramingAssumption
  PROVE  /\ Framing!Spec => [](Framing!TypeOK /\ Framing!RoundTrip /\ Framing!Resynchronises)
         /\ InputsSpec => []FramesArrive
<1>1. Framing!Init => FramingInv
  BY FramingInit
<1>2. FramingInv /\ [Framing!Next]_Framing!vars => FramingInv'
  <2>1. CASE Framing!Next
    BY <2>1, FramingReceive DEF Framing!Next
  <2>2. ASSUME UNCHANGED Framing!vars, FramingInv
        PROVE  FramingInv'
    <3>1. /\ frames' = frames /\ joined' = joined /\ line' = line
          /\ deframer' = deframer /\ received' = received
      BY <2>2 DEF Framing!vars
    <3>. QED  BY <2>2, <3>1 DEF FramingInv, FirstPacket, LaterPacket
  <2>. QED  BY <2>1, <2>2
<1>3. FramingInv => Framing!TypeOK /\ Framing!RoundTrip /\ Framing!Resynchronises
  BY FramingDone
<1>4. Framing!Spec => [](Framing!TypeOK /\ Framing!RoundTrip /\ Framing!Resynchronises)
  BY <1>1, <1>2, <1>3, PTL DEF Framing!Spec
<1>5. InputsInit /\ Runs("deframer") => Framing!Init
  BY DEF InputsInit, Runs
<1>6. [InputsNext]_<<part, inputVars>> =>
        /\ Runs("deframer")' <=> Runs("deframer")
        /\ Runs("deframer") => [Framing!Next]_(Framing!vars)
  BY DEF Runs, InputsNext, inputVars, framingVars, Framing!vars
<1>7. Runs("deframer") => ((Framing!RoundTrip /\ Framing!Resynchronises) => FramesArrive)
  BY DEF FramesArrive
<1>8. ~Runs("deframer") => FramesArrive
  BY DEF Runs, FramesArrive
<1>9. InputsSpec => []FramesArrive
  BY <1>4, <1>5, <1>6, <1>7, <1>8, PTL DEF InputsSpec, Framing!Spec
<1>. QED  BY <1>4, <1>9

-----------------------------------------------------------------------------
(* The serial line to the radio: the line of the datagrams ds, and what     *)
(* slip_rx_task holds at a place of it.                                     *)
Slip(ds) == [packet |-> ds, code |-> [b \in Byte |-> Serial!EncodeByte(b)],
             delim |-> SLIP_END]

Kept(ds, q) ==
  IF q.at = 0 THEN Serial!Empty
  ELSE [rxbuf   |-> Held(ds[q.frame], q.at, SLIP_BUF_SIZE),
        escaped |-> IF q.part = 1 THEN FALSE ELSE TRUE]

LEMMA Four ==
  ASSUME NEW a, NEW b, NEW c, NEW d, Cardinality({a, b, c, d}) = 4
  PROVE  a # b /\ a # c /\ a # d /\ b # c /\ b # d /\ c # d
<1>. DEFINE Size(S) == Cardinality(S)
<1>1. IsFiniteSet({d}) /\ Size({d}) = 1
  BY FS_Singleton
<1>2. \A S, x : IsFiniteSet(S) =>
        /\ IsFiniteSet(S \union {x})
        /\ Size(S \union {x}) = IF x \in S THEN Size(S) ELSE Size(S) + 1
  BY FS_AddElement
<1>3. \A S : IsFiniteSet(S) => Size(S) \in Nat
  BY FS_CardinalityType
<1>4. {c, d} = {d} \union {c} /\ {b, c, d} = {c, d} \union {b}
      /\ {a, b, c, d} = {b, c, d} \union {a}
  OBVIOUS
<1>. HIDE DEF Size
<1>5. /\ IsFiniteSet({c, d}) /\ IsFiniteSet({b, c, d})
      /\ Size({c, d}) = IF c \in {d} THEN Size({d}) ELSE Size({d}) + 1
      /\ Size({b, c, d}) = IF b \in {c, d} THEN Size({c, d}) ELSE Size({c, d}) + 1
      /\ Size({a, b, c, d}) = IF a \in {b, c, d} THEN Size({b, c, d}) ELSE Size({b, c, d}) + 1
  <2>1. IsFiniteSet({c, d}) /\ Size({c, d}) = IF c \in {d} THEN Size({d}) ELSE Size({d}) + 1
    <3>1. IsFiniteSet({d} \union {c})
          /\ Size({d} \union {c}) = IF c \in {d} THEN Size({d}) ELSE Size({d}) + 1
      BY <1>1, <1>2
    <3>. QED  BY <3>1, <1>4
  <2>2. IsFiniteSet({b, c, d})
        /\ Size({b, c, d}) = IF b \in {c, d} THEN Size({c, d}) ELSE Size({c, d}) + 1
    BY <2>1, <1>2, <1>4
  <2>3. Size({a, b, c, d}) = IF a \in {b, c, d} THEN Size({b, c, d}) ELSE Size({b, c, d}) + 1
    BY <2>2, <1>2, <1>4
  <2>. QED  BY <2>1, <2>2, <2>3
<1>6. Size({a, b, c, d}) = 4
  BY DEF Size
<1>. PICK k, l, m : k = Size({d}) /\ l = Size({c, d}) /\ m = Size({b, c, d})
  OBVIOUS
<1>7. k = 1 /\ l \in {k, k + 1} /\ m \in {l, l + 1} /\ 4 \in {m, m + 1}
      /\ (c \in {d} => l = k) /\ (b \in {c, d} => m = l) /\ (a \in {b, c, d} => 4 = m)
  BY <1>1, <1>5, <1>6
<1>8. c \notin {d} /\ b \notin {c, d} /\ a \notin {b, c, d}
  BY <1>7
<1>. QED  BY <1>8

LEMMA Sizes ==
  \A S : /\ Serial!Cardinality(S) = Cardinality(S)
         /\ Serial!IsFiniteSet(S) <=> IsFiniteSet(S)
<1>1. \A S : Serial!Cardinality(S) = Cardinality(S)
  BY DEF Serial!Cardinality, Cardinality
<1>2. \A S : Serial!IsFiniteSet(S) <=> IsFiniteSet(S)
  BY DEF Serial!IsFiniteSet, IsFiniteSet
<1>. QED  BY <1>1, <1>2

LEMMA SlipBytes ==
  ASSUME Serial!SlipAssumption, NEW b \in Byte
  PROVE  \/ /\ b \in {SLIP_END, SLIP_ESC}
            /\ \E x \in Byte \ {SLIP_END, SLIP_ESC} :
                 Serial!EncodeByte(b) = <<SLIP_ESC, x>> /\ Serial!Unescaped(x) = b
         \/ b \notin {SLIP_END, SLIP_ESC} /\ Serial!EncodeByte(b) = <<b>>
<1>1. /\ SLIP_END # SLIP_ESC /\ SLIP_ESC_END # SLIP_ESC_ESC
      /\ SLIP_ESC_END \in Byte \ {SLIP_END, SLIP_ESC}
      /\ SLIP_ESC_ESC \in Byte \ {SLIP_END, SLIP_ESC}
  <2>1. Cardinality({SLIP_END, SLIP_ESC, SLIP_ESC_END, SLIP_ESC_ESC}) = 4
        /\ SLIP_ESC_END \in Byte /\ SLIP_ESC_ESC \in Byte
    BY Sizes DEF Serial!SlipAssumption
  <2>. QED  BY <2>1, Four
<1>2. Serial!Unescaped(SLIP_ESC_END) = SLIP_END /\ Serial!Unescaped(SLIP_ESC_ESC) = SLIP_ESC
  BY <1>1 DEF Serial!Unescaped
<1>3. CASE b = SLIP_END
  <2>1. Serial!EncodeByte(b) = <<SLIP_ESC, SLIP_ESC_END>>
    BY <1>1, <1>3 DEF Serial!EncodeByte
  <2>. QED  BY <1>1, <1>2, <1>3, <2>1
<1>4. CASE b = SLIP_ESC
  <2>1. Serial!EncodeByte(b) = <<SLIP_ESC, SLIP_ESC_ESC>>
    BY <1>1, <1>4 DEF Serial!EncodeByte
  <2>. QED  BY <1>1, <1>2, <1>4, <2>1
<1>5. CASE b \notin {SLIP_END, SLIP_ESC}
  BY <1>5 DEF Serial!EncodeByte
<1>. QED  BY <1>3, <1>4, <1>5

LEMMA SlipIsLine ==
  ASSUME Serial!SlipAssumption, NEW ds, NEW n \in Nat, \A k \in 1..n : ds[k] \in Seq(Byte)
  PROVE  /\ IsLine(Slip(ds), n) /\ Slip(ds).packet = ds /\ Slip(ds).delim = SLIP_END
         /\ \A b \in Byte : Slip(ds).code[b] = Serial!EncodeByte(b)
<1>1. SLIP_END \in Byte /\ SLIP_ESC \in Byte
  BY DEF Serial!SlipAssumption
<1>2. ASSUME NEW b \in Byte
      PROVE  Serial!EncodeByte(b) \in Seq(Byte) /\ Serial!EncodeByte(b) # <<>>
  <2>1. CASE \E x \in Byte : Serial!EncodeByte(b) = <<SLIP_ESC, x>>
    BY <1>1, <2>1
  <2>2. CASE Serial!EncodeByte(b) = <<b>>
    BY <2>2
  <2>. QED  BY <2>1, <2>2, SlipBytes
<1>3. /\ Slip(ds).packet = ds /\ Slip(ds).delim = SLIP_END
      /\ \A b \in Byte : Slip(ds).code[b] = Serial!EncodeByte(b)
  BY DEF Slip
<1>. QED  BY <1>1, <1>2, <1>3 DEF IsLine

LEMMA SlipOnLine ==
  ASSUME NEW ds, NEW d \in Seq(Byte)
  PROVE  Serial!Output(d) = OnLine(Slip(ds), d)
<1>1. [i \in DOMAIN d |-> Serial!EncodeByte(d[i])] = [i \in DOMAIN d |-> Slip(ds).code[d[i]]]
  <2>1. \A i \in DOMAIN d : d[i] \in Byte
    OBVIOUS
  <2>2. \A b \in Byte : Slip(ds).code[b] = Serial!EncodeByte(b)
    BY DEF Slip
  <2>. QED  BY <2>1, <2>2
<1>2. Slip(ds).delim = SLIP_END
  BY DEF Slip
<1>3. \A s : Serial!FlattenSeq(s) = FlattenSeq(s)
  BY DEF Serial!FlattenSeq, FlattenSeq
<1>. QED  BY <1>1, <1>2, <1>3 DEF Serial!Output, Serial!Escaped, OnLine

IsEscape(x, r) == x = [r EXCEPT !.escaped = TRUE]

LEMMA AnEscape ==
  ASSUME NEW h, NEW r, NEW x, r = [rxbuf |-> h, escaped |-> FALSE], IsEscape(x, r)
  PROVE  x = [rxbuf |-> h, escaped |-> TRUE]
BY DEF IsEscape

(* The receiver keeps pace: a byte that arrives as it was sent takes what   *)
(* it holds to what it should hold at the next place.                       *)
LEMMA SlipKeepsPace ==
  ASSUME Serial!SlipAssumption, NEW ds, NEW n \in Nat,
         \A k \in 1..n : ds[k] \in Seq(Byte) /\ Len(ds[k]) <= SLIP_BUF_SIZE,
         NEW q \in Place(Slip(ds), n), Serial!RxByte(ByteAt(Slip(ds), q))
  PROVE  /\ q.at = 0 =>
              /\ Following(Slip(ds), q) = At(q.frame, 1) /\ Kept(ds, q) = Serial!Empty
              /\ Kept(ds, Following(Slip(ds), q)) = Serial!Empty
              /\ slip_rx' = Serial!Empty
              /\ input' = IF slip_rx.rxbuf = <<>> THEN input ELSE Append(input, slip_rx.rxbuf)
         /\ q.at # 0 /\ q.at = Closing(Slip(ds), q.frame) =>
              /\ Following(Slip(ds), q) = Between(q.frame + 1)
              /\ Kept(ds, q).rxbuf = ds[q.frame]
              /\ slip_rx' = Serial!Empty
              /\ input' = IF slip_rx.rxbuf = <<>> THEN input ELSE Append(input, slip_rx.rxbuf)
         /\ q.at # 0 /\ q.at # Closing(Slip(ds), q.frame) =>
              /\ Following(Slip(ds), q).frame = q.frame /\ Following(Slip(ds), q).at # 0
              /\ input' = input
              /\ slip_rx = Kept(ds, q) => slip_rx' = Kept(ds, Following(Slip(ds), q))
<1>. PICK c : c = Slip(ds)
  OBVIOUS
<1>1. c = Slip(ds) /\ IsLine(c, n) /\ c.packet = ds /\ c.delim = SLIP_END
      /\ \A b \in Byte : c.code[b] = Serial!EncodeByte(b)
  BY SlipIsLine
<1>2. SLIP_BUF_SIZE \in Nat /\ SLIP_END # SLIP_ESC
  <2>1. SLIP_END # SLIP_ESC
    BY Sizes, Four DEF Serial!SlipAssumption
  <2>. QED  BY <2>1 DEF Serial!SlipAssumption
<1>3. ASSUME ByteAt(c, q) = SLIP_END
      PROVE  /\ slip_rx' = Serial!Empty
             /\ input' = IF slip_rx.rxbuf = <<>> THEN input ELSE Append(input, slip_rx.rxbuf)
  BY <1>1, <1>2, <1>3 DEF Serial!RxByte
<1>4. CASE q.at = 0
  <2>1. ByteAt(c, q) = SLIP_END /\ Following(c, q) = At(q.frame, 1) /\ Kept(ds, q) = Serial!Empty
    BY <1>1, <1>4 DEF ByteAt, Following, Kept
  <2>2. Held(ds[q.frame], 1, SLIP_BUF_SIZE) = <<>>
    BY <1>2 DEF Held
  <2>3. Kept(ds, At(q.frame, 1)) = Serial!Empty
    BY <2>2 DEF Kept, At, Serial!Empty
  <2>. QED  BY <1>1, <1>3, <1>4, <2>1, <2>3
<1>5. CASE q.at # 0
  <2>. PICK k, i, p : k = q.frame /\ i = q.at /\ p = ds[k]
    OBVIOUS
  <2>1. /\ k = q.frame /\ i = q.at /\ p = ds[k]
        /\ k \in 1..n /\ p \in Seq(Byte) /\ Len(p) \in Nat /\ Closing(c, k) = Len(p) + 1
        /\ q = [frame |-> k, at |-> i, part |-> q.part] /\ Len(p) <= SLIP_BUF_SIZE
        /\ \/ i = Closing(c, k) /\ q.part = 1
           \/ i \in 1..Len(p) /\ p[i] \in Byte /\ q.part \in 1..Len(CodeOf(c, q))
    BY <1>1, <1>5, InPacket
  <2>2. Kept(ds, q) = [rxbuf |-> Held(p, i, SLIP_BUF_SIZE),
                       escaped |-> IF q.part = 1 THEN FALSE ELSE TRUE]
    BY <1>5, <2>1 DEF Kept
  <2>3. CASE i = Closing(c, k)
    <3>1. ByteAt(c, q) = SLIP_END /\ Following(c, q) = Between(k + 1)
      BY <1>1, <1>5, <2>1, <2>3 DEF ByteAt, Following
    <3>2. Held(p, i, SLIP_BUF_SIZE) = p
      <4>1. (Len(p) + 1) - 1 = Len(p)
        BY <2>1
      <4>2. IF Len(p) < SLIP_BUF_SIZE THEN TRUE ELSE SLIP_BUF_SIZE = Len(p)
        BY <1>2, <2>1
      <4>3. Held(p, i, SLIP_BUF_SIZE) = SubSeq(p, 1, Len(p))
        BY <2>1, <2>3, <4>1, <4>2 DEF Held
      <4>. QED  BY <2>1, <4>3
    <3>3. Kept(ds, q).rxbuf = p
      BY <2>2, <3>2
    <3>. QED  BY <1>1, <1>3, <1>5, <2>1, <2>3, <3>1, <3>3
  <2>4. CASE i # Closing(c, k)
    <3>. PICK H, G : /\ H = Held(p, i, SLIP_BUF_SIZE)
                     /\ G = Held(p, i + 1, SLIP_BUF_SIZE)
      OBVIOUS
    <3>1. /\ i \in 1..Len(p) /\ p[i] \in Byte /\ CodeOf(c, q) = Serial!EncodeByte(p[i])
          /\ q.part \in 1..Len(Serial!EncodeByte(p[i]))
      BY <1>1, <2>1, <2>4 DEF CodeOf
    <3>2. G = IF Len(H) < SLIP_BUF_SIZE THEN Append(H, p[i]) ELSE H
      BY <1>2, <2>1, <3>1, Holds
    <3>3. ASSUME slip_rx.rxbuf = H, NEW b,
                 p[i] = IF slip_rx.escaped THEN Serial!Unescaped(b) ELSE b
          PROVE  Serial!Store(b) = [rxbuf |-> G, escaped |-> FALSE]
      BY <3>2, <3>3 DEF Serial!Store
    <3>4. Kept(ds, At(k, i + 1)) = [rxbuf |-> G, escaped |-> FALSE]
      BY <2>1, <3>1 DEF Kept, At
    <3>5. At(k, i + 1).frame = k /\ At(k, i + 1).at # 0
      BY <3>1 DEF At
    <3>6. ByteAt(c, q) = CodeOf(c, q)[q.part]
          /\ Following(c, q) = IF q.part < Len(CodeOf(c, q)) THEN [q EXCEPT !.part = q.part + 1]
                               ELSE At(k, i + 1)
      BY <1>5, <2>1, <2>4 DEF ByteAt, Following
    <3>7. ASSUME p[i] \in {SLIP_END, SLIP_ESC}, NEW x \in Byte \ {SLIP_END, SLIP_ESC},
                 Serial!EncodeByte(p[i]) = <<SLIP_ESC, x>>, Serial!Unescaped(x) = p[i]
          PROVE  /\ Following(c, q).frame = k /\ Following(c, q).at # 0 /\ input' = input
                 /\ slip_rx = Kept(ds, q) => slip_rx' = Kept(ds, Following(c, q))
      <4>1. Len(CodeOf(c, q)) = 2 /\ CodeOf(c, q)[1] = SLIP_ESC /\ CodeOf(c, q)[2] = x
        BY <3>1, <3>7
      <4>2. CASE q.part = 1
        <5>1. ByteAt(c, q) = SLIP_ESC /\ Following(c, q) = [frame |-> k, at |-> i, part |-> 2]
          BY <2>1, <3>6, <4>1, <4>2
        <5>2. Kept(ds, [frame |-> k, at |-> i, part |-> 2]) = [rxbuf |-> H, escaped |-> TRUE]
          BY <1>5, <2>1 DEF Kept
        <5>3. Kept(ds, q) = [rxbuf |-> H, escaped |-> FALSE]
          BY <2>2, <4>2
        <5>4. slip_rx' = [slip_rx EXCEPT !.escaped = TRUE] /\ input' = input
          BY <1>1, <1>2, <5>1 DEF Serial!RxByte
        <5>5. Following(c, q).frame = k /\ Following(c, q).at # 0
          BY <5>1, <1>5, <2>1
        <5>6. slip_rx = Kept(ds, q) => slip_rx' = [rxbuf |-> H, escaped |-> TRUE]
          <6>1. ASSUME slip_rx = Kept(ds, q)
                PROVE  slip_rx' = [rxbuf |-> H, escaped |-> TRUE]
            <7>1. IsEscape(slip_rx', slip_rx)
              BY <5>4 DEF IsEscape
            <7>. QED  BY <5>3, <6>1, <7>1, AnEscape
          <6>. QED  BY <6>1
        <5>. QED  BY <5>1, <5>2, <5>4, <5>5, <5>6
      <4>3. CASE q.part = 2
        <5>1. ByteAt(c, q) = x /\ Following(c, q) = At(k, i + 1)
          BY <3>6, <4>1, <4>3
        <5>2. Kept(ds, q) = [rxbuf |-> H, escaped |-> TRUE]
          BY <2>2, <4>3
        <5>3. slip_rx' = Serial!Store(x) /\ input' = input
          BY <1>1, <3>7, <5>1 DEF Serial!RxByte
        <5>4. slip_rx = Kept(ds, q) => Serial!Store(x) = [rxbuf |-> G, escaped |-> FALSE]
          BY <3>3, <3>7, <5>2
        <5>. QED  BY <3>4, <3>5, <5>1, <5>3, <5>4
      <4>. QED  BY <3>1, <3>7, <4>1, <4>2, <4>3
    <3>8. ASSUME p[i] \notin {SLIP_END, SLIP_ESC}, Serial!EncodeByte(p[i]) = <<p[i]>>
          PROVE  /\ Following(c, q).frame = k /\ Following(c, q).at # 0 /\ input' = input
                 /\ slip_rx = Kept(ds, q) => slip_rx' = Kept(ds, Following(c, q))
      <4>1. Len(CodeOf(c, q)) = 1 /\ CodeOf(c, q)[1] = p[i] /\ q.part = 1
        BY <3>1, <3>8
      <4>2. ByteAt(c, q) = p[i] /\ Following(c, q) = At(k, i + 1)
        BY <3>6, <4>1
      <4>3. Kept(ds, q) = [rxbuf |-> H, escaped |-> FALSE]
        BY <2>2, <4>1
      <4>4. slip_rx' = Serial!Store(p[i]) /\ input' = input
        BY <1>1, <3>8, <4>2 DEF Serial!RxByte
      <4>5. slip_rx = Kept(ds, q) => Serial!Store(p[i]) = [rxbuf |-> G, escaped |-> FALSE]
        <5>1. ASSUME slip_rx = Kept(ds, q)
              PROVE  Serial!Store(p[i]) = [rxbuf |-> G, escaped |-> FALSE]
          <6>1. slip_rx.rxbuf = H /\ ~slip_rx.escaped
            BY <4>3, <5>1
          <6>. QED  BY <3>3, <6>1
        <5>. QED  BY <5>1
      <4>. QED  BY <3>4, <3>5, <4>2, <4>4, <4>5
    <3>9. /\ Following(c, q).frame = k /\ Following(c, q).at # 0 /\ input' = input
          /\ slip_rx = Kept(ds, q) => slip_rx' = Kept(ds, Following(c, q))
      BY <3>1, <3>7, <3>8, SlipBytes
    <3>. QED  BY <1>1, <1>5, <2>1, <2>4, <3>9
  <2>. QED  BY <2>3, <2>4
<1>. QED  BY <1>4, <1>5

\* What is not behind the line although the place at which the line is is.
Lost(m) == {i \in 1..m : sent[i] \notin Serial!ToSet(input)}

Unsure(q) == IF q.at # 0 /\ slip_rx # Kept(sent, q) THEN 1 ELSE 0
Pending(q) == IF q.at = 0 /\ slip_rx.rxbuf # <<>> THEN 1 ELSE 0

\* With the byte at place q next: an accident that is not paid for yet has put
\* the receiver out of step inside a datagram, or left something in rxbuf.
Recovered(q) ==
  /\ Cardinality(Lost(q.frame - 1)) + Unsure(q) <= accidents
  /\ Len(input) + Pending(q) <= (q.frame - 1) + accidents
  /\ accidents = 0 => slip_rx = Kept(sent, q) /\ input = SubSeq(sent, 1, q.frame - 1)

SlipReceiver == [rxbuf : Seq(Byte), escaped : BOOLEAN]

SerialInv ==
  /\ Len(sent) \in Nat /\ sent \in Seq(Datagram)
  /\ slip_rx \in SlipReceiver /\ Len(slip_rx.rxbuf) <= SLIP_BUF_SIZE
  /\ input \in Seq(Seq(Byte)) /\ accidents \in 0..MaxAccidents
  /\ \E q : Passage(Slip(sent), Len(sent), q, uart, Between(Len(sent) + 1)) /\ Recovered(q)

LEMMA LostTypes ==
  ASSUME NEW m \in Int
  PROVE  IsFiniteSet(Lost(m)) /\ Cardinality(Lost(m)) \in Nat
<1>1. IsFiniteSet(1..m)
  BY FS_Interval
<1>2. IsFiniteSet(Lost(m))
  BY <1>1, FS_Subset DEF Lost
<1>. QED  BY <1>2, FS_CardinalityType

(* What is handed over takes nothing away, and one more datagram that has   *)
(* gone by is at most one more that is lost: none if it was handed over.    *)
LEMMA LostAfter ==
  ASSUME NEW m \in Nat, sent' = sent, Serial!ToSet(input) \subseteq Serial!ToSet(input')
  PROVE  /\ Cardinality(Lost(m)') <= Cardinality(Lost(m))
         /\ Cardinality(Lost(m + 1)') <= Cardinality(Lost(m)) + 1
         /\ sent[m + 1] \in Serial!ToSet(input') =>
              Cardinality(Lost(m + 1)') <= Cardinality(Lost(m))
<1>. PICK A, B, C : A = Lost(m) /\ B = Lost(m)' /\ C = Lost(m + 1)'
  OBVIOUS
<1>1. IsFiniteSet(A) /\ Cardinality(A) \in Nat
  BY LostTypes
<1>2. B \subseteq A /\ C \subseteq A \union {m + 1}
      /\ (sent[m + 1] \in Serial!ToSet(input') => C \subseteq A)
  BY DEF Lost
<1>3. Cardinality(B) <= Cardinality(A)
  BY <1>1, <1>2, FS_Subset
<1>4. IsFiniteSet(A \union {m + 1}) /\ Cardinality(A \union {m + 1}) <= Cardinality(A) + 1
      /\ Cardinality(A \union {m + 1}) \in Nat
  <2>1. IsFiniteSet(A \union {m + 1})
        /\ Cardinality(A \union {m + 1}) = IF m + 1 \in A THEN Cardinality(A) ELSE Cardinality(A) + 1
    BY <1>1, FS_AddElement
  <2>. QED  BY <1>1, <2>1
<1>5. Cardinality(C) <= Cardinality(A) + 1
  <2>1. Cardinality(C) <= Cardinality(A \union {m + 1}) /\ IsFiniteSet(C)
    BY <1>2, <1>4, FS_Subset
  <2>2. Cardinality(C) \in Nat
    BY <2>1, FS_CardinalityType
  <2>. QED  BY <1>1, <1>4, <2>1, <2>2
<1>6. sent[m + 1] \in Serial!ToSet(input') => Cardinality(C) <= Cardinality(A)
  BY <1>1, <1>2, FS_Subset
<1>. QED  BY <1>3, <1>5, <1>6

(* Another one is handed over.                                              *)
LEMMA HandedOver ==
  ASSUME NEW p \in Seq(Byte), NEW u \in Seq(Seq(Byte)), NEW v, v = Append(u, p)
  PROVE  /\ v \in Seq(Seq(Byte)) /\ Len(u) \in Nat /\ Len(v) = Len(u) + 1
         /\ Serial!ToSet(u) \subseteq Serial!ToSet(v) /\ p \in Serial!ToSet(v)
<1>1. /\ v \in Seq(Seq(Byte)) /\ Len(u) \in Nat /\ Len(v) = Len(u) + 1
      /\ v[Len(u) + 1] = p /\ \A i \in 1..Len(u) : v[i] = u[i]
      /\ DOMAIN v = 1..(Len(u) + 1) /\ DOMAIN u = 1..Len(u)
  OBVIOUS
<1>2. \A i \in DOMAIN u : i \in DOMAIN v /\ v[i] = u[i]
  BY <1>1
<1>3. Len(u) + 1 \in DOMAIN v
  BY <1>1
<1>. QED  BY <1>1, <1>2, <1>3 DEF Serial!ToSet

\* What a byte, sent or not, can do to the receiver and to what it hands over.
Effect ==
  /\ slip_rx' \in SlipReceiver /\ Len(slip_rx'.rxbuf) <= SLIP_BUF_SIZE
  /\ \/ input' = input
     \/ slip_rx' = Serial!Empty /\ input' = Append(input, slip_rx.rxbuf)

LEMMA EmptyReceiver ==
  ASSUME Serial!SlipAssumption
  PROVE  /\ Serial!Empty \in SlipReceiver /\ Serial!Empty.rxbuf = <<>>
         /\ Len(Serial!Empty.rxbuf) <= SLIP_BUF_SIZE
<1>1. Serial!Empty \in SlipReceiver /\ Serial!Empty.rxbuf = <<>>
  BY DEF Serial!Empty, SlipReceiver
<1>2. SLIP_BUF_SIZE \in Nat
  BY DEF Serial!SlipAssumption
<1>. QED  BY <1>1, <1>2

LEMMA AnyByte ==
  ASSUME Serial!SlipAssumption, slip_rx \in SlipReceiver, Len(slip_rx.rxbuf) <= SLIP_BUF_SIZE,
         NEW b \in Byte, Serial!RxByte(b)
  PROVE  Effect
<1>1. SLIP_BUF_SIZE \in Nat /\ slip_rx.rxbuf \in Seq(Byte) /\ Len(slip_rx.rxbuf) \in Nat
  BY DEF Serial!SlipAssumption, SlipReceiver
<1>2. CASE b = SLIP_END /\ slip_rx' = Serial!Empty
           /\ input' = IF slip_rx.rxbuf = <<>> THEN input ELSE Append(input, slip_rx.rxbuf)
  BY <1>2, EmptyReceiver DEF Effect
<1>3. CASE slip_rx' = [slip_rx EXCEPT !.escaped = TRUE] /\ input' = input
  <2>1. [slip_rx EXCEPT !.escaped = TRUE] \in SlipReceiver
        /\ [slip_rx EXCEPT !.escaped = TRUE].rxbuf = slip_rx.rxbuf
    BY DEF SlipReceiver
  <2>. QED  BY <1>3, <2>1 DEF Effect
<1>4. CASE slip_rx' = Serial!Store(b) /\ input' = input
  <2>. PICK x : x = IF slip_rx.escaped THEN Serial!Unescaped(b) ELSE b
    OBVIOUS
  <2>1. x \in Byte
    <3>1. Serial!Unescaped(b) \in {SLIP_END, SLIP_ESC, b}
      BY DEF Serial!Unescaped
    <3>2. SLIP_END \in Byte /\ SLIP_ESC \in Byte
      BY DEF Serial!SlipAssumption
    <3>. QED  BY <3>1, <3>2
  <2>. PICK v : v = IF Len(slip_rx.rxbuf) < SLIP_BUF_SIZE
                    THEN Append(slip_rx.rxbuf, x) ELSE slip_rx.rxbuf
    OBVIOUS
  <2>2. v \in Seq(Byte) /\ Len(v) <= SLIP_BUF_SIZE
    BY <1>1, <2>1
  <2>3. Serial!Store(b) = [rxbuf |-> v, escaped |-> FALSE]
    BY DEF Serial!Store
  <2>4. Serial!Store(b) \in SlipReceiver /\ Serial!Store(b).rxbuf = v
    BY <2>2, <2>3 DEF SlipReceiver
  <2>. QED  BY <1>4, <2>2, <2>4 DEF Effect
<1>. QED  BY <1>2, <1>3, <1>4 DEF Serial!RxByte

\* The next byte goes by.
LEMMA SerialNext ==
  ASSUME Serial!SlipAssumption, SerialInv, uart # <<>>, uart' = Tail(uart),
         NEW q, Passage(Slip(sent), Len(sent), q, uart, Between(Len(sent) + 1))
  PROVE  /\ q \in Place(Slip(sent), Len(sent))
         /\ q.frame \in 1..(Len(sent) + 1) /\ q.at \in Nat /\ (q.at # 0 => q.frame \in 1..Len(sent))
         /\ Head(uart) = ByteAt(Slip(sent), q) /\ Head(uart) \in Byte
         /\ Passage(Slip(sent), Len(sent), Following(Slip(sent), q), uart', Between(Len(sent) + 1))
         /\ \A k \in 1..Len(sent) : sent[k] \in Seq(Byte) /\ sent[k] # <<>>
                                    /\ Len(sent[k]) <= SLIP_BUF_SIZE
<1>1. Len(sent) \in Nat /\ sent \in Seq(Datagram)
  BY DEF SerialInv
<1>2. Leads(Slip(sent), Len(sent), q, uart, Between(Len(sent) + 1))
  BY <1>1, FirstByte
<1>3. q \in Place(Slip(sent), Len(sent)) /\ Head(uart) = ByteAt(Slip(sent), q)
      /\ Passage(Slip(sent), Len(sent), Following(Slip(sent), q), uart', Between(Len(sent) + 1))
  BY <1>2 DEF Leads
<1>4. q.frame \in 1..(Len(sent) + 1) /\ q.at \in Nat /\ (q.at # 0 => q.frame \in 1..Len(sent))
  BY <1>1, <1>3, FrameOf
<1>5. Head(uart) \in Byte
  <2>1. uart \in Seq(Byte)
    BY DEF Passage
  <2>. QED  BY <2>1
<1>6. \A k \in 1..Len(sent) : sent[k] \in Seq(Byte) /\ sent[k] # <<>>
                              /\ Len(sent[k]) <= SLIP_BUF_SIZE
  <2>1. \A k \in 1..Len(sent) : sent[k] \in Datagram
    BY <1>1
  <2>. QED  BY <2>1 DEF Serial!SlipAssumption
<1>. QED  BY <1>3, <1>4, <1>5, <1>6

\* The place behind the next byte, whatever the byte is.
LEMMA Onward ==
  ASSUME NEW c, NEW n \in Nat, IsLine(c, n), NEW q \in Place(c, n)
  PROVE  \/ /\ q.at = 0 \/ q.at # Closing(c, q.frame)
            /\ Following(c, q).frame = q.frame /\ Following(c, q).at # 0
         \/ /\ q.at # 0 /\ q.at = Closing(c, q.frame)
            /\ Following(c, q).frame = q.frame + 1 /\ Following(c, q).at = 0
<1>1. CASE q.at = 0
  <2>1. Following(c, q) = At(q.frame, 1)
    BY <1>1 DEF Following
  <2>2. Following(c, q).frame = q.frame /\ Following(c, q).at = 1
    BY <2>1 DEF At
  <2>. QED  BY <1>1, <2>2
<1>2. CASE q.at # 0 /\ q.at = Closing(c, q.frame)
  <2>1. Following(c, q) = Between(q.frame + 1)
    BY <1>2 DEF Following
  <2>. QED  BY <1>2, <2>1 DEF Between, At
<1>3. CASE q.at # 0 /\ q.at # Closing(c, q.frame)
  <2>1. q.frame \in 1..n /\ q.at \in Nat \ {0}
        /\ q = [frame |-> q.frame, at |-> q.at, part |-> q.part]
    BY <1>3, InPacket, FrameOf
  <2>2. \/ Following(c, q) = [q EXCEPT !.part = q.part + 1]
        \/ Following(c, q) = At(q.frame, q.at + 1)
    BY <1>3 DEF Following
  <2>3. CASE Following(c, q) = [q EXCEPT !.part = q.part + 1]
    <3>1. [q EXCEPT !.part = q.part + 1].frame = q.frame
          /\ [q EXCEPT !.part = q.part + 1].at = q.at
      BY <2>1
    <3>. QED  BY <1>3, <2>3, <3>1
  <2>4. CASE Following(c, q) = At(q.frame, q.at + 1)
    <3>1. Following(c, q).frame = q.frame /\ Following(c, q).at = q.at + 1 /\ q.at + 1 # 0
      BY <2>1, <2>4 DEF At
    <3>. QED  BY <1>3, <3>1
  <2>. QED  BY <2>2, <2>3, <2>4
<1>. QED  BY <1>1, <1>2, <1>3

(* An accident pays for what it does to the datagram that goes by, and for  *)
(* the one datagram it can add.                                             *)
LEMMA SerialAccident ==
  ASSUME Serial!SlipAssumption, SerialInv, uart # <<>>, uart' = Tail(uart), sent' = sent,
         Serial!Accident, Effect
  PROVE  SerialInv'
<1>. PICK N, c : N = Len(sent) /\ c = Slip(sent)
  OBVIOUS
<1>1. PICK q : Passage(c, N, q, uart, Between(N + 1)) /\ Recovered(q)
  BY DEF SerialInv
<1>2. /\ N \in Nat /\ sent \in Seq(Datagram) /\ slip_rx \in SlipReceiver
      /\ input \in Seq(Seq(Byte)) /\ accidents \in 0..MaxAccidents /\ MaxAccidents \in Nat
  BY DEF SerialInv, Serial!SlipAssumption
<1>3. /\ q \in Place(c, N) /\ q.frame \in 1..(N + 1) /\ q.at \in Nat
      /\ (q.at # 0 => q.frame \in 1..N)
      /\ Passage(c, N, Following(c, q), uart', Between(N + 1))
      /\ \A k \in 1..N : sent[k] \in Seq(Byte)
  BY <1>1, SerialNext
<1>. PICK r : r = Following(c, q)
  OBVIOUS
<1>4. \/ r.frame = q.frame /\ r.at # 0
      \/ q.at # 0 /\ r.frame = q.frame + 1 /\ r.at = 0
  <2>1. IsLine(c, N)
    BY <1>2, <1>3, SlipIsLine
  <2>. QED  BY <1>2, <1>3, <2>1, Onward
<1>5. accidents' = accidents + 1 /\ accidents' \in 0..MaxAccidents /\ accidents \in Nat
  BY <1>2 DEF Serial!Accident
<1>6. /\ input' \in Seq(Seq(Byte)) /\ Len(input) \in Nat /\ Len(input') \in {Len(input), Len(input) + 1}
      /\ Serial!ToSet(input) \subseteq Serial!ToSet(input')
      /\ Len(input') = Len(input) \/ slip_rx' = Serial!Empty
  <2>1. CASE input' = input
    BY <1>2, <2>1
  <2>2. CASE slip_rx' = Serial!Empty /\ input' = Append(input, slip_rx.rxbuf)
    <3>1. slip_rx.rxbuf \in Seq(Byte)
      BY <1>2 DEF SlipReceiver
    <3>2. /\ input' \in Seq(Seq(Byte)) /\ Len(input) \in Nat /\ Len(input') = Len(input) + 1
          /\ Serial!ToSet(input) \subseteq Serial!ToSet(input')
      BY <1>2, <2>2, <3>1, HandedOver
    <3>. QED  BY <2>2, <3>2
  <2>. QED  BY <2>1, <2>2 DEF Effect
<1>. PICK m : m = q.frame - 1
  OBVIOUS
<1>7. m \in Nat /\ q.frame = m + 1 /\ Cardinality(Lost(m)) \in Nat
  <2>1. m \in Nat /\ q.frame = m + 1
    BY <1>2, <1>3
  <2>2. m \in Int
    BY <2>1
  <2>. QED  BY <2>1, <2>2, LostTypes
<1>8. Cardinality(Lost(m)') <= Cardinality(Lost(m)) /\ Cardinality(Lost(m + 1)') <= Cardinality(Lost(m)) + 1
  BY <1>6, <1>7, LostAfter
<1>9. Cardinality(Lost(m)') \in Nat /\ Cardinality(Lost(m + 1)') \in Nat
  <2>1. \A k \in Int : IsFiniteSet(1..k)
    BY FS_Interval
  <2>2. Lost(m)' \subseteq 1..m /\ Lost(m + 1)' \subseteq 1..(m + 1) /\ m \in Int /\ m + 1 \in Int
    BY <1>7 DEF Lost
  <2>3. IsFiniteSet(Lost(m)') /\ IsFiniteSet(Lost(m + 1)')
    BY <2>1, <2>2, FS_Subset
  <2>. QED  BY <2>3, FS_CardinalityType
<1>10. Cardinality(Lost(m)) <= accidents /\ Len(input) <= m + accidents
  <2>1. Unsure(q) \in {0, 1} /\ Pending(q) \in {0, 1}
    BY DEF Unsure, Pending
  <2>2. /\ Cardinality(Lost(m)) + Unsure(q) <= accidents /\ Len(input) + Pending(q) <= m + accidents
    BY <1>1 DEF Recovered
  <2>. QED  BY <1>5, <1>6, <1>7, <2>1, <2>2
<1>11. Unsure(r)' \in {0, 1} /\ Pending(r)' \in {0, 1}
       /\ (r.at = 0 => Unsure(r)' = 0) /\ (r.at # 0 => Pending(r)' = 0)
       /\ (slip_rx' = Serial!Empty => Pending(r)' = 0)
  BY EmptyReceiver DEF Unsure, Pending
<1>12. /\ Cardinality(Lost(r.frame - 1)') + Unsure(r)' <= accidents'
       /\ Len(input') + Pending(r)' <= (r.frame - 1) + accidents'
  <2>1. CASE r.frame = q.frame /\ r.at # 0
    <3>1. r.frame - 1 = m
      BY <1>7, <2>1
    <3>2. Cardinality(Lost(m)') + Unsure(r)' <= accidents'
      BY <1>5, <1>7, <1>8, <1>9, <1>10, <1>11
    <3>3. Len(input') + Pending(r)' <= m + accidents'
      BY <1>5, <1>6, <1>7, <1>10, <1>11, <2>1
    <3>. QED  BY <3>1, <3>2, <3>3
  <2>2. CASE r.frame = q.frame + 1 /\ r.at = 0
    <3>1. r.frame - 1 = m + 1
      BY <1>7, <2>2
    <3>2. Cardinality(Lost(m + 1)') + Unsure(r)' <= accidents'
      BY <1>5, <1>7, <1>8, <1>9, <1>10, <1>11, <2>2
    <3>3. Len(input') + Pending(r)' <= (m + 1) + accidents'
      <4>. PICK l, k, p : l = Len(input) /\ k = Len(input') /\ p = Pending(r)'
        OBVIOUS
      <4>1. l \in Nat /\ k \in {l, l + 1} /\ p \in {0, 1} /\ (k = l \/ p = 0) /\ l <= m + accidents
        BY <1>6, <1>10, <1>11
      <4>2. k + p <= l + 1
        BY <4>1
      <4>3. k + p <= (m + 1) + accidents'
        BY <1>5, <1>7, <4>1, <4>2
      <4>. QED  BY <4>3
    <3>. QED  BY <3>1, <3>2, <3>3
  <2>. QED  BY <1>4, <2>1, <2>2
<1>13. Recovered(r)'
  <2>1. accidents' # 0
    BY <1>5
  <2>. QED  BY <1>12, <2>1 DEF Recovered
<1>14. Slip(sent)' = c /\ Len(sent)' = N /\ Passage(c, N, r, uart', Between(N + 1))
  BY <1>3
<1>. QED  BY <1>2, <1>5, <1>6, <1>13, <1>14 DEF SerialInv, Effect

LEMMA OneMore ==
  ASSUME NEW S, NEW s \in Seq(S), NEW m \in Nat, m + 1 <= Len(s)
  PROVE  Append(SubSeq(s, 1, m), s[m + 1]) = SubSeq(s, 1, m + 1)
<1>. DEFINE a == SubSeq(s, 1, m)
            b == Append(a, s[m + 1])
            d == SubSeq(s, 1, m + 1)
<1>1. m + 1 \in 1..Len(s) /\ Len(s) \in Nat /\ s[m + 1] \in S
  OBVIOUS
<1>2. a \in Seq(S) /\ Len(a) = m /\ \A j \in 1..m : a[j] = s[j]
  BY <1>1
<1>3. d \in Seq(S) /\ Len(d) = m + 1 /\ \A j \in 1..(m + 1) : d[j] = s[j]
  BY <1>1
<1>. HIDE DEF a, d
<1>4. b \in Seq(S) /\ Len(b) = m + 1 /\ b[m + 1] = s[m + 1] /\ \A j \in 1..m : b[j] = a[j]
  BY <1>1, <1>2
<1>. HIDE DEF b
<1>5. \A j \in 1..(m + 1) : b[j] = d[j]
  BY <1>2, <1>3, <1>4
<1>6. b = d
  BY <1>3, <1>4, <1>5, SeqEqual
<1>. QED  BY <1>6 DEF a, b, d

(* A byte that arrives as it was sent: out of step inside a datagram, the   *)
(* receiver is in step again at its end, and what rxbuf held between two of *)
(* them is handed over.                                                     *)
LEMMA SerialReceive ==
  ASSUME Serial!SlipAssumption, SerialInv, Serial!Receive
  PROVE  SerialInv'
<1>. PICK N, c : N = Len(sent) /\ c = Slip(sent)
  OBVIOUS
<1>0. /\ uart # <<>> /\ uart' = Tail(uart) /\ Serial!RxByte(Head(uart))
      /\ sent' = sent /\ accidents' = accidents
  BY DEF Serial!Receive
<1>1. PICK q : Passage(c, N, q, uart, Between(N + 1)) /\ Recovered(q)
  BY DEF SerialInv
<1>2. /\ N \in Nat /\ sent \in Seq(Datagram) /\ slip_rx \in SlipReceiver
      /\ Len(slip_rx.rxbuf) <= SLIP_BUF_SIZE /\ slip_rx.rxbuf \in Seq(Byte)
      /\ input \in Seq(Seq(Byte)) /\ accidents \in 0..MaxAccidents /\ accidents \in Nat
  BY DEF SerialInv, Serial!SlipAssumption, SlipReceiver
<1>3. /\ q \in Place(c, N) /\ q.frame \in 1..(N + 1) /\ q.at \in Nat
      /\ (q.at # 0 => q.frame \in 1..N)
      /\ Head(uart) = ByteAt(c, q) /\ Head(uart) \in Byte
      /\ Passage(c, N, Following(c, q), uart', Between(N + 1))
      /\ \A k \in 1..N : sent[k] \in Seq(Byte) /\ sent[k] # <<>> /\ Len(sent[k]) <= SLIP_BUF_SIZE
  BY <1>0, <1>1, SerialNext
<1>. PICK r : r = Following(c, q)
  OBVIOUS
<1>4. Effect
  BY <1>0, <1>2, <1>3, AnyByte
<1>5. /\ q.at = 0 =>
           /\ r = At(q.frame, 1) /\ Kept(sent, q) = Serial!Empty /\ Kept(sent, r) = Serial!Empty
           /\ slip_rx' = Serial!Empty
           /\ input' = IF slip_rx.rxbuf = <<>> THEN input ELSE Append(input, slip_rx.rxbuf)
      /\ q.at # 0 /\ q.at = Closing(c, q.frame) =>
           /\ r = Between(q.frame + 1) /\ Kept(sent, q).rxbuf = sent[q.frame]
           /\ slip_rx' = Serial!Empty
           /\ input' = IF slip_rx.rxbuf = <<>> THEN input ELSE Append(input, slip_rx.rxbuf)
      /\ q.at # 0 /\ q.at # Closing(c, q.frame) =>
           /\ r.frame = q.frame /\ r.at # 0 /\ input' = input
           /\ slip_rx = Kept(sent, q) => slip_rx' = Kept(sent, r)
  <2>1. Serial!RxByte(ByteAt(c, q))
    BY <1>0, <1>3
  <2>. QED  BY <1>2, <1>3, <2>1, SlipKeepsPace
<1>. PICK m : m = q.frame - 1
  OBVIOUS
<1>6. m \in Nat /\ q.frame = m + 1 /\ q.frame - 1 = m /\ Cardinality(Lost(m)) \in Nat
  <2>1. m \in Nat /\ q.frame = m + 1 /\ m \in Int
    BY <1>2, <1>3
  <2>. QED  BY <2>1, LostTypes
<1>7. /\ Cardinality(Lost(m)) + Unsure(q) <= accidents /\ Len(input) + Pending(q) <= m + accidents
      /\ accidents = 0 => slip_rx = Kept(sent, q) /\ input = SubSeq(sent, 1, m)
  BY <1>1, <1>6 DEF Recovered
<1>8. /\ input' \in Seq(Seq(Byte)) /\ Len(input) \in Nat
      /\ Serial!ToSet(input) \subseteq Serial!ToSet(input')
      /\ input' = input \/ (input' = Append(input, slip_rx.rxbuf) /\ Len(input') = Len(input) + 1
                              /\ slip_rx.rxbuf \in Serial!ToSet(input'))
  <2>1. CASE input' = input
    BY <1>2, <2>1
  <2>2. CASE input' = Append(input, slip_rx.rxbuf)
    BY <1>2, <2>2, HandedOver
  <2>. QED  BY <1>4, <2>1, <2>2 DEF Effect
<1>9. /\ Cardinality(Lost(m)') <= Cardinality(Lost(m))
      /\ Cardinality(Lost(m + 1)') <= Cardinality(Lost(m)) + 1
      /\ sent[m + 1] \in Serial!ToSet(input') => Cardinality(Lost(m + 1)') <= Cardinality(Lost(m))
  BY <1>0, <1>6, <1>8, LostAfter
<1>10. Cardinality(Lost(m)') \in Nat /\ Cardinality(Lost(m + 1)') \in Nat
  <2>1. \A k \in Int : IsFiniteSet(1..k)
    BY FS_Interval
  <2>2. Lost(m)' \subseteq 1..m /\ Lost(m + 1)' \subseteq 1..(m + 1) /\ m \in Int /\ m + 1 \in Int
    BY <1>6 DEF Lost
  <2>3. IsFiniteSet(Lost(m)') /\ IsFiniteSet(Lost(m + 1)')
    BY <2>1, <2>2, FS_Subset
  <2>. QED  BY <2>3, FS_CardinalityType
<1>11. Unsure(q) \in {0, 1} /\ Pending(q) \in {0, 1}
  BY DEF Unsure, Pending
<1>12. ASSUME q.at = 0
       PROVE  Recovered(r)'
  <2>1. r.frame = m + 1 /\ r.at # 0 /\ r.frame - 1 = m
    BY <1>5, <1>6, <1>12 DEF At
  <2>2. slip_rx' = Kept(sent, r) /\ Unsure(r)' = 0 /\ Pending(r)' = 0
    BY <1>0, <1>5, <1>12, <2>1 DEF Unsure, Pending
  <2>3. Cardinality(Lost(m)') + 0 <= accidents
    BY <1>2, <1>6, <1>7, <1>9, <1>10, <1>11
  <2>4. Len(input') + 0 <= m + accidents
    <3>1. CASE slip_rx.rxbuf = <<>>
      BY <1>2, <1>5, <1>6, <1>7, <1>8, <1>11, <1>12, <3>1
    <3>2. CASE slip_rx.rxbuf # <<>>
      <4>1. Pending(q) = 1
        BY <1>12, <3>2 DEF Pending
      <4>2. Len(input') \in {Len(input), Len(input) + 1}
        BY <1>8
      <4>. QED  BY <1>2, <1>6, <1>7, <1>8, <4>1, <4>2
    <3>. QED  BY <3>1, <3>2
  <2>5. accidents = 0 => input' = SubSeq(sent, 1, m)
    <3>1. accidents = 0 => slip_rx.rxbuf = <<>>
      BY <1>5, <1>7, <1>12, EmptyReceiver
    <3>. QED  BY <1>5, <1>7, <1>12, <3>1
  <2>. QED  BY <1>0, <2>1, <2>2, <2>3, <2>4, <2>5 DEF Recovered
<1>13. ASSUME q.at # 0, q.at # Closing(c, q.frame)
       PROVE  Recovered(r)'
  <2>1. r.frame - 1 = m /\ r.at # 0 /\ input' = input
    BY <1>5, <1>6, <1>13
  <2>2. Unsure(r)' \in {0, 1} /\ (Unsure(q) = 0 => Unsure(r)' = 0) /\ Pending(r)' = 0
    <3>1. slip_rx = Kept(sent, q) => slip_rx' = Kept(sent, r)
      BY <1>5, <1>13
    <3>. QED  BY <1>0, <1>13, <2>1, <3>1 DEF Unsure, Pending
  <2>3. Cardinality(Lost(m)') + Unsure(r)' <= accidents
    BY <1>2, <1>6, <1>7, <1>9, <1>10, <1>11, <2>2
  <2>4. Len(input') + 0 <= m + accidents
    BY <1>2, <1>6, <1>7, <1>8, <1>11, <2>1
  <2>5. accidents = 0 => slip_rx' = Kept(sent, r) /\ input' = SubSeq(sent, 1, m)
    BY <1>5, <1>7, <1>13, <2>1
  <2>. QED  BY <1>0, <2>1, <2>2, <2>3, <2>4, <2>5 DEF Recovered
<1>14. ASSUME q.at # 0, q.at = Closing(c, q.frame)
       PROVE  Recovered(r)'
  <2>1. r.frame - 1 = m + 1 /\ r.at = 0 /\ slip_rx' = Serial!Empty
    <3>1. r.frame = q.frame + 1 /\ r.at = 0 /\ slip_rx' = Serial!Empty
      BY <1>5, <1>14 DEF Between, At
    <3>. QED  BY <1>6, <3>1
  <2>2. Kept(sent, r) = Serial!Empty /\ Unsure(r)' = 0 /\ Pending(r)' = 0
    BY <2>1, EmptyReceiver DEF Kept, Unsure, Pending
  <2>3. slip_rx = Kept(sent, q) =>
          slip_rx.rxbuf = sent[m + 1] /\ sent[m + 1] # <<>> /\ input' = Append(input, sent[m + 1])
    BY <1>3, <1>5, <1>6, <1>14
  <2>4. Cardinality(Lost(m + 1)') + 0 <= accidents
    <3>1. CASE slip_rx = Kept(sent, q)
      <4>1. sent[m + 1] \in Serial!ToSet(input')
        <5>1. input' = Append(input, slip_rx.rxbuf)
          BY <2>3, <3>1
        <5>2. slip_rx.rxbuf \in Serial!ToSet(input')
          BY <1>2, <5>1, HandedOver
        <5>. QED  BY <2>3, <3>1, <5>2
      <4>. QED  BY <1>2, <1>6, <1>7, <1>9, <1>10, <1>11, <4>1
    <3>2. CASE slip_rx # Kept(sent, q)
      <4>1. Unsure(q) = 1
        BY <1>14, <3>2 DEF Unsure
      <4>. QED  BY <1>2, <1>6, <1>7, <1>9, <1>10, <4>1
    <3>. QED  BY <3>1, <3>2
  <2>5. Len(input') + 0 <= (m + 1) + accidents
    <3>1. Len(input') \in {Len(input), Len(input) + 1}
      BY <1>8
    <3>. PICK k, l, p : k = Len(input') /\ l = Len(input) /\ p = Pending(q)
      OBVIOUS
    <3>2. l \in Nat /\ k \in {l, l + 1} /\ p \in {0, 1} /\ l + p <= m + accidents
      BY <1>7, <1>8, <1>11, <3>1
    <3>3. k \in Nat /\ k <= l + 1 /\ l <= m + accidents /\ m \in Nat /\ accidents \in Nat
      <4>1. m \in Nat /\ accidents \in Nat
        BY <1>2, <1>6
      <4>. QED  BY <3>2, <4>1
    <3>4. k + 0 <= (m + 1) + accidents
      BY <3>2, <3>3
    <3>. QED  BY <3>4
  <2>6. accidents = 0 => input' = SubSeq(sent, 1, m + 1)
    <3>1. m \in Nat /\ m + 1 <= Len(sent)
      BY <1>3, <1>6, <1>14
    <3>2. Append(SubSeq(sent, 1, m), sent[m + 1]) = SubSeq(sent, 1, m + 1)
      BY <1>2, <3>1, OneMore
    <3>. QED  BY <1>7, <2>3, <3>2
  <2>. QED  BY <1>0, <2>1, <2>2, <2>4, <2>5, <2>6 DEF Recovered
<1>15. Recovered(r)'
  BY <1>12, <1>13, <1>14
<1>16. Slip(sent)' = c /\ Len(sent)' = N /\ Passage(c, N, r, uart', Between(N + 1))
  BY <1>0, <1>3
<1>17. accidents' \in 0..MaxAccidents /\ sent' \in Seq(Datagram) /\ Len(sent)' \in Nat
  BY <1>0, <1>2, <1>16
<1>. QED  BY <1>4, <1>8, <1>15, <1>16, <1>17 DEF SerialInv, Effect

LEMMA SerialInit ==
  ASSUME Serial!SlipAssumption, Serial!Init
  PROVE  SerialInv
<1>. PICK N, c : N = Len(sent) /\ c = Slip(sent)
  OBVIOUS
<1>1. N \in Nat /\ sent \in Seq(Datagram) /\ DOMAIN sent = 1..N
  <2>1. IsFiniteSet(Datagram)
    BY Sizes DEF Serial!SlipAssumption
  <2>2. Cardinality(Datagram) \in Nat /\ ExistsBijection(1..Cardinality(Datagram), Datagram)
    BY <2>1, FS_CardinalityType
  <2>3. \E f \in [1..Cardinality(Datagram) -> Datagram] : Serial!IsInjective(f)
    BY <2>2 DEF ExistsBijection, Bijection, Injection, IsInjective, Serial!IsInjective
  <2>4. Serial!SetToSeq(Datagram) \in [1..Cardinality(Datagram) -> Datagram]
    BY <2>3, Sizes DEF Serial!SetToSeq
  <2>5. sent \in [1..Cardinality(Datagram) -> Datagram]
    BY <2>4 DEF Serial!Init
  <2>. QED  BY <2>2, <2>5
<1>2. \A k \in 1..N : sent[k] \in Seq(Byte)
  BY <1>1 DEF Serial!SlipAssumption
<1>3. IsLine(c, N) /\ c.packet = sent
  BY <1>1, <1>2, SlipIsLine
<1>. DEFINE s == [i \in 1..N |-> OnLine(c, sent[i])]
<1>4. uart = FlattenSeq(s)
  <2>1. \A k \in 1..N : Serial!Output(sent[k]) = OnLine(c, sent[k])
    BY <1>2, SlipOnLine
  <2>2. [i \in DOMAIN sent |-> Serial!Output(sent[i])] = s
    BY <1>1, <2>1
  <2>3. \A x : Serial!FlattenSeq(x) = FlattenSeq(x)
    BY DEF Serial!FlattenSeq, FlattenSeq
  <2>. HIDE DEF s
  <2>. QED  BY <2>2, <2>3 DEF Serial!Init
<1>5. Len(s) = N /\ \A k \in 1..N : s[k] = OnLine(c, c.packet[k])
  <2>1. ASSUME NEW k \in 1..N
        PROVE  OnLine(c, sent[k]) \in Seq(Byte)
    <3>1. IsLine(c, k) /\ k \in Nat \ {0}
      BY <1>1, <1>3 DEF IsLine
    <3>2. Passage(c, k, Between(k), OnLine(c, c.packet[k]), Between(k + 1))
      BY <3>1, OfPacket
    <3>. QED  BY <1>3, <3>2 DEF Passage
  <2>2. s \in [1..N -> Seq(Byte)]
    BY <2>1
  <2>3. s \in Seq(Seq(Byte)) /\ Len(s) = N
    BY <1>1, <2>2
  <2>. QED  BY <1>3, <2>3
<1>. HIDE DEF s
<1>6. Passage(c, N, Between(1), uart, Between(N + 1))
  <2>1. CASE N = 0
    <3>1. FlattenSeq(s) = s /\ s = <<>>
      <4>1. s = <<>>
        <5>1. s = [i \in 1..0 |-> OnLine(c, sent[i])]
          BY <2>1 DEF s
        <5>. QED  BY <5>1
      <4>. QED  BY <1>5, <2>1, <4>1 DEF FlattenSeq
    <3>2. 1 \in 1..(N + 1) /\ N + 1 = 1
      BY <2>1
    <3>3. Between(1) \in Place(c, N)
      BY <1>1, <1>3, <3>2, Places
    <3>. QED  BY <1>1, <1>4, <3>1, <3>2, <3>3, NoBytes
  <2>2. CASE N # 0
    <3>1. PICK rest : /\ FlattenSeq(s) = s[1] \o rest
                      /\ Passage(c, 1, Between(1), s[1], Between(2))
                      /\ Passage(c, N, Between(2), rest, Between(N + 1))
      BY <1>1, <1>3, <1>5, <2>2, OfPackets
    <3>2. Passage(c, N, Between(1), s[1], Between(2))
      <4>1. 1 \in Nat /\ 1 <= N
        BY <1>1, <2>2
      <4>. QED  BY <1>1, <3>1, <4>1, SentMore
    <3>. QED  BY <1>1, <1>4, <3>1, <3>2, Joined
  <2>. QED  BY <2>1, <2>2
<1>7. slip_rx = Serial!Empty /\ input = <<>> /\ accidents = 0
  BY DEF Serial!Init
<1>8. /\ slip_rx \in SlipReceiver /\ Len(slip_rx.rxbuf) <= SLIP_BUF_SIZE /\ slip_rx.rxbuf = <<>>
      /\ input \in Seq(Seq(Byte)) /\ accidents \in 0..MaxAccidents
  BY <1>7, EmptyReceiver DEF Serial!SlipAssumption
<1>9. Recovered(Between(1))
  <2>1. Between(1).frame = 1 /\ Between(1).at = 0 /\ 1 - 1 = 0
    BY DEF Between, At
  <2>2. Unsure(Between(1)) = 0 /\ Pending(Between(1)) = 0 /\ Kept(sent, Between(1)) = Serial!Empty
    BY <1>8, <2>1 DEF Unsure, Pending, Kept
  <2>3. Lost(0) = {} /\ Cardinality(Lost(0)) = 0
    <3>1. Lost(0) = {}
      BY DEF Lost
    <3>. QED  BY <3>1, FS_EmptySet
  <2>4. Len(input) = 0 /\ input = SubSeq(sent, 1, 0)
    BY <1>1, <1>7
  <2>. QED  BY <1>7, <2>1, <2>2, <2>3, <2>4 DEF Recovered
<1>. QED  BY <1>1, <1>6, <1>8, <1>9 DEF SerialInv

LEMMA SerialDone ==
  ASSUME Serial!SlipAssumption, SerialInv
  PROVE  Serial!TypeOK /\ Serial!OneAccidentOneDatagram
<1>. PICK N : N = Len(sent)
  OBVIOUS
<1>1. PICK q : Passage(Slip(sent), N, q, uart, Between(N + 1)) /\ Recovered(q)
  BY DEF SerialInv
<1>2. /\ N \in Nat /\ sent \in Seq(Datagram) /\ slip_rx \in SlipReceiver
      /\ Len(slip_rx.rxbuf) <= SLIP_BUF_SIZE
      /\ input \in Seq(Seq(Byte)) /\ accidents \in 0..MaxAccidents /\ accidents \in Nat
  BY DEF SerialInv, Serial!SlipAssumption
<1>3. uart \in Seq(Byte)
  BY <1>1 DEF Passage
<1>4. Serial!TypeOK
  BY <1>2, <1>3 DEF Serial!TypeOK, SlipReceiver
<1>5. ASSUME uart = <<>>
      PROVE  /\ Serial!Cardinality({i \in DOMAIN sent : sent[i] \notin Serial!ToSet(input)}) <= accidents
             /\ Len(input) <= Len(sent) + accidents
             /\ accidents = 0 => input = sent
  <2>1. q = Between(N + 1)
    BY <1>1, <1>2, <1>5, BothEnds
  <2>2. q.frame - 1 = N
    BY <1>2, <2>1 DEF Between, At
  <2>3. /\ Cardinality(Lost(N)) + Unsure(q) <= accidents /\ Len(input) + Pending(q) <= N + accidents
        /\ accidents = 0 => input = SubSeq(sent, 1, N)
    BY <1>1, <2>2 DEF Recovered
  <2>4. Unsure(q) \in {0, 1} /\ Pending(q) \in {0, 1}
    BY DEF Unsure, Pending
  <2>5. Cardinality(Lost(N)) \in Nat /\ Len(input) \in Nat
    <3>1. N \in Int
      BY <1>2
    <3>. QED  BY <1>2, <3>1, LostTypes
  <2>6. Cardinality(Lost(N)) <= accidents /\ Len(input) <= N + accidents
    BY <1>2, <2>3, <2>4, <2>5
  <2>7. {i \in DOMAIN sent : sent[i] \notin Serial!ToSet(input)} = Lost(N)
    BY <1>2 DEF Lost
  <2>8. SubSeq(sent, 1, N) = sent
    BY <1>2
  <2>. QED  BY <2>3, <2>6, <2>7, <2>8, Sizes
<1>6. Serial!OneAccidentOneDatagram
  BY <1>5 DEF Serial!OneAccidentOneDatagram
<1>. QED  BY <1>4, <1>6

(* A byte lost or changed on the serial line, in a datagram, in an escape   *)
(* or in a delimiter, or a missing buffer, costs at most one datagram and   *)
(* adds at most one, and with none everything arrives in order: for all     *)
(* datagrams and any number of accidents (slip.c:32-58, slip_output_v4;     *)
(* 69-109, slip_rx_task).                                                   *)
THEOREM AccidentsAreContained ==
  ASSUME Serial!SlipAssumption
  PROVE  /\ Serial!Spec => [](Serial!TypeOK /\ Serial!OneAccidentOneDatagram)
         /\ InputsSpec => []LineRecovers
<1>1. Serial!Init => SerialInv
  BY SerialInit
<1>2. SerialInv /\ [Serial!Next]_Serial!vars => SerialInv'
  <2>1. CASE SerialInv /\ Serial!Receive
    BY <2>1, SerialReceive
  <2>2. ASSUME SerialInv, Serial!ReceiveNoise
        PROVE  SerialInv'
    <3>1. /\ uart # <<>> /\ Serial!Accident /\ uart' = Tail(uart) /\ sent' = sent
          /\ \E b \in Byte : Serial!RxByte(b)
      BY <2>2 DEF Serial!ReceiveNoise
    <3>2. Effect
      BY <2>2, <3>1, AnyByte DEF SerialInv
    <3>. QED  BY <2>2, <3>1, <3>2, SerialAccident
  <2>3. ASSUME SerialInv, Serial!LoseByte
        PROVE  SerialInv'
    <3>1. /\ uart # <<>> /\ Serial!Accident /\ uart' = Tail(uart) /\ sent' = sent
          /\ slip_rx' = slip_rx /\ input' = input
      BY <2>3 DEF Serial!LoseByte
    <3>2. Effect
      BY <2>3, <3>1 DEF Effect, SerialInv
    <3>. QED  BY <2>3, <3>1, <3>2, SerialAccident
  <2>4. ASSUME SerialInv, Serial!NoBuffer
        PROVE  SerialInv'
    <3>1. /\ uart # <<>> /\ Serial!Accident /\ uart' = Tail(uart) /\ sent' = sent
          /\ slip_rx' = Serial!Empty /\ input' = input
      BY <2>4 DEF Serial!NoBuffer
    <3>2. Effect
      BY <3>1, EmptyReceiver DEF Effect
    <3>. QED  BY <2>4, <3>1, <3>2, SerialAccident
  <2>5. ASSUME SerialInv, UNCHANGED Serial!vars
        PROVE  SerialInv'
    <3>1. /\ sent' = sent /\ uart' = uart /\ slip_rx' = slip_rx /\ input' = input
          /\ accidents' = accidents
      BY <2>5 DEF Serial!vars
    <3>2. ASSUME NEW q
          PROVE  Recovered(q)' = Recovered(q)
      BY <3>1 DEF Recovered, Lost, Unsure, Pending
    <3>. QED  BY <2>5, <3>1, <3>2 DEF SerialInv
  <2>. QED  BY <2>1, <2>2, <2>3, <2>4, <2>5 DEF Serial!Next
<1>3. SerialInv => Serial!TypeOK /\ Serial!OneAccidentOneDatagram
  BY SerialDone
<1>4. Serial!Spec => [](Serial!TypeOK /\ Serial!OneAccidentOneDatagram)
  BY <1>1, <1>2, <1>3, PTL DEF Serial!Spec
<1>5. InputsInit /\ Runs("slip") => Serial!Init
  BY DEF InputsInit, Runs
<1>6. [InputsNext]_<<part, inputVars>> =>
        /\ Runs("slip")' <=> Runs("slip")
        /\ Runs("slip") => [Serial!Next]_(Serial!vars)
  BY DEF Runs, InputsNext, inputVars, serialVars, Serial!vars
<1>7. Runs("slip") => ((Serial!OneAccidentOneDatagram) => LineRecovers)
  BY DEF LineRecovers
<1>8. ~Runs("slip") => LineRecovers
  BY DEF Runs, LineRecovers
<1>9. InputsSpec => []LineRecovers
  BY <1>4, <1>5, <1>6, <1>7, <1>8, PTL DEF InputsSpec, Serial!Spec
<1>. QED  BY <1>4, <1>9
-----------------------------------------------------------------------------
(* The button.                                                              *)

\* While the button is held, the clock is as far from press_start as the
\* button was seen pressed, whether or not it wrapped in between.
GestureInv ==
  /\ Gesture!TypeOK
  /\ btn_held => Gesture!Since(clock, press_start) = held
  /\ very_long_fired => btn_held
  /\ Gesture!HeldLongEnough

LEMMA Wraps ==
  ASSUME NEW n \in Nat \ {0}, NEW x \in 0..(2 * n - 1)
  PROVE  x % n = (IF x < n THEN x ELSE x - n) /\ x % n \in 0..(n - 1)
<1>1. CASE x < n
  BY <1>1
<1>2. CASE x >= n
  BY <1>2
<1>. QED  BY <1>1, <1>2

(* The distance on the clock grows by what passes, as long as it stays      *)
(* below the wrap.                                                          *)
LEMMA SinceGrows ==
  ASSUME CLOCK \in Nat \ {0}, NEW start \in 0..(CLOCK - 1),
         NEW t \in 0..(CLOCK - 1), NEW h \in Nat, Gesture!Since(t, start) = h,
         NEW d \in Nat, h + d < CLOCK, NEW u, u = (t + d) % CLOCK
  PROVE  Gesture!Since(u, start) = h + d
<1>. DEFINE n == CLOCK
<1>. USE DEF Gesture!Since
<1>1. PICK x \in 0..(2 * n - 1) : x = t + d
  OBVIOUS
<1>2. x % n = (IF x < n THEN x ELSE x - n) /\ x % n \in 0..(n - 1)
  BY <1>1, Wraps
<1>3. u = (IF x < n THEN x ELSE x - n) /\ u \in 0..(n - 1)
  BY <1>1, <1>2
<1>4. PICK y \in 0..(2 * n - 1) : y = t + n - start
  OBVIOUS
<1>5. y % n = IF y < n THEN y ELSE y - n
  BY <1>4, Wraps
<1>6. PICK z \in 0..(2 * n - 1) : z = u + n - start
  BY <1>3
<1>7. z % n = IF z < n THEN z ELSE z - n
  BY <1>6, Wraps
<1>8. h = IF y < n THEN y ELSE y - n
  BY <1>4, <1>5
<1>9. z % n = h + d
  BY <1>1, <1>3, <1>4, <1>6, <1>7, <1>8
<1>. QED  BY <1>6, <1>9

LEMMA EventAdded ==
  ASSUME NEW S, NEW e \in Seq(S), NEW v \in S
  PROVE  /\ Append(e, v) \in Seq(S) /\ Len(e) \in Nat /\ DOMAIN e = 1..Len(e)
         /\ DOMAIN Append(e, v) = 1..(Len(e) + 1)
         /\ \A i \in 1..Len(e) : Append(e, v)[i] = e[i]
         /\ Append(e, v)[Len(e) + 1] = v
  OBVIOUS

\* What the events of a press say of a hold of h.
Deserved(e, h) ==
  \A i \in DOMAIN e :
    /\ e[i] = "LONG_PRESS" => h >= BUTTON_PAIRING_HOLD
    /\ e[i] = "VERY_LONG_PRESS" => h >= BUTTON_FACTORY_RESET_HOLD

Event == {"SHORT_PRESS", "LONG_PRESS", "VERY_LONG_PRESS"}

LEMMA EventDeserved ==
  ASSUME NEW e \in Seq(Event), NEW v \in Event, NEW h, Deserved(e, h),
         v = "LONG_PRESS" => h >= BUTTON_PAIRING_HOLD,
         v = "VERY_LONG_PRESS" => h >= BUTTON_FACTORY_RESET_HOLD
  PROVE  Append(e, v) \in Seq(Event) /\ Deserved(Append(e, v), h)
<1>1. /\ Append(e, v) \in Seq(Event) /\ Len(e) \in Nat /\ DOMAIN e = 1..Len(e)
      /\ DOMAIN Append(e, v) = 1..(Len(e) + 1)
      /\ \A i \in 1..Len(e) : Append(e, v)[i] = e[i]
      /\ Append(e, v)[Len(e) + 1] = v
  BY EventAdded
<1>. DEFINE f == Append(e, v)
<1>. HIDE DEF f
<1>2. \A i \in 1..(Len(e) + 1) : i \in 1..Len(e) \/ i = Len(e) + 1
  BY <1>1
<1>3. Deserved(f, h)
  BY <1>1, <1>2 DEF Deserved, f
<1>. QED  BY <1>1, <1>3 DEF f

LEMMA GestureStep ==
  ASSUME Gesture!ButtonAssumption, GestureInv, Gesture!Poll
  PROVE  GestureInv'
<1>1. PICK d \in BUTTON_TASK_MS..MaxDelay :
        /\ clock' = (clock + d) % CLOCK
        /\ Gesture!Pressed(clock', d) \/ Gesture!Released(clock')
  BY DEF Gesture!Poll
<1>2. /\ CLOCK \in Nat \ {0} /\ d \in Nat /\ MaxHold \in Nat /\ d < CLOCK
      /\ MaxHold < CLOCK /\ BUTTON_PAIRING_HOLD \in Nat /\ BUTTON_FACTORY_RESET_HOLD \in Nat
  BY DEF Gesture!ButtonAssumption
<1>3. /\ clock \in 0..(CLOCK - 1) /\ press_start \in 0..(CLOCK - 1) /\ held \in 0..MaxHold
      /\ events \in Seq(Event) /\ Deserved(events, held)
      /\ btn_held => Gesture!Since(clock, press_start) = held
  BY DEF GestureInv, Gesture!TypeOK, Gesture!HeldLongEnough, Deserved, Event
<1>4. clock' \in 0..(CLOCK - 1)
  <2>1. PICK x \in 0..(2 * CLOCK - 1) : x = clock + d
    BY <1>2, <1>3
  <2>2. x % CLOCK \in 0..(CLOCK - 1)
    BY <1>2, <2>1, Wraps
  <2>. QED  BY <1>1, <2>1, <2>2
<1>5. /\ {btn_held', armed', long_fired', very_long_fired'} \subseteq BOOLEAN
      /\ very_long_fired' => long_fired' /\ btn_held'
  <2>. USE DEF GestureInv, Gesture!TypeOK
  <2>1. CASE Gesture!PressBegins(clock')
    BY <2>1, Zenon DEF Gesture!PressBegins
  <2>2. CASE Gesture!LongPress(clock')
    BY <2>2, Zenon DEF Gesture!LongPress
  <2>3. CASE Gesture!VeryLongPress(clock')
    BY <2>3, Zenon DEF Gesture!VeryLongPress
  <2>4. CASE Gesture!PressLasts(clock')
    BY <2>4, Zenon DEF Gesture!PressLasts
  <2>5. CASE Gesture!Released(clock')
    BY <2>5, Zenon DEF Gesture!Released
  <2>. QED  BY <1>1, <2>1, <2>2, <2>3, <2>4, <2>5 DEF Gesture!Pressed
<1>. DEFINE Timed == /\ press_start' \in 0..(CLOCK - 1) /\ held' \in 0..MaxHold
                     /\ events' \in Seq(Event) /\ Deserved(events', held')
                     /\ btn_held' => Gesture!Since(clock', press_start') = held'
<1>6. CASE Gesture!PressBegins(clock')
  <2>1. (clock' + CLOCK - clock') % CLOCK = 0
    <3>1. PICK t \in 0..(CLOCK - 1) : t = clock'
      BY <1>4
    <3>2. t + CLOCK - t = CLOCK /\ CLOCK \in 0..(2 * CLOCK - 1) /\ ~(CLOCK < CLOCK) /\ CLOCK - CLOCK = 0
      BY <1>2
    <3>3. CLOCK % CLOCK = 0
      BY <1>2, <3>2, Wraps
    <3>. QED  BY <3>1, <3>2, <3>3
  <2>2. <<>> \in Seq(Event) /\ DOMAIN <<>> = {} /\ 0 \in 0..MaxHold
    BY <1>2
  <2>3. press_start' = clock' /\ events' = <<>> /\ held' = 0
    BY <1>6 DEF Gesture!PressBegins
  <2>4. Timed
    BY <1>4, <2>1, <2>2, <2>3 DEF Gesture!Since, Deserved
  <2>. QED  BY <1>4, <1>5, <2>4 DEF GestureInv, Gesture!TypeOK, Gesture!HeldLongEnough, Deserved, Event
<1>7. CASE /\ held + d <= MaxHold /\ held' = held + d
           /\ \/ Gesture!LongPress(clock') \/ Gesture!VeryLongPress(clock')
              \/ Gesture!PressLasts(clock')
  <2>1. btn_held /\ press_start' = press_start
    BY <1>7 DEF Gesture!LongPress, Gesture!VeryLongPress, Gesture!PressLasts
  <2>2. Gesture!Since(clock', press_start) = held'
    <3>1. /\ CLOCK \in Nat \ {0} /\ press_start \in 0..(CLOCK - 1)
          /\ clock \in 0..(CLOCK - 1) /\ held \in Nat /\ held + d < CLOCK
      BY <1>2, <1>3, <1>7
    <3>2. Gesture!Since(clock, press_start) = held
      BY <1>3, <2>1
    <3>3. Gesture!Since(clock', press_start) = held + d
      BY <1>1, <1>2, <3>1, <3>2, SinceGrows
    <3>. QED  BY <1>7, <3>3
  <2>3. held' \in 0..MaxHold /\ held' >= held
    BY <1>2, <1>3, <1>7
  <2>4. Deserved(events, held')
    <3>1. \A h \in Nat : held >= h => held' >= h
      BY <1>2, <1>3, <2>3
    <3>. QED  BY <1>2, <1>3, <3>1 DEF Deserved
  <2>5. events' \in Seq(Event) /\ Deserved(events', held')
    <3>1. CASE Gesture!PressLasts(clock')
      BY <1>3, <2>4, <3>1 DEF Gesture!PressLasts
    <3>2. CASE Gesture!LongPress(clock')
      <4>1. events' = Append(events, "LONG_PRESS") /\ held' >= BUTTON_PAIRING_HOLD
        BY <2>2, <3>2 DEF Gesture!LongPress, Gesture!Fire
      <4>. QED  BY <1>3, <2>4, <4>1, EventDeserved DEF Event
    <3>3. CASE Gesture!VeryLongPress(clock')
      <4>1. events' = Append(events, "VERY_LONG_PRESS") /\ held' >= BUTTON_FACTORY_RESET_HOLD
        BY <2>2, <3>3 DEF Gesture!VeryLongPress, Gesture!Fire
      <4>. QED  BY <1>3, <2>4, <4>1, EventDeserved DEF Event
    <3>. QED  BY <1>7, <3>1, <3>2, <3>3
  <2>6. Timed
    BY <1>3, <2>1, <2>2, <2>3, <2>5
  <2>. QED  BY <1>4, <1>5, <2>6 DEF GestureInv, Gesture!TypeOK, Gesture!HeldLongEnough, Deserved, Event
<1>8. CASE Gesture!Released(clock')
  <2>1. /\ btn_held' = FALSE /\ press_start' = press_start /\ held' = held
        /\ events' = events \/ events' = Append(events, "SHORT_PRESS")
    BY <1>8 DEF Gesture!Released, Gesture!Fire
  <2>2. events' \in Seq(Event) /\ Deserved(events', held')
    BY <1>3, <2>1, EventDeserved DEF Event
  <2>3. Timed
    BY <1>3, <2>1, <2>2
  <2>. QED  BY <1>4, <1>5, <2>3 DEF GestureInv, Gesture!TypeOK, Gesture!HeldLongEnough, Deserved, Event
<1>. QED  BY <1>1, <1>6, <1>7, <1>8 DEF Gesture!Pressed

LEMMA GestureInvariance ==
  ASSUME Gesture!ButtonAssumption
  PROVE  Gesture!Spec => []GestureInv
<1>1. Gesture!Init => GestureInv
  <2>. SUFFICES ASSUME Gesture!Init PROVE GestureInv
    OBVIOUS
  <2>1. CLOCK \in Nat \ {0} /\ MaxHold \in Nat
    BY DEF Gesture!ButtonAssumption
  <2>2. 0 \in 0..(CLOCK - 1) /\ 0 \in 0..MaxHold /\ DOMAIN <<>> = {}
    BY <2>1
  <2>3. <<>> \in Seq(Event)
    OBVIOUS
  <2>4. {btn_held, armed, long_fired, very_long_fired} \subseteq BOOLEAN
    BY Zenon DEF Gesture!Init
  <2>. QED  BY <2>2, <2>3, <2>4 DEF Gesture!Init, GestureInv, Gesture!TypeOK, Gesture!HeldLongEnough, Event
<1>2. GestureInv /\ [Gesture!Next]_(Gesture!vars) => GestureInv'
  <2>1. ASSUME GestureInv, UNCHANGED Gesture!vars
        PROVE  GestureInv'
    BY <2>1 DEF GestureInv, Gesture!TypeOK, Gesture!HeldLongEnough, Gesture!Since, Gesture!vars
  <2>. QED  BY <2>1, GestureStep DEF Gesture!Next
<1>. QED  BY <1>1, <1>2, PTL DEF Gesture!Spec

(* The button task gives a gesture only for a press that was seen as long   *)
(* as the gesture asks, wherever the clock wraps and however long the polls *)
(* are apart (button.c:16-63).                                              *)
THEOREM GestureTakesItsTime ==
  ASSUME Gesture!ButtonAssumption
  PROVE  /\ Gesture!Spec => [](Gesture!TypeOK /\ Gesture!HeldLongEnough)
         /\ InputsSpec => []HeldLongEnough
<1>1. GestureInv => Gesture!TypeOK /\ Gesture!HeldLongEnough
  BY DEF GestureInv
<1>2. Gesture!Spec => [](Gesture!TypeOK /\ Gesture!HeldLongEnough)
  BY <1>1, GestureInvariance, PTL
<1>3. InputsInit /\ Runs("button") => Gesture!Init
  BY DEF InputsInit, Runs
<1>4. [InputsNext]_<<part, inputVars>> =>
        /\ Runs("button")' <=> Runs("button")
        /\ Runs("button") => [Gesture!Next]_(Gesture!vars)
  BY DEF Runs, InputsNext, inputVars, gestureVars, Gesture!vars
<1>5. Runs("button") => ((Gesture!HeldLongEnough) => HeldLongEnough)
  BY DEF HeldLongEnough
<1>6. ~Runs("button") => HeldLongEnough
  BY DEF Runs, HeldLongEnough
<1>7. InputsSpec => []HeldLongEnough
  BY <1>2, <1>3, <1>4, <1>5, <1>6, PTL DEF InputsSpec, Gesture!Spec
<1>. QED  BY <1>2, <1>7
-----------------------------------------------------------------------------
(* The front panel.                                                         *)

\* How long the LED task may be busy with one thing before a reset.
Lasting == BatteryBlinks \union {StartDelay, LED_TICK}

\* While the button is held, what the press met and what was asked for before
\* it run out.
HeldOut ==
  /\ hold > 0 /\ s_battery_req => \E x \in Lasting : busy + hold <= x + 1
  /\ hold > 0 /\ pattern # "mode" =>
       \E x, y \in Lasting : busy + hold <= x + y + 1

\* Until a reset the task is in time for the blink, and the blink in time for it.
InTime ==
  /\ s_factory_reset => panel = "on" /\ busy + FactoryBlink <= reset_in - 1
  /\ ~s_factory_reset => confirmed \/ (pattern = "factory" /\ busy <= reset_in - 1)

PanelInv ==
  /\ Panel!TypeOK
  /\ s_battery_req <=> unanswered > 0
  /\ \E x \in Lasting : unanswered <= x + 1 /\ (s_battery_req => unanswered + busy <= x + 1)
  /\ pattern = "mode" => busy <= LED_TICK
  /\ panel = "reset" => reset_in = 1
  /\ reset_in = 0 => ~s_factory_reset /\ \E x \in Lasting : busy <= x
  /\ reset_in > 0 => hold = 0 /\ ~s_battery_req /\ InTime
  /\ HeldOut

LEMMA PanelNumbers ==
  ASSUME Panel!PanelAssumption
  PROVE  /\ {PressTicks, PairingTicks, ResetTicks, StartDelay,
             FactoryBlink, FactoryDelay, LED_TICK} \subseteq Nat \ {0}
         /\ Lasting \subseteq Nat \ {0}
         /\ \A x, y \in Lasting : x + y < ResetTicks
         /\ LED_TICK + FactoryBlink <= FactoryDelay
         /\ StartDelay \in Lasting /\ LED_TICK \in Lasting /\ BatteryBlinks \subseteq Lasting
BY DEF Panel!PanelAssumption, Lasting

LEMMA ButtonStep ==
  ASSUME Panel!PanelAssumption, PanelInv, Panel!Button
  PROVE  PanelInv'
<1>. USE PanelNumbers
<1>1. CASE Panel!Press
  BY <1>1 DEF PanelInv, Panel!TypeOK, HeldOut, InTime, Panel!Press
<1>2. CASE Panel!ShortPress
  BY <1>2 DEF PanelInv, Panel!TypeOK, HeldOut, InTime, Panel!ShortPress
<1>3. CASE Panel!OtherRelease
  BY <1>3 DEF PanelInv, Panel!TypeOK, HeldOut, InTime, Panel!OtherRelease
<1>4. CASE Panel!VeryLongPress
  BY <1>4 DEF PanelInv, Panel!TypeOK, HeldOut, InTime, Panel!VeryLongPress, Panel!VeryLongPressDelays
<1>. QED  BY <1>1, <1>2, <1>3, <1>4 DEF Panel!Button

LEMMA LedStep ==
  ASSUME Panel!PanelAssumption, PanelInv, Panel!Led
  PROVE  PanelInv'
<1>1. {s_battery_req', s_factory_reset', confirmed'} \subseteq BOOLEAN
  <2>. USE DEF PanelInv, Panel!TypeOK
  <2>1. CASE Panel!ShowFactory
    BY <2>1, Zenon DEF Panel!ShowFactory
  <2>2. CASE Panel!ShowBattery
    BY <2>2, Zenon DEF Panel!ShowBattery
  <2>3. CASE Panel!ShowMode
    BY <2>3, Zenon DEF Panel!ShowMode
  <2>. QED  BY <2>1, <2>2, <2>3 DEF Panel!Led
<1>2. UNCHANGED <<hold, reset_in, panel>> /\ panel = "on" /\ busy = 0
  BY DEF Panel!Led, Panel!ShowFactory, Panel!ShowBattery, Panel!ShowMode,
     Panel!AtTop, Panel!button
<1>3. CASE Panel!ShowFactory
  <2>1. /\ s_factory_reset /\ s_factory_reset' = FALSE
        /\ pattern' = "factory" /\ busy' = FactoryBlink
        /\ UNCHANGED <<s_battery_req, unanswered>>
    BY <1>3 DEF Panel!ShowFactory, Panel!Shows
  <2>. QED  BY <1>1, <1>2, <2>1, PanelNumbers DEF PanelInv, Panel!TypeOK, HeldOut, InTime
<1>4. CASE Panel!ShowBattery
  <2>1. PICK ticks \in BatteryBlinks : pattern' = "battery" /\ busy' = ticks
    BY <1>4 DEF Panel!ShowBattery, Panel!Shows
  <2>2. /\ s_battery_req /\ ~s_factory_reset
        /\ s_battery_req' = FALSE /\ unanswered' = 0
        /\ UNCHANGED s_factory_reset
    BY <1>4 DEF Panel!ShowBattery
  <2>3. HeldOut'
    BY <1>2, <2>1, <2>2, PanelNumbers DEF PanelInv, Panel!TypeOK, HeldOut
  <2>. QED  BY <1>1, <1>2, <2>1, <2>2, <2>3, PanelNumbers DEF PanelInv, Panel!TypeOK, InTime
<1>5. CASE Panel!ShowMode
  <2>1. /\ ~s_factory_reset /\ ~s_battery_req
        /\ pattern' = "mode" /\ busy' = LED_TICK
        /\ confirmed' = (confirmed \/ pattern = "factory")
        /\ UNCHANGED <<s_battery_req, s_factory_reset, unanswered>>
    BY <1>5 DEF Panel!ShowMode, Panel!Shows
  <2>2. reset_in > 0 => confirmed'
    BY <2>1, Zenon DEF PanelInv, InTime
  <2>. QED  BY <1>1, <1>2, <2>1, <2>2, PanelNumbers DEF PanelInv, Panel!TypeOK, HeldOut, InTime
<1>. QED  BY <1>3, <1>4, <1>5 DEF Panel!Led

LEMMA TimeStep ==
  ASSUME Panel!PanelAssumption, PanelInv, Panel!Tick \/ Panel!Resets
  PROVE  PanelInv'
<1>. USE PanelNumbers DEF PanelInv, Panel!TypeOK, HeldOut, InTime
<1>1. CASE Panel!Tick
  BY <1>1 DEF Panel!Tick
<1>2. CASE Panel!Resets
  BY <1>2 DEF Panel!Resets
<1>. QED  BY <1>1, <1>2

(* A device that resets itself has shown the blink that confirms it, and a  *)
(* press is answered when the pattern it met has ended, for any lengths of  *)
(* the patterns with which the hold outlasts two of them (system.c          *)
(* on_button_event, status_led.c status_task).                              *)
THEOREM ResetIsConfirmed ==
  ASSUME Panel!PanelAssumption
  PROVE  /\ Panel!Spec => [](Panel!TypeOK /\ Panel!ResetIsShown /\ Panel!PressAnswered)
         /\ InputsSpec => []PanelAnswers
<1>1. Panel!Init => PanelInv
  <2>. SUFFICES ASSUME Panel!Init PROVE PanelInv
    OBVIOUS
  <2>1. {s_battery_req, s_factory_reset, confirmed} \subseteq BOOLEAN
    BY Zenon DEF Panel!Init
  <2>2. Panel!TypeOK
    BY <2>1, PanelNumbers DEF Panel!Init, Panel!TypeOK
  <2>. QED  BY <2>2, PanelNumbers DEF Panel!Init, PanelInv, HeldOut
<1>2. PanelInv /\ [Panel!Next]_(Panel!vars) => PanelInv'
  <2>1. ASSUME PanelInv, UNCHANGED Panel!vars
        PROVE  PanelInv'
    BY <2>1 DEF PanelInv, Panel!TypeOK, HeldOut, InTime, Panel!vars, Panel!button
  <2>. QED  BY <2>1, ButtonStep, LedStep, TimeStep DEF Panel!Next
<1>3. PanelInv => Panel!TypeOK /\ Panel!ResetIsShown /\ Panel!PressAnswered
  BY PanelNumbers DEF PanelInv, Panel!TypeOK, InTime, Lasting,
     Panel!ResetIsShown, Panel!PressAnswered
<1>4. Panel!Spec => [](Panel!TypeOK /\ Panel!ResetIsShown /\ Panel!PressAnswered)
  BY <1>1, <1>2, <1>3, PTL DEF Panel!Spec
<1>5. InputsInit /\ Runs("panel") => Panel!Init
  BY DEF InputsInit, Runs
<1>6. [InputsNext]_<<part, inputVars>> =>
        /\ Runs("panel")' <=> Runs("panel")
        /\ Runs("panel") => [Panel!Next]_(Panel!vars)
  BY DEF Runs, InputsNext, inputVars, panelVars, Panel!vars, Panel!button
<1>7. Runs("panel") => ((Panel!ResetIsShown /\ Panel!PressAnswered) => PanelAnswers)
  BY DEF PanelAnswers
<1>8. ~Runs("panel") => PanelAnswers
  BY DEF Runs, PanelAnswers
<1>9. InputsSpec => []PanelAnswers
  BY <1>4, <1>5, <1>6, <1>7, <1>8, PTL DEF InputsSpec, Panel!Spec
<1>. QED  BY <1>4, <1>9
-----------------------------------------------------------------------------
(* The battery.                                                             *)

\* The filter is within what was measured; while nothing rose it only falls,
\* so that after a trend check it is not above the snapshot.
ChargeInv ==
  /\ Charge!TypeOK
  /\ ~s_connected => s_filt_mv = 0 /\ s_state = "unknown"
  /\ s_connected => s_filt_ready /\ lowest > 0 /\ s_filt_mv \in lowest..highest
  /\ s_connected /\ checks > 0 /\ ~rose => s_filt_mv <= s_snapshot_mv
  /\ s_state = "charging" /\ ~rose => since = 1

LEMMA DivBounds ==
  ASSUME NEW k \in Nat \ {0}, NEW d \in Nat
  PROVE  d \div k \in 0..d
OBVIOUS

(* A step of the filter is a part of the way to what is measured.           *)
LEMMA ShareOfWay ==
  ASSUME Charge!BatteryAssumption, NEW a \in Nat, NEW b \in Nat
  PROVE  /\ b >= a => a + Charge!Share(b - a) \in a..b
         /\ b <= a => a + Charge!Share(b - a) \in b..a
<1>1. EMA_SHARE \in Nat \ {0}
  BY DEF Charge!BatteryAssumption
<1>2. CASE b >= a
  <2>1. PICK d \in Nat : d = b - a
    BY <1>2
  <2>2. d \div EMA_SHARE \in 0..d
    BY <1>1, DivBounds
  <2>3. Charge!Share(b - a) = d \div EMA_SHARE
    BY <2>1 DEF Charge!Share
  <2>4. d = 0 => d \div EMA_SHARE = 0
    BY <2>2
  <2>. QED  BY <1>2, <2>1, <2>2, <2>3, <2>4
<1>3. CASE b < a
  <2>1. PICK d \in Nat : d = a - b
    BY <1>3
  <2>2. d \div EMA_SHARE \in 0..d
    BY <1>1, DivBounds
  <2>3. b - a = -d /\ -(b - a) = d /\ ~(b - a >= 0)
    BY <1>3, <2>1
  <2>4. Charge!Share(b - a) = -(d \div EMA_SHARE)
    BY <2>3 DEF Charge!Share
  <2>. QED  BY <1>3, <2>1, <2>2, <2>4
<1>. QED  BY <1>2, <1>3

LEMMA SampleStep ==
  ASSUME Charge!BatteryAssumption, ChargeInv, Charge!Sample
  PROVE  ChargeInv'
<1>. DEFINE mv == Charge!Filtered
            on == vbat_mv > 0
<1>1. /\ {CONNECTED_MV, BATTERY_FULL_MV, MinMv, MaxMv, EMA_SHARE,
          BATTERY_TREND_EVERY, BATTERY_TREND_MV} \subseteq Nat \ {0}
      /\ CONNECTED_MV <= MinMv /\ MinMv <= MaxMv
  BY DEF Charge!BatteryAssumption
<1>2. /\ \A v \in Charge!Voltage : v \in Nat /\ v <= MaxMv /\ (v = 0 \/ v >= MinMv)
      /\ \A v \in Nat : v >= MinMv /\ v <= MaxMv => v \in Charge!Voltage
      /\ 0 \in Charge!Voltage
      /\ vbat_mv \in Charge!Voltage /\ vbat_mv' \in Charge!Voltage
      /\ vbat_mv >= CONNECTED_MV <=> on
  BY <1>1 DEF ChargeInv, Charge!TypeOK, Charge!Voltage, Charge!Sample
<1>3. /\ s_filt_mv \in Nat /\ lowest \in Nat /\ highest \in Nat /\ s_snapshot_mv \in Nat
      /\ vbat_mv \in Nat
  BY <1>2 DEF ChargeInv, Charge!TypeOK
<1>4. /\ ~on => mv = 0
      /\ on /\ ~s_connected => mv = vbat_mv
      /\ on /\ s_connected /\ vbat_mv >= s_filt_mv => mv \in s_filt_mv..vbat_mv
      /\ on /\ s_connected /\ vbat_mv <= s_filt_mv => mv \in vbat_mv..s_filt_mv
  <2>1. CASE Charge!Restarts
    <3>1. mv = vbat_mv
      BY <2>1 DEF Charge!Filtered
    <3>2. ~(on /\ s_connected)
      BY <1>2, <2>1 DEF Charge!Restarts, ChargeInv, Charge!Connected
    <3>. QED  BY <1>2, <1>3, <3>1, <3>2
  <2>2. CASE ~Charge!Restarts
    <3>1. mv = s_filt_mv + Charge!Share(vbat_mv - s_filt_mv) /\ (on <=> s_connected)
      BY <1>2, <2>2 DEF Charge!Filtered, Charge!Restarts, Charge!Connected
    <3>2. /\ vbat_mv >= s_filt_mv => mv \in s_filt_mv..vbat_mv
          /\ vbat_mv <= s_filt_mv => mv \in vbat_mv..s_filt_mv
      BY <1>3, <3>1, ShareOfWay
    <3>3. ~on => s_filt_mv = 0 /\ vbat_mv = 0
      BY <1>2, <1>3, <3>1 DEF ChargeInv
    <3>. QED  BY <1>3, <3>1, <3>2, <3>3
  <2>. QED  BY <2>1, <2>2
<1>5. /\ s_filt_mv' = mv /\ s_filt_ready' = TRUE
      /\ Charge!StateAfter(mv) /\ Charge!Record
  BY <1>2 DEF Charge!Sample, Charge!Connected
<1>. HIDE DEF mv
<1>. DEFINE anew == ~s_connected \/ ~on
<1>6. /\ lowest' = IF anew \/ vbat_mv < lowest THEN vbat_mv ELSE lowest
      /\ highest' = IF anew \/ vbat_mv > highest THEN vbat_mv ELSE highest
      /\ rose' = IF anew THEN FALSE ELSE rose \/ vbat_mv > lowest
  BY <1>2, <1>5, Zenon DEF Charge!Record, Charge!Connected
<1>7. rose' \in BOOLEAN
  BY <1>6, Zenon DEF ChargeInv, Charge!TypeOK
<1>8. /\ lowest' \in Charge!Voltage /\ highest' \in Charge!Voltage
      /\ anew => lowest' = vbat_mv /\ highest' = vbat_mv
      /\ ~anew => /\ lowest' <= lowest /\ lowest' <= vbat_mv /\ lowest' > 0
                  /\ highest' >= highest /\ highest' >= vbat_mv
  BY <1>2, <1>3, <1>6 DEF ChargeInv, Charge!TypeOK
<1>9. ~anew /\ ~rose' => ~rose /\ ~(vbat_mv > lowest)
  BY <1>6, Zenon
<1>10. ~anew /\ ~rose' => ~rose /\ vbat_mv <= lowest
  BY <1>3, <1>9
<1>11. checks' \in 0..2
  BY <1>5 DEF Charge!Record, ChargeInv, Charge!TypeOK
<1>12. mv \in Charge!Voltage
  <2>1. CASE ~on
    BY <1>2, <1>4, <2>1
  <2>2. CASE on /\ ~s_connected
    BY <1>2, <1>4, <2>2
  <2>3. CASE on /\ s_connected
    <3>1. vbat_mv >= MinMv /\ vbat_mv <= MaxMv /\ s_filt_mv >= MinMv /\ s_filt_mv <= MaxMv
      BY <1>1, <1>2, <2>3 DEF ChargeInv, Charge!TypeOK
    <3>. QED  BY <1>1, <1>2, <1>3, <1>4, <2>3, <3>1
  <2>. QED  BY <2>1, <2>2, <2>3
<1>13. on => lowest' > 0 /\ mv \in lowest'..highest'
  <2>. SUFFICES ASSUME on PROVE lowest' > 0 /\ mv \in lowest'..highest'
    OBVIOUS
  <2>1. lowest' \in Nat /\ highest' \in Nat /\ mv \in Nat
    BY <1>2, <1>8, <1>12
  <2>2. CASE s_connected
    <3>1. s_filt_mv \in lowest..highest
      BY <2>2 DEF ChargeInv
    <3>2. /\ lowest' <= lowest /\ lowest' <= vbat_mv /\ lowest' > 0
          /\ highest' >= highest /\ highest' >= vbat_mv
      BY <1>8, <2>2
    <3>3. mv \in s_filt_mv..vbat_mv \/ mv \in vbat_mv..s_filt_mv
      BY <1>3, <1>4, <2>2
    <3>. QED  BY <1>3, <2>1, <3>1, <3>2, <3>3
  <2>3. CASE ~s_connected
    BY <1>2, <1>4, <1>8, <2>1, <2>3
  <2>. QED  BY <2>2, <2>3
<1>14. /\ s_state' \in {"unknown", "discharging", "charging", "charged"}
       /\ s_snapshot_count' \in 0..(BATTERY_TREND_EVERY - 1)
       /\ s_snapshot_mv' \in Charge!Voltage
       /\ ~on => s_state' = "unknown"
  BY <1>2, <1>1, <1>5, <1>12 DEF Charge!StateAfter, Charge!Trend, Charge!CheckDue, ChargeInv, Charge!TypeOK, Charge!Connected
<1>15. on /\ checks' > 0 /\ ~rose' => mv <= s_snapshot_mv'
  <2>. SUFFICES ASSUME on, checks' > 0, ~rose' PROVE mv <= s_snapshot_mv'
    OBVIOUS
  <2>1. CASE Charge!CheckDue
    BY <1>2, <1>5, <1>12, <2>1 DEF Charge!StateAfter, Charge!Connected
  <2>2. CASE ~Charge!CheckDue
    <3>1. s_connected /\ checks > 0 /\ checks' = checks /\ s_snapshot_mv' = s_snapshot_mv
      BY <1>2, <1>5, <2>2 DEF Charge!StateAfter, Charge!Record, Charge!Connected
    <3>2. ~rose /\ vbat_mv <= lowest
      BY <1>10, <3>1
    <3>3. mv <= s_filt_mv
      BY <1>3, <1>4, <3>1, <3>2 DEF ChargeInv
    <3>. QED  BY <1>2, <1>3, <1>12, <3>1, <3>2, <3>3 DEF ChargeInv
  <2>. QED  BY <2>1, <2>2
<1>16. s_state' = "charging" /\ ~rose' => since' = 1
  <2>. SUFFICES ASSUME s_state' = "charging", ~rose' PROVE since' = 1
    OBVIOUS
  <2>1. on
    BY <1>2, <1>14
  <2>2. CASE s_state = "charging"
    <3>1. s_connected /\ since' = since
      BY <1>5, <2>2 DEF Charge!Record, ChargeInv
    <3>. QED  BY <1>10, <2>1, <2>2, <3>1 DEF ChargeInv
  <2>3. CASE s_state # "charging"
    <3>1. Charge!CheckDue /\ Charge!Trend(mv) = "charging"
      BY <1>2, <1>5, <2>1, <2>3 DEF Charge!StateAfter, Charge!Connected
    <3>2. mv - s_snapshot_mv >= BATTERY_TREND_MV
      BY <2>3, <3>1 DEF Charge!Trend
    <3>3. ~(s_connected /\ checks > 0)
      <4>. SUFFICES ASSUME s_connected, checks > 0 PROVE FALSE
        OBVIOUS
      <4>1. ~rose /\ vbat_mv <= lowest
        BY <1>10, <2>1
      <4>2. mv <= s_filt_mv /\ s_filt_mv <= s_snapshot_mv
        BY <1>3, <1>4, <2>1, <4>1 DEF ChargeInv
      <4>. QED  BY <1>1, <1>2, <1>3, <1>12, <3>2, <4>2
    <3>4. checks \in 0..2
      BY DEF ChargeInv, Charge!TypeOK
    <3>5. checks' = 1 /\ since' = checks'
      BY <1>2, <1>5, <2>1, <2>3, <3>1, <3>3, <3>4 DEF Charge!Record, Charge!Connected
    <3>. QED  BY <3>5
  <2>. QED  BY <2>2, <2>3
<1>17. since' \in 0..2
  BY <1>5, <1>11 DEF Charge!Record, ChargeInv, Charge!TypeOK
<1>18. s_connected' \in BOOLEAN /\ (s_connected' <=> on)
  <2>1. s_connected' = (vbat_mv >= CONNECTED_MV)
    BY Zenon DEF Charge!Sample, Charge!Connected
  <2>2. s_connected' \in BOOLEAN
    BY <2>1
  <2>3. s_connected' <=> vbat_mv >= CONNECTED_MV
    BY <2>1
  <2>. QED  BY <1>2, <2>2, <2>3
<1>19. Charge!TypeOK'
  <2>1. {s_filt_ready', s_connected', rose'} \subseteq BOOLEAN
    BY <1>5, <1>7, <1>18
  <2>. QED  BY <1>2, <1>5, <1>8, <1>11, <1>12, <1>14, <1>17, <2>1 DEF Charge!TypeOK
<1>. QED
  BY <1>4, <1>5, <1>13, <1>14, <1>15, <1>16, <1>18, <1>19 DEF ChargeInv

(* The filtered voltage is always one between the lowest and the highest    *)
(* measured since the battery was connected, and after the first trend      *)
(* check a voltage that only falls does not make the state CHARGING, for    *)
(* any share of the filter and any thresholds (battery.c battery_task).     *)
THEOREM FallingIsNotCharging ==
  ASSUME Charge!BatteryAssumption
  PROVE  /\ Charge!Spec => [](Charge!TypeOK /\ Charge!TrendIsTrue)
         /\ InputsSpec => []TrendIsTrue
<1>1. Charge!Init => ChargeInv
  <2>. SUFFICES ASSUME Charge!Init PROVE ChargeInv
    OBVIOUS
  <2>1. {s_filt_ready, s_connected, rose} \subseteq BOOLEAN
    BY Zenon DEF Charge!Init
  <2>2. Charge!TypeOK
    BY <2>1 DEF Charge!Init, Charge!TypeOK, Charge!Voltage, Charge!BatteryAssumption
  <2>. QED  BY <2>2 DEF Charge!Init, ChargeInv
<1>2. ChargeInv /\ [Charge!Next]_(Charge!vars) => ChargeInv'
  <2>1. ASSUME ChargeInv, UNCHANGED Charge!vars
        PROVE  ChargeInv'
    BY <2>1 DEF ChargeInv, Charge!TypeOK, Charge!vars
  <2>. QED  BY <2>1, SampleStep DEF Charge!Next
<1>3. ChargeInv => Charge!TypeOK /\ Charge!TrendIsTrue
  BY DEF ChargeInv, Charge!TrendIsTrue
<1>4. Charge!Spec => [](Charge!TypeOK /\ Charge!TrendIsTrue)
  BY <1>1, <1>2, <1>3, PTL DEF Charge!Spec
<1>5. InputsInit /\ Runs("battery") => Charge!Init
  BY DEF InputsInit, Runs
<1>6. [InputsNext]_<<part, inputVars>> =>
        /\ Runs("battery")' <=> Runs("battery")
        /\ Runs("battery") => [Charge!Next]_(Charge!vars)
  BY DEF Runs, InputsNext, inputVars, chargeVars, Charge!vars
<1>7. Runs("battery") => ((Charge!TrendIsTrue) => TrendIsTrue)
  BY DEF TrendIsTrue
<1>8. ~Runs("battery") => TrendIsTrue
  BY DEF Runs, TrendIsTrue
<1>9. InputsSpec => []TrendIsTrue
  BY <1>4, <1>5, <1>6, <1>7, <1>8, PTL DEF InputsSpec, Charge!Spec
<1>. QED  BY <1>4, <1>9
=============================================================================
