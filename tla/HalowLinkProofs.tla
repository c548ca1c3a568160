--------------------------- MODULE HalowLinkProofs --------------------------
(***************************************************************************)
(* Safety of the link to the radio for any socket numbers, any traffic and *)
(* any number of connections.  The first part is about the two tasks and   *)
(* the socket they share; what the deframer makes of the bytes plays no    *)
(* part in it.  The second part follows the bytes from the radio's encoder *)
(* through a connection, which may break anywhere, to the deframer.        *)
(***************************************************************************)
EXTENDS HalowLink, FiniteSetTheorems, SequenceTheorems, TLAPS

\* Where the link task is decides what it holds: a socket of its own between
\* socket() and close(), and the published number only while it reads.
Held ==
  /\ fd \in Fd \union {NoFd}
  /\ socket \in [Fd -> {Free, "link", "other"}]
  /\ fd = NoFd <=> link = "socket"
  /\ fd # NoFd => socket[fd] = "link"
  /\ sock_fd = IF link \in {"recv", "withdraw"} THEN fd ELSE NoFd

\* The sink holds the mutex exactly while it sends, and as the link task needs
\* the mutex to withdraw the number, what it sends on is still published.
Locked ==
  /\ mutex = IF sink = "sending" THEN "dispatch" ELSE NoTask
  /\ sendFd = IF sink = "sending" THEN sock_fd ELSE NoFd

\* A packet is numbered below the one that is offered once it was written.
Numbered ==
  /\ offered \in Nat
  /\ written \in Seq(Nat)
  /\ \A i \in 1..Len(written) : written[i] < offered
  /\ \A i, j \in 1..Len(written) : i < j => written[i] < written[j]

Inv == Held /\ Locked /\ Numbered

(* The link task keeps to its own socket whatever the sink does.            *)
LEMMA LinkInv ==
  ASSUME LinkAssumption, Inv, LinkTask
  PROVE  Inv'
<1>. USE DEF Inv, Held, Locked
<1>1. Held' /\ Locked'
  <2>. USE DEF LinkAssumption, Free, NoTask, sinkVars
  <2>1. CASE LinkSocket
    BY <2>1 DEF LinkSocket
  <2>2. CASE LinkConnectFails
    BY <2>2 DEF LinkConnectFails
  <2>3. CASE LinkConnect \/ LinkReset
    BY <2>3 DEF LinkConnect, LinkReset
  <2>4. CASE LinkPublish
    BY <2>4 DEF LinkPublish
  <2>5. CASE LinkRecv \/ LinkRecvEnds
    BY <2>5 DEF LinkRecv, LinkRecvEnds
  <2>6. CASE LinkWithdraw
    BY <2>6 DEF LinkWithdraw
  <2>7. CASE LinkClose
    BY <2>7 DEF LinkClose
  <2>. QED  BY <2>1, <2>2, <2>3, <2>4, <2>5, <2>6, <2>7 DEF LinkTask
<1>2. UNCHANGED <<offered, written>>
  BY DEF LinkTask, LinkSocket, LinkConnectFails, LinkConnect, LinkReset, LinkPublish,
         LinkRecv, LinkRecvEnds, LinkWithdraw, LinkClose, sinkVars
<1>. QED  BY <1>1, <1>2 DEF Numbered

(* The sink takes the number and gives up the mutex in the same breath as   *)
(* it is done with it.                                                      *)
LEMMA SinkInv ==
  ASSUME LinkAssumption, Inv, Sink
  PROVE  Inv'
<1>. USE DEF Inv
<1>1. Held'
  BY DEF Sink, SinkConnected, SinkNoSocket, SinkEncode, SinkLock, SinkSend, Held, linkVars
<1>2. Locked'
  BY DEF Sink, SinkConnected, SinkNoSocket, SinkEncode, SinkLock, SinkSend, Taken,
         Locked, NoTask, linkVars
<1>3. Numbered'
  <2>1. CASE written' = written /\ offered' \in {offered, offered + 1}
    BY <2>1 DEF Numbered
  <2>2. CASE written' = Append(written, offered) /\ offered' = offered + 1
    <3>1. written' \in Seq(Nat) /\ Len(written') = Len(written) + 1
      BY <2>2 DEF Numbered
    <3>2. \A i \in 1..Len(written') :
            written'[i] = IF i <= Len(written) THEN written[i] ELSE offered
      BY <2>2, <3>1 DEF Numbered
    <3>. QED  BY <2>2, <3>1, <3>2 DEF Numbered
  <2>3. SinkSend => written' \in {written, Append(written, offered)} /\ offered' = offered + 1
    BY DEF SinkSend, Taken
  <2>4. Sink /\ ~SinkSend => written' = written /\ offered' \in {offered, offered + 1}
    BY DEF Sink, SinkConnected, SinkNoSocket, SinkEncode, SinkLock, Taken
  <2>. QED  BY <2>1, <2>2, <2>3, <2>4
<1>. QED  BY <1>1, <1>2, <1>3

(* Other tasks only get numbers that are free and close their own.          *)
LEMMA EnvironmentInv ==
  ASSUME LinkAssumption, Inv,
         RadioSends \/ ConnectionBreaks \/ OtherOpens \/ OtherCloses \/ UNCHANGED vars
  PROVE  Inv'
<1>1. Held'
  <2>1. CASE OtherOpens
    BY <2>1 DEF Inv, OtherOpens, Held, linkVars, Free
  <2>2. CASE OtherCloses
    BY <2>2 DEF Inv, OtherCloses, Held, linkVars, Free
  <2>. QED
    BY <2>1, <2>2 DEF Inv, Held, RadioSends, ConnectionBreaks, vars, linkVars
<1>2. UNCHANGED <<sinkVars, mutex, sock_fd>>
  BY DEF RadioSends, ConnectionBreaks, OtherOpens, OtherCloses, vars, linkVars
<1>. QED  BY <1>1, <1>2 DEF Inv, Locked, Numbered, sinkVars

LEMMA Invariance == Spec => []Inv
<1>. USE LinkAssumption
<1>1. Init => Inv
  BY DEF Init, Inv, Held, Locked, Numbered, Free, NoTask
<1>2. Inv /\ [Next]_vars => Inv'
  BY LinkInv, SinkInv, EnvironmentInv DEF Next
<1>. QED  BY <1>1, <1>2, PTL DEF Spec
-----------------------------------------------------------------------------
(* send_mutex keeps the number alive: whenever send() runs, the socket it   *)
(* was given is the link's, though the sink looks at sock_fd unlocked and   *)
(* other tasks take every number that is closed (system.c:113-135,          *)
(* 217-236).                                                                *)
THEOREM SendsOnItsOwn == Spec => []SendOnOwnSocket
<1>1. Inv => SendOnOwnSocket
  BY DEF Inv, Held, Locked, SendOnOwnSocket
<1>. QED  BY <1>1, Invariance, PTL

(* No packet is written twice or out of order, over any number of           *)
(* connections (system.c:108-139).                                          *)
THEOREM WritesInOrder == Spec => []WrittenOnceInOrder
<1>1. Inv => WrittenOnceInOrder
  BY DEF Inv, Numbered, WrittenOnceInOrder
<1>. QED  BY <1>1, Invariance, PTL
-----------------------------------------------------------------------------
(* A set of numbers that is not empty has a least one.                      *)
LEMMA Least ==
  ASSUME NEW T \in SUBSET Nat, T # {}
  PROVE  \E x \in T : \A y \in T : x <= y
<1>. DEFINE F == {0..t : t \in T}
<1>1. F \subseteq FiniteSubsetsOf(Nat)
  <2>1. ASSUME NEW t \in T
        PROVE  0..t \in FiniteSubsetsOf(Nat)
    <3>1. IsFiniteSet(0..t)
      BY FS_Interval
    <3>. QED  BY <3>1 DEF FiniteSubsetsOf
  <2>. QED  BY <2>1
<1>2. PICK m \in F : \A k \in F : ~ (<<k, m>> \in StrictSubsetOrdering(Nat))
  <2>1. F # {}
    OBVIOUS
  <2>. HIDE DEF F
  <2>. QED  BY <1>1, <2>1, WFMin, FS_StrictSubsetOrderingWellFounded
<1>3. PICK x \in T : m = 0..x
  OBVIOUS
<1>4. ASSUME NEW y \in T, y < x
      PROVE  FALSE
  <2>1. 0..y \in F /\ 0..y \subseteq 0..x /\ 0..y # 0..x /\ 0..x \in SUBSET Nat
        /\ 0..y \in SUBSET Nat
    BY <1>4
  <2>. QED  BY <1>2, <1>3, <2>1 DEF StrictSubsetOrdering
<1>. QED  BY <1>4

(* Induction along a sequence: what holds of its first place and passes     *)
(* from each place to the next holds of all.                                *)
LEMMA Along ==
  ASSUME NEW N \in Nat, NEW T, N # 0 => 1 \in T,
         \A n \in 1..N : n \in T /\ n # N => n + 1 \in T
  PROVE  1..N \subseteq T
<1>. SUFFICES ASSUME ~(1..N \subseteq T)
              PROVE  FALSE
  OBVIOUS
<1>. DEFINE C == {n \in 1..N : n \notin T}
<1>1. PICK x \in C : \A y \in C : x <= y
  <2>1. C \in SUBSET Nat /\ C # {}
    OBVIOUS
  <2>. HIDE DEF C
  <2>. QED  BY <2>1, Least
<1>2. x \in 2..N /\ x \notin T
  OBVIOUS
<1>3. x - 1 \in 1..N /\ x - 1 # N /\ (x - 1) + 1 = x /\ ~(x <= x - 1)
  BY <1>2
<1>4. x - 1 \in T
  BY <1>1, <1>3
<1>. QED  BY <1>2, <1>3, <1>4

(* The recursive function inside FlattenSeq.                                *)
IsFlat(f, s, n) == f = [i \in 1..n |-> IF i = 1 THEN s[i] ELSE f[i-1] \o s[i]]

(* It exists for every length.                                              *)
LEMMA FlatExists ==
  ASSUME NEW s, NEW n \in Nat
  PROVE  \E f : IsFlat(f, s, n)
<1>. DEFINE T == {m \in Nat : \E f : IsFlat(f, s, m)}
<1>1. 1 \in T
  <2>1. IsFlat([i \in 1..1 |-> s[1]], s, 1)
    BY DEF IsFlat
  <2>. QED  BY <2>1
<1>2. ASSUME NEW m \in 1..n, m \in T
      PROVE  m + 1 \in T
  <2>1. PICK f : IsFlat(f, s, m)
    BY <1>2
  <2>. DEFINE g == [i \in 1..(m+1) |-> IF i = m + 1 THEN f[m] \o s[m+1] ELSE f[i]]
  <2>2. ASSUME NEW i \in 1..(m+1)
        PROVE  g[i] = IF i = 1 THEN s[i] ELSE g[i-1] \o s[i]
    <3>1. CASE i = m + 1
      <4>1. i # 1 /\ i - 1 = m /\ m \in 1..(m+1) /\ m # m + 1
        BY <3>1
      <4>. QED  BY <3>1, <4>1
    <3>2. CASE i # m + 1
      <4>1. i \in 1..m /\ (i # 1 => i - 1 \in 1..(m+1) /\ i - 1 # m + 1)
        BY <3>2
      <4>2. f[i] = IF i = 1 THEN s[i] ELSE f[i-1] \o s[i]
        BY <2>1, <4>1 DEF IsFlat
      <4>. QED  BY <3>2, <4>1, <4>2
    <3>. QED  BY <3>1, <3>2
  <2>3. IsFlat(g, s, m + 1)
    <3>. DEFINE h == [i \in 1..(m+1) |-> IF i = 1 THEN s[i] ELSE g[i-1] \o s[i]]
    <3>1. g = h
      <4>1. DOMAIN g = DOMAIN h /\ \A i \in DOMAIN g : g[i] = h[i]
        BY <2>2
      <4>. QED  BY <4>1
    <3>. QED  BY <3>1 DEF IsFlat
  <2>. QED  BY <2>3
<1>3. 0 \in T
  <2>1. IsFlat([i \in 1..0 |-> s[1]], s, 0)
    BY DEF IsFlat
  <2>. QED  BY <2>1
<1>4. 1..n \subseteq T
  <2>. HIDE DEF T
  <2>. QED  BY <1>1, <1>2, Along
<1>. QED  BY <1>3, <1>4

(* FlattenSeq joins the sequences one by one.                               *)
LEMMA Flattened ==
  ASSUME NEW s, Len(s) \in Nat \ {0}
  PROVE  \E f : /\ f[1] = s[1]
                /\ \A i \in 1..Len(s) : i # 1 => f[i] = f[i-1] \o s[i]
                /\ FlattenSeq(s) = f[Len(s)]
<1>. DEFINE h == CHOOSE f : IsFlat(f, s, Len(s))
<1>1. IsFlat(h, s, Len(s))
  BY FlatExists
<1>2. FlattenSeq(s) = h[Len(s)]
  BY DEF FlattenSeq, IsFlat
<1>3. \A i \in 1..Len(s) : h[i] = IF i = 1 THEN s[i] ELSE h[i-1] \o s[i]
  <2>. HIDE DEF h
  <2>. QED  BY <1>1 DEF IsFlat
<1>4. 1 \in 1..Len(s)
  OBVIOUS
<1>. HIDE DEF h
<1>. QED  BY <1>2, <1>3, <1>4
-----------------------------------------------------------------------------
(* The bytes of a connection with the places they have in the radio's       *)
(* packets: at = 0 before the opening flag, at = i before byte i or, after  *)
(* the last, before the closing flag; escaped between the two bytes of a    *)
(* reserved one.  n packets were sent.                                      *)

Closing(k) == Len(RadioFrame[k]) + 1

Between(k) == [frame |-> k, at |-> 0, escaped |-> FALSE]

Place(n) ==
  {Between(k) : k \in 1..(n + 1)} \union
  {q \in [frame : 1..n, at : Nat \ {0}, escaped : BOOLEAN] :
     /\ q.at <= Closing(q.frame)
     /\ q.escaped => q.at # Closing(q.frame) /\ RadioFrame[q.frame][q.at] \in Reserved}

ByteAt(q) ==
  IF q.at = 0 \/ q.at = Closing(q.frame) THEN HDLC_FLAG
  ELSE IF q.escaped THEN Masked[RadioFrame[q.frame][q.at]]
  ELSE IF RadioFrame[q.frame][q.at] \in Reserved THEN HDLC_ESC
  ELSE RadioFrame[q.frame][q.at]

Following(q) ==
  IF q.at = 0 THEN [q EXCEPT !.at = 1]
  ELSE IF q.at = Closing(q.frame) THEN Between(q.frame + 1)
  ELSE IF RadioFrame[q.frame][q.at] \in Reserved /\ ~q.escaped
  THEN [q EXCEPT !.escaped = TRUE]
  ELSE [frame |-> q.frame, at |-> q.at + 1, escaped |-> FALSE]

\* What a deframer holds that has followed the packet to this place.
Deframed(q) ==
  IF q.at = 0 THEN EmptyDeframer
  ELSE [buf |-> SubSeq(RadioFrame[q.frame], 1, q.at - 1), escaped |-> q.escaped]

\* The bytes w lead from place q to place r.
Traces(l, n, w) ==
  /\ l \in [1..(Len(w) + 1) -> Place(n)]
  /\ \A j \in 1..Len(w) : w[j] = ByteAt(l[j]) /\ l[j + 1] = Following(l[j])

Passage(n, q, w, r) ==
  /\ w \in Seq(Byte)
  /\ \E l : Traces(l, n, w) /\ l[1] = q /\ l[Len(w) + 1] = r

(* Passages: over nothing, over one byte, one after another; without their  *)
(* first byte, cut off, and among more packets sent.                        *)
LEMMA NoBytes ==
  ASSUME NEW n \in Nat, NEW q \in Place(n)
  PROVE  Passage(n, q, <<>>, q)
<1>. DEFINE l == [j \in 1..1 |-> q]
<1>1. Traces(l, n, <<>>) /\ l[1] = q /\ l[Len(<<>>) + 1] = q
  BY DEF Traces
<1>. QED  BY <1>1 DEF Passage

LEMMA OneByte ==
  ASSUME NEW n \in Nat, NEW q \in Place(n), Following(q) \in Place(n), ByteAt(q) \in Byte
  PROVE  Passage(n, q, <<ByteAt(q)>>, Following(q))
<1>. DEFINE l == [j \in 1..2 |-> IF j = 1 THEN q ELSE Following(q)]
            w == <<ByteAt(q)>>
<1>1. Len(w) = 1 /\ w[1] = ByteAt(q) /\ w \in Seq(Byte)
  OBVIOUS
<1>2. l \in [1..2 -> Place(n)] /\ l[1] = q /\ l[2] = Following(q)
  OBVIOUS
<1>. HIDE DEF l, w
<1>3. Traces(l, n, w)
  BY <1>1, <1>2 DEF Traces
<1>4. Passage(n, q, w, Following(q))
  BY <1>1, <1>2, <1>3 DEF Passage
<1>. QED  BY <1>4 DEF w

LEMMA Joined ==
  ASSUME NEW n \in Nat, NEW q, NEW r, NEW s, NEW v, NEW w,
         Passage(n, q, v, r), Passage(n, r, w, s)
  PROVE  Passage(n, q, v \o w, s)
<1>1. v \in Seq(Byte) /\ w \in Seq(Byte)
  BY DEF Passage
<1>2. PICK a : Traces(a, n, v) /\ a[1] = q /\ a[Len(v) + 1] = r
  BY DEF Passage
<1>3. PICK b : Traces(b, n, w) /\ b[1] = r /\ b[Len(w) + 1] = s
  BY DEF Passage
<1>. DEFINE x == v \o w
            l == [j \in 1..(Len(x) + 1) |-> IF j <= Len(v) + 1 THEN a[j] ELSE b[j - Len(v)]]
<1>4. x \in Seq(Byte) /\ Len(x) = Len(v) + Len(w) /\ Len(v) \in Nat /\ Len(w) \in Nat
      /\ (\A j \in 1..Len(v) : x[j] = v[j])
      /\ (\A j \in 1..Len(w) : x[Len(v) + j] = w[j])
  BY <1>1
<1>. HIDE DEF x
<1>5. l \in [1..(Len(x) + 1) -> Place(n)]
  <2>1. ASSUME NEW j \in 1..(Len(x) + 1)
        PROVE  (IF j <= Len(v) + 1 THEN a[j] ELSE b[j - Len(v)]) \in Place(n)
    <3>1. CASE j <= Len(v) + 1
      <4>1. j \in 1..(Len(v) + 1)
        BY <3>1, <1>4
      <4>. QED  BY <3>1, <4>1, <1>2 DEF Traces
    <3>2. CASE ~(j <= Len(v) + 1)
      <4>1. j - Len(v) \in 1..(Len(w) + 1)
        BY <3>2, <1>4
      <4>. QED  BY <3>2, <4>1, <1>3 DEF Traces
    <3>. QED  BY <3>1, <3>2
  <2>. QED  BY <2>1
<1>6. ASSUME NEW j \in 1..Len(x)
      PROVE  x[j] = ByteAt(l[j]) /\ l[j + 1] = Following(l[j])
  <2>1. CASE j <= Len(v)
    <3>1. l[j] = a[j] /\ l[j + 1] = a[j + 1] /\ j \in 1..Len(v) /\ x[j] = v[j]
      BY <2>1, <1>4
    <3>. QED  BY <3>1, <1>2 DEF Traces
  <2>2. CASE j > Len(v)
    <3>. DEFINE i == j - Len(v)
    <3>1. i \in 1..Len(w) /\ j = Len(v) + i /\ l[j + 1] = b[i + 1] /\ x[j] = w[i]
      BY <2>2, <1>4
    <3>2. l[j] = b[i]
      BY <2>2, <1>2, <1>3, <1>4
    <3>. HIDE DEF i, l
    <3>. QED  BY <3>1, <3>2, <1>3 DEF Traces
  <2>. QED  BY <2>1, <2>2, <1>4
<1>7. l[1] = q /\ l[Len(x) + 1] = s
  BY <1>2, <1>3, <1>4
<1>. HIDE DEF l
<1>8. Traces(l, n, x)
  BY <1>5, <1>6 DEF Traces
<1>. QED  BY <1>4, <1>7, <1>8 DEF Passage, x

LEMMA FirstByte ==
  ASSUME NEW n \in Nat, NEW q, NEW r, NEW w, Passage(n, q, w, r), w # <<>>
  PROVE  /\ q \in Place(n) /\ Following(q) \in Place(n)
         /\ Head(w) = ByteAt(q)
         /\ Passage(n, Following(q), Tail(w), r)
<1>1. w \in Seq(Byte)
  BY DEF Passage
<1>2. PICK a : Traces(a, n, w) /\ a[1] = q /\ a[Len(w) + 1] = r
  BY DEF Passage
<1>. DEFINE x == Tail(w)
            l == [j \in 1..(Len(x) + 1) |-> a[j + 1]]
<1>3. x \in Seq(Byte) /\ Len(x) = Len(w) - 1 /\ Len(w) \in Nat \ {0} /\ Head(w) = w[1]
      /\ (\A j \in 1..Len(x) : x[j] = w[j + 1])
  BY <1>1
<1>. HIDE DEF x
<1>4. 1 \in 1..Len(w) /\ 2 \in 1..(Len(w) + 1)
  BY <1>3
<1>5. q \in Place(n) /\ a[2] = Following(q) /\ a[2] \in Place(n) /\ Head(w) = ByteAt(q)
  <2>1. q \in Place(n) /\ a[2] \in Place(n)
    BY <1>2, <1>3, <1>4 DEF Traces
  <2>2. a[1 + 1] = Following(a[1]) /\ w[1] = ByteAt(a[1])
    BY <1>2, <1>4 DEF Traces
  <2>. QED  BY <2>1, <2>2, <1>2, <1>3
<1>6. l \in [1..(Len(x) + 1) -> Place(n)]
  BY <1>2, <1>3 DEF Traces
<1>7. ASSUME NEW j \in 1..Len(x)
      PROVE  x[j] = ByteAt(l[j]) /\ l[j + 1] = Following(l[j])
  <2>1. j + 1 \in 1..Len(w) /\ l[j] = a[j + 1] /\ l[j + 1] = a[(j + 1) + 1] /\ x[j] = w[j + 1]
    BY <1>3
  <2>. HIDE DEF l
  <2>. QED  BY <2>1, <1>2 DEF Traces
<1>8. l[1] = a[2] /\ l[Len(x) + 1] = r
  BY <1>2, <1>3
<1>. HIDE DEF l
<1>9. Traces(l, n, x)
  BY <1>6, <1>7 DEF Traces
<1>. QED  BY <1>3, <1>5, <1>8, <1>9 DEF Passage, x

LEMMA Cut ==
  ASSUME NEW n \in Nat, NEW q, NEW r, NEW w, Passage(n, q, w, r), NEW k \in 0..Len(w)
  PROVE  \E s : Passage(n, q, SubSeq(w, 1, k), s)
<1>1. w \in Seq(Byte)
  BY DEF Passage
<1>2. PICK a : Traces(a, n, w) /\ a[1] = q
  BY DEF Passage
<1>. DEFINE x == SubSeq(w, 1, k)
            l == [j \in 1..(Len(x) + 1) |-> a[j]]
<1>3. x \in Seq(Byte) /\ Len(x) = k /\ Len(w) \in Nat /\ (\A j \in 1..k : x[j] = w[j])
  BY <1>1
<1>. HIDE DEF x
<1>4. l \in [1..(Len(x) + 1) -> Place(n)]
  BY <1>2, <1>3 DEF Traces
<1>5. ASSUME NEW j \in 1..Len(x)
      PROVE  x[j] = ByteAt(l[j]) /\ l[j + 1] = Following(l[j])
  <2>1. j \in 1..Len(w) /\ l[j] = a[j] /\ l[j + 1] = a[j + 1] /\ x[j] = w[j]
    BY <1>3
  <2>. HIDE DEF l
  <2>. QED  BY <2>1, <1>2 DEF Traces
<1>6. l[1] = q
  BY <1>2, <1>3
<1>. HIDE DEF l
<1>7. Traces(l, n, x)
  BY <1>4, <1>5 DEF Traces
<1>. QED  BY <1>3, <1>6, <1>7 DEF Passage, x

LEMMA SentMore ==
  ASSUME NEW n \in Nat, NEW q, NEW r, NEW w, Passage(n, q, w, r)
  PROVE  Passage(n + 1, q, w, r)
<1>1. Place(n) \subseteq Place(n + 1)
  BY DEF Place, Between, Closing
<1>. QED  BY <1>1 DEF Passage, Traces
-----------------------------------------------------------------------------
(* The radio's encoder: from between two packets to between the next two.   *)

Before(k, i) == [frame |-> k, at |-> i, escaped |-> FALSE]

(* A byte and its escape lead to the next byte.                             *)
LEMMA OfByte ==
  ASSUME LinkAssumption, NEW n \in 1..Len(RadioFrame), NEW i \in 1..Len(RadioFrame[n])
  PROVE  Passage(n, Before(n, i), EncodeByte(RadioFrame[n][i]), Before(n, i + 1))
<1>. DEFINE p == RadioFrame[n]
            q == Before(n, i)
            b == p[i]
<1>1. p \in Seq(Byte) /\ Len(p) \in Nat /\ b \in Byte /\ n \in Nat
  BY DEF LinkAssumption
<1>2. i + 1 <= Closing(n) /\ i # Closing(n) /\ i \in Nat \ {0}
  BY <1>1 DEF Closing
<1>3. q \in Place(n) /\ Before(n, i + 1) \in Place(n) /\ q.frame = n /\ q.at = i /\ ~q.escaped
  <2>1. q.frame = n /\ q.at = i /\ q.escaped = FALSE
    BY DEF Before
  <2>2. Before(n, i) \in Place(n) /\ Before(n, i + 1) \in Place(n)
    <3>1. n \in 1..n /\ i <= Closing(n) /\ i + 1 \in Nat \ {0} /\ i \in Nat \ {0}
      BY <1>1, <1>2 DEF Closing
    <3>. QED  BY <1>2, <3>1 DEF Place, Before
  <2>. QED  BY <2>1, <2>2
<1>4. CASE b \in Reserved
  <2>. DEFINE m == [frame |-> n, at |-> i, escaped |-> TRUE]
  <2>1. ByteAt(q) = HDLC_ESC /\ Following(q) = m
    BY <1>2, <1>3, <1>4 DEF ByteAt, Following, Before
  <2>2. ByteAt(m) = Masked[b] /\ Following(m) = Before(n, i + 1)
    BY <1>2, <1>4 DEF ByteAt, Following, Before
  <2>3. m \in Place(n)
    <3>1. m \in [frame : 1..n, at : Nat \ {0}, escaped : BOOLEAN]
      BY <1>2
    <3>2. m.at <= Closing(m.frame) /\ m.at # Closing(m.frame)
          /\ RadioFrame[m.frame][m.at] \in Reserved
      BY <1>1, <1>2, <1>4 DEF Closing
    <3>. HIDE DEF m
    <3>. QED  BY <3>1, <3>2 DEF Place
  <2>4. HDLC_ESC \in Byte /\ Masked[b] \in Byte
    BY <1>1, FramingAssumption
  <2>5. Passage(n, q, <<HDLC_ESC>>, m) /\ Passage(n, m, <<Masked[b]>>, Before(n, i + 1))
    <3>. HIDE DEF q, m, b
    <3>. QED  BY <1>1, <1>3, <2>1, <2>2, <2>3, <2>4, OneByte
  <2>6. Passage(n, q, <<HDLC_ESC>> \o <<Masked[b]>>, Before(n, i + 1))
    <3>. HIDE DEF q, m, b
    <3>. QED  BY <1>1, <2>5, Joined
  <2>7. <<HDLC_ESC>> \o <<Masked[b]>> = EncodeByte(b)
    <3>1. EncodeByte(b) = <<HDLC_ESC, Masked[b]>>
      BY <1>4 DEF EncodeByte
    <3>. DEFINE x == HDLC_ESC
                y == Masked[b]
    <3>2. <<x>> \o <<y>> = <<x, y>>
      <4>1. x \in Byte /\ y \in Byte
        BY <2>4
      <4>. HIDE DEF x, y
      <4>2. <<x>> \in Seq(Byte) /\ <<y>> \in Seq(Byte) /\ <<x, y>> \in Seq(Byte)
            /\ Len(<<x>>) = 1 /\ Len(<<y>>) = 1 /\ Len(<<x, y>>) = 2
            /\ <<x>>[1] = x /\ <<y>>[1] = y /\ <<x, y>>[1] = x /\ <<x, y>>[2] = y
        BY <4>1
      <4>. DEFINE v == <<x>>
                  w == <<y>>
                  z == <<x, y>>
      <4>. HIDE DEF v, w, z
      <4>3. v \o w \in Seq(Byte) /\ Len(v \o w) = 2 /\ (v \o w)[1] = v[1] /\ (v \o w)[2] = w[1]
        BY <4>2 DEF v, w
      <4>4. \A j \in 1..2 : (v \o w)[j] = z[j]
        BY <4>2, <4>3 DEF v, w, z
      <4>5. v \o w = z
        BY <4>2, <4>3, <4>4, SeqEqual DEF z
      <4>. QED  BY <4>5 DEF v, w, z
    <3>. QED  BY <3>1, <3>2
  <2>. QED  BY <2>6, <2>7
<1>5. CASE b \notin Reserved
  <2>1. ByteAt(q) = b /\ Following(q) = Before(n, i + 1)
    BY <1>2, <1>3, <1>5 DEF ByteAt, Following, Before
  <2>2. Passage(n, q, <<b>>, Before(n, i + 1))
    <3>. HIDE DEF q, b
    <3>. QED  BY <1>1, <1>3, <2>1, OneByte
  <2>. QED  BY <2>2, <1>5 DEF EncodeByte
<1>. QED  BY <1>4, <1>5

(* The bytes of a packet lead from its opening flag to its closing flag.    *)
LEMMA OfBytes ==
  ASSUME LinkAssumption, NEW n \in 1..Len(RadioFrame)
  PROVE  Passage(n, Before(n, 1),
                 FlattenSeq([i \in DOMAIN RadioFrame[n] |-> EncodeByte(RadioFrame[n][i])]),
                 Before(n, Closing(n)))
<1>. DEFINE p == RadioFrame[n]
            s == [i \in DOMAIN p |-> EncodeByte(p[i])]
<1>1. p \in Seq(Byte) /\ Len(p) \in Nat /\ n \in Nat /\ DOMAIN p = 1..Len(p)
  BY DEF LinkAssumption
<1>2. Before(n, 1) \in Place(n)
  BY <1>1 DEF Before, Place, Closing
<1>3. Len(s) = Len(p) /\ \A i \in 1..Len(p) : s[i] = EncodeByte(p[i])
  <2>1. \A i \in 1..Len(p) : EncodeByte(p[i]) \in Seq(Byte)
    BY <1>1, FramingAssumption DEF EncodeByte
  <2>2. s \in Seq(Seq(Byte))
    BY <1>1, <2>1
  <2>. QED  BY <1>1, <2>2
<1>4. CASE Len(p) = 0
  <2>1. FlattenSeq(s) = s
    BY <1>3, <1>4 DEF FlattenSeq
  <2>2. s = <<>>
    BY <1>1, <1>4
  <2>3. Before(n, Closing(n)) = Before(n, 1)
    BY <1>4 DEF Closing, Before
  <2>. HIDE DEF s
  <2>. QED  BY <1>1, <1>2, <2>1, <2>2, <2>3, NoBytes DEF s
<1>5. CASE Len(p) # 0
  <2>1. PICK f : /\ f[1] = s[1]
                 /\ \A i \in 1..Len(p) : i # 1 => f[i] = f[i-1] \o s[i]
                 /\ FlattenSeq(s) = f[Len(p)]
    <3>. HIDE DEF s
    <3>. QED  BY <1>1, <1>3, <1>5, Flattened
  <2>. DEFINE T == {i \in 1..Len(p) : Passage(n, Before(n, 1), f[i], Before(n, i + 1))}
  <2>2. \A i \in 1..Len(p) : Passage(n, Before(n, i), s[i], Before(n, i + 1))
    <3>. HIDE DEF s
    <3>. QED  BY <1>3, OfByte
  <2>3. 1 \in 1..Len(p)
    BY <1>1, <1>5
  <2>4. 1 \in T
    <3>1. Passage(n, Before(n, 1), s[1], Before(n, 1 + 1))
      BY <2>2, <2>3
    <3>. QED  BY <2>1, <2>3, <3>1
  <2>5. ASSUME NEW i \in 1..Len(p), i \in T, i # Len(p)
        PROVE  i + 1 \in T
    <3>1. i + 1 \in 1..Len(p) /\ i + 1 # 1 /\ (i + 1) - 1 = i
      BY <1>1, <2>5
    <3>2. f[i+1] = f[i] \o s[i+1]
      BY <2>1, <3>1
    <3>3. Passage(n, Before(n, i + 1), s[i+1], Before(n, (i + 1) + 1))
      BY <2>2, <3>1
    <3>4. Passage(n, Before(n, 1), f[i+1], Before(n, (i + 1) + 1))
      <4>. HIDE DEF s
      <4>. QED  BY <1>1, <2>5, <3>2, <3>3, Joined
    <3>. QED  BY <3>1, <3>4
  <2>6. 1..Len(p) \subseteq T
    <3>. HIDE DEF T
    <3>. QED  BY <1>1, <2>4, <2>5, Along
  <2>7. Len(p) \in T
    <3>1. Len(p) \in 1..Len(p)
      BY <1>1, <1>5
    <3>. QED  BY <2>6, <3>1
  <2>. QED  BY <2>1, <2>7 DEF Closing
<1>. QED  BY <1>4, <1>5

(* Encode leads from between two packets to between the next two.           *)
LEMMA OfPacket ==
  ASSUME LinkAssumption, NEW n \in 1..Len(RadioFrame)
  PROVE  Passage(n, Between(n), Encode(RadioFrame[n]), Between(n + 1))
<1>. DEFINE body == FlattenSeq([i \in DOMAIN RadioFrame[n] |-> EncodeByte(RadioFrame[n][i])])
<1>1. RadioFrame[n] \in Seq(Byte) /\ Len(RadioFrame[n]) \in Nat /\ n \in Nat
  BY DEF LinkAssumption
<1>2. Between(n) \in Place(n) /\ Between(n + 1) \in Place(n)
      /\ Before(n, 1) \in Place(n) /\ Before(n, Closing(n)) \in Place(n)
  <2>1. n \in 1..(n + 1) /\ n + 1 \in 1..(n + 1) /\ n \in 1..n
    BY <1>1
  <2>2. Closing(n) \in Nat \ {0} /\ 1 <= Closing(n)
    BY <1>1 DEF Closing
  <2>3. Before(n, 1) \in Place(n) /\ Before(n, Closing(n)) \in Place(n)
    BY <2>1, <2>2 DEF Before, Place
  <2>. QED  BY <2>1, <2>3 DEF Place
<1>3. ByteAt(Between(n)) = HDLC_FLAG /\ Following(Between(n)) = Before(n, 1)
  BY DEF ByteAt, Between, Following, Before
<1>4. ByteAt(Before(n, Closing(n))) = HDLC_FLAG
      /\ Following(Before(n, Closing(n))) = Between(n + 1)
  BY <1>1 DEF ByteAt, Between, Following, Before, Closing
<1>5. Passage(n, Between(n), <<HDLC_FLAG>>, Before(n, 1))
      /\ Passage(n, Before(n, Closing(n)), <<HDLC_FLAG>>, Between(n + 1))
  BY <1>1, <1>2, <1>3, <1>4, OneByte, FramingAssumption
<1>6. Passage(n, Before(n, 1), body, Before(n, Closing(n)))
  BY OfBytes
<1>. HIDE DEF body
<1>7. Passage(n, Between(n), <<HDLC_FLAG>> \o body, Before(n, Closing(n)))
  BY <1>1, <1>5, <1>6, Joined
<1>8. Passage(n, Between(n), (<<HDLC_FLAG>> \o body) \o <<HDLC_FLAG>>, Between(n + 1))
  BY <1>1, <1>5, <1>7, Joined
<1>. QED  BY <1>8 DEF Encode, body

(* A byte of a packet that fits is stored behind those before it.           *)
LEMMA Stores ==
  ASSUME NEW p \in Seq(Byte), NEW i \in 1..Len(p), Len(p) <= RNS_FRAMING_MAX_PACKET,
         NEW f, f.buf = SubSeq(p, 1, i - 1)
  PROVE  Store(f, p[i]) = [buf |-> SubSeq(p, 1, (i + 1) - 1), escaped |-> FALSE]
<1>1. Len(p) \in Nat /\ p[i] \in Byte /\ RNS_FRAMING_MAX_PACKET \in Nat
  BY FramingAssumption
<1>. DEFINE b == SubSeq(p, 1, i - 1)
            c == SubSeq(p, 1, i)
<1>2. b \in Seq(Byte) /\ Len(b) = i - 1 /\ \A j \in 1..(i - 1) : b[j] = p[j]
  BY <1>1
<1>3. c \in Seq(Byte) /\ Len(c) = i /\ \A j \in 1..i : c[j] = p[j]
  BY <1>1
<1>4. Append(b, p[i]) = c
  <2>. HIDE DEF b, c
  <2>. DEFINE d == Append(b, p[i])
  <2>1. d \in Seq(Byte) /\ Len(d) = i /\ \A j \in 1..i : d[j] = p[j]
    BY <1>1, <1>2
  <2>. HIDE DEF d
  <2>2. d = c
    BY <1>3, <2>1, SeqEqual
  <2>. QED  BY <2>2 DEF d
<1>5. (i + 1) - 1 = i /\ Len(b) < RNS_FRAMING_MAX_PACKET
  BY <1>1, <1>2
<1>. HIDE DEF b, c
<1>6. Store(f, p[i]) = [buf |-> c, escaped |-> FALSE]
  BY <1>4, <1>5 DEF Store, b
<1>. QED  BY <1>5, <1>6 DEF c

(* A flag empties the deframer whatever it held.                            *)
LEMMA AtFlag ==
  ASSUME NEW f
  PROVE  /\ RxByte(f, HDLC_FLAG) = EmptyDeframer
         /\ f.buf = <<>> => RxFrame(f, HDLC_FLAG) = <<>>
<1>1. RxByte(f, HDLC_FLAG) = EmptyDeframer
  BY FramingAssumption, Z3 DEF RxByte
<1>2. f.buf = <<>> => RxFrame(f, HDLC_FLAG) = <<>>
  BY DEF RxFrame
<1>. QED  BY <1>1, <1>2

(* The deframer keeps pace: a byte takes what it holds to what it should    *)
(* hold at the next place, and the closing flag of a packet hands it out.   *)
LEMMA KeepsPace ==
  ASSUME LinkAssumption, NEW n \in 0..Len(RadioFrame),
         \A k \in 1..n : Len(RadioFrame[k]) <= RNS_FRAMING_MAX_PACKET,
         NEW q \in Place(n), Following(q) \in Place(n)
  PROVE  /\ RxByte(Deframed(q), ByteAt(q)) = Deframed(Following(q))
         /\ \/ RxFrame(Deframed(q), ByteAt(q)) = <<>> /\ Following(q).frame = q.frame
            \/ /\ Following(q).frame = q.frame + 1
               /\ RxFrame(Deframed(q), ByteAt(q)) \in {<<>>, <<RadioFrame[q.frame]>>}
<1>1. CASE q.at = 0
  <2>1. ByteAt(q) = HDLC_FLAG /\ Deframed(q) = EmptyDeframer
    BY <1>1 DEF ByteAt, Deframed
  <2>2. Following(q).at = 1 /\ Following(q).frame = q.frame /\ ~Following(q).escaped
    BY <1>1 DEF Following, Place, Between
  <2>3. Following(q).escaped = FALSE /\ SubSeq(RadioFrame[q.frame], 1, 1 - 1) = <<>>
    BY <1>1 DEF Following, Place, Between
  <2>4. Deframed(Following(q)) = EmptyDeframer
    BY <2>2, <2>3 DEF Deframed, EmptyDeframer
  <2>5. EmptyDeframer.buf = <<>>
    BY DEF EmptyDeframer
  <2>. QED  BY <2>1, <2>2, <2>4, <2>5, AtFlag
<1>2. CASE q.at # 0
  <2>. DEFINE k == q.frame
              p == RadioFrame[q.frame]
              i == q.at
  <2>1. k \in 1..n /\ i \in 1..Closing(k) /\ q = [frame |-> k, at |-> i, escaped |-> q.escaped]
        /\ q.escaped \in BOOLEAN
        /\ (q.escaped => i # Closing(k) /\ p[i] \in Reserved)
    BY <1>2 DEF Place, Between
  <2>2. p \in Seq(Byte) /\ Len(p) \in Nat /\ Len(p) <= RNS_FRAMING_MAX_PACKET
        /\ Closing(k) = Len(p) + 1
    BY <2>1 DEF LinkAssumption, Closing
  <2>3. Deframed(q) = [buf |-> SubSeq(p, 1, i - 1), escaped |-> q.escaped]
    BY <1>2 DEF Deframed
  <2>5. CASE i = Closing(k)
    <3>1. ByteAt(q) = HDLC_FLAG /\ Following(q) = Between(k + 1)
      BY <1>2, <2>5 DEF ByteAt, Following
    <3>2. SubSeq(p, 1, i - 1) = p
      BY <2>2, <2>5
    <3>3. Following(q).frame = k + 1 /\ Deframed(Following(q)) = EmptyDeframer
      BY <3>1 DEF Between, Deframed
    <3>4. RxByte(Deframed(q), HDLC_FLAG) = EmptyDeframer
      BY AtFlag
    <3>5. Deframed(q).buf = p
      BY <2>3, <3>2
    <3>6. RxFrame(Deframed(q), HDLC_FLAG) \in {<<>>, <<p>>}
      BY <3>5 DEF RxFrame
    <3>. QED  BY <3>1, <3>3, <3>4, <3>6
  <2>6. CASE i # Closing(k)
    <3>1. i \in 1..Len(p) /\ p[i] \in Byte
      BY <2>1, <2>2, <2>6
    <3>4. Store(Deframed(q), p[i]) = [buf |-> SubSeq(p, 1, (i + 1) - 1), escaped |-> FALSE]
      <4>1. Deframed(q).buf = SubSeq(p, 1, i - 1)
        <5>. DEFINE B == SubSeq(p, 1, i - 1)
        <5>1. Deframed(q) = [buf |-> B, escaped |-> q.escaped]
          BY <2>3
        <5>. HIDE DEF B
        <5>2. Deframed(q).buf = B
          BY <5>1
        <5>. QED  BY <5>2 DEF B
      <4>. HIDE DEF p, i
      <4>. QED  BY <2>2, <3>1, <4>1, Stores
    <3>5. Deframed([frame |-> k, at |-> i + 1, escaped |-> FALSE])
            = [buf |-> SubSeq(p, 1, (i + 1) - 1), escaped |-> FALSE]
      BY <2>1, <2>2 DEF Deframed
    <3>6. CASE p[i] \in Reserved /\ ~q.escaped
      <4>1. ByteAt(q) = HDLC_ESC /\ Following(q) = [frame |-> k, at |-> i, escaped |-> TRUE]
        BY <1>2, <2>1, <2>6, <3>6 DEF ByteAt, Following
      <4>2. RxByte(Deframed(q), HDLC_ESC) = [buf |-> SubSeq(p, 1, i - 1), escaped |-> TRUE]
        <5>. DEFINE B == SubSeq(p, 1, i - 1)
                    F == [buf |-> B, escaped |-> FALSE]
        <5>1. Deframed(q) = F
          BY <2>1, <2>3, <3>6
        <5>2. RxByte(F, HDLC_ESC) = [buf |-> B, escaped |-> TRUE]
          <6>. HIDE DEF B
          <6>. QED  BY FramingAssumption DEF RxByte
        <5>. QED  BY <5>1, <5>2
      <4>3. Deframed(Following(q)) = [buf |-> SubSeq(p, 1, i - 1), escaped |-> TRUE]
        BY <1>2, <4>1 DEF Deframed
      <4>. QED  BY <4>1, <4>2, <4>3, FramingAssumption DEF RxFrame
    <3>7. CASE p[i] \in Reserved /\ q.escaped
      <4>1. ByteAt(q) = Masked[p[i]]
            /\ Following(q) = [frame |-> k, at |-> i + 1, escaped |-> FALSE]
        BY <1>2, <2>6, <3>7 DEF ByteAt, Following
      <4>2. Masked[p[i]] # HDLC_FLAG /\ Masked[Masked[p[i]]] = p[i]
        BY <3>1, <3>7, FramingAssumption DEF Reserved
      <4>3. RxByte(Deframed(q), Masked[p[i]]) = Store(Deframed(q), p[i])
        BY <2>3, <3>7, <4>2 DEF RxByte
      <4>. QED  BY <3>4, <3>5, <4>1, <4>2, <4>3 DEF RxFrame
    <3>8. CASE p[i] \notin Reserved
      <4>1. ~q.escaped
        BY <2>1, <3>8
      <4>2. ByteAt(q) = p[i] /\ Following(q) = [frame |-> k, at |-> i + 1, escaped |-> FALSE]
        BY <1>2, <2>6, <3>8, <4>1 DEF ByteAt, Following
      <4>3. RxByte(Deframed(q), p[i]) = Store(Deframed(q), p[i])
        BY <2>3, <3>8, <4>1 DEF RxByte, Reserved
      <4>. QED  BY <3>4, <3>5, <3>8, <4>2, <4>3 DEF RxFrame, Reserved
    <3>. QED  BY <3>6, <3>7, <3>8
  <2>. QED  BY <2>1, <2>2, <2>5, <2>6
<1>. QED  BY <1>1, <1>2
-----------------------------------------------------------------------------
\* Packets of the radio numbered below m, in order.
Delivered(m) ==
  \E pos \in [1..Len(up) -> 1..radioSent] :
    /\ \A i \in 1..Len(up) : up[i] = RadioFrame[pos[i]] /\ pos[i] < m
    /\ \A i, j \in 1..Len(up) : i < j => pos[i] < pos[j]

\* What is underway leads from where the deframer is, behind all it has handed
\* over, to the end of what the radio has sent, or to where it was cut off.
Underway(q, r) ==
  /\ Passage(radioSent, q, wire, r)
  /\ alive => r = Between(radioSent + 1)
  /\ link = "reset" => q.at = 0
  /\ link \in {"publish", "recv"} => rns = Deframed(q)
  /\ Delivered(q.frame)

Framed ==
  /\ radioSent \in 0..Len(RadioFrame)
  /\ up \in Seq(Seq(Byte))
  /\ link \notin {"reset", "publish", "recv"} => ~alive /\ wire = <<>>
  /\ \E q, r \in Place(radioSent) : Underway(q, r)

Fits == \A k \in DOMAIN RadioFrame : Len(RadioFrame[k]) <= RNS_FRAMING_MAX_PACKET

(* Places between packets, and the packets that places belong to.           *)
LEMMA Positions ==
  ASSUME NEW n \in Nat, NEW k \in 1..(n + 1)
  PROVE  Between(k) \in Place(n) /\ Between(k).frame = k /\ Between(k).at = 0
  BY DEF Between, Place

(* A packet is handed over behind the others.                               *)
LEMMA Pushed ==
  ASSUME NEW S, NEW u \in Seq(S), NEW p \in S, NEW v, v = u \o <<p>>
  PROVE  /\ v \in Seq(S) /\ Len(u) \in Nat /\ Len(v) = Len(u) + 1 /\ v[Len(u) + 1] = p
         /\ \A i \in 1..Len(u) : v[i] = u[i]
<1>1. <<p>> \in Seq(S) /\ Len(<<p>>) = 1 /\ <<p>>[1] = p
  OBVIOUS
<1>. QED  BY <1>1

LEMMA FrameOf ==
  ASSUME NEW n \in Nat, NEW q \in Place(n)
  PROVE  q.frame \in 1..(n + 1)
<1>1. CASE \E k \in 1..(n + 1) : q = Between(k)
  BY <1>1 DEF Between
<1>2. CASE q \in [frame : 1..n, at : Nat \ {0}, escaped : BOOLEAN]
  BY <1>2
<1>. QED  BY <1>1, <1>2 DEF Place

(* A connection begins between two packets with nothing underway.           *)
LEMMA ConnectFramed ==
  ASSUME LinkAssumption, Framed, LinkConnect
  PROVE  Framed'
<1>0. /\ wire' = <<>> /\ radioSent' = radioSent /\ link' = "reset" /\ up' = up
      /\ radioSent \in 0..Len(RadioFrame) /\ up \in Seq(Seq(Byte))
  BY DEF LinkConnect, Framed
<1>1. radioSent \in Nat /\ radioSent + 1 \in 1..(radioSent + 1)
  BY <1>0 DEF LinkAssumption
<1>. PICK b : b = Between(radioSent + 1)
  OBVIOUS
<1>2. b = Between(radioSent + 1) /\ b \in Place(radioSent) /\ b.frame = radioSent + 1 /\ b.at = 0
  BY <1>1, Positions
<1>3. Passage(radioSent, b, <<>>, b)
  BY <1>1, <1>2, NoBytes
<1>4. PICK q \in Place(radioSent) : Delivered(q.frame)
  BY DEF Underway, Framed
<1>5. Delivered(radioSent + 1)
  <2>1. PICK pos \in [1..Len(up) -> 1..radioSent] :
          /\ \A i \in 1..Len(up) : up[i] = RadioFrame[pos[i]] /\ pos[i] < q.frame
          /\ \A i, j \in 1..Len(up) : i < j => pos[i] < pos[j]
    BY <1>4 DEF Delivered
  <2>2. \A i \in 1..Len(up) : pos[i] < radioSent + 1
    <3>1. \A i \in 1..Len(up) : pos[i] \in 1..radioSent
      BY <2>1
    <3>. QED  BY <1>1, <3>1
  <2>. QED  BY <2>1, <2>2 DEF Delivered
<1>6. Delivered(b.frame)'
  BY <1>0, <1>2, <1>5 DEF Delivered
<1>7. Underway(b, b)'
  BY <1>0, <1>2, <1>3, <1>6 DEF Underway
<1>8. b \in Place(radioSent')
  BY <1>0, <1>2
<1>. QED  BY <1>0, <1>7, <1>8 DEF Framed

(* One byte is read.                                                        *)
LEMMA RecvFramed ==
  ASSUME LinkAssumption, Fits, Framed, LinkRecv
  PROVE  Framed'
<1>0. /\ link = "recv" /\ wire # <<>> /\ rns' = RxByte(rns, Head(wire))
      /\ up' = up \o RxFrame(rns, Head(wire)) /\ wire' = Tail(wire)
      /\ link' = link /\ alive' = alive /\ radioSent' = radioSent
  BY DEF LinkRecv
<1>1. PICK q, r \in Place(radioSent) : Underway(q, r)
  BY DEF Framed
<1>2. radioSent \in 0..Len(RadioFrame) /\ radioSent \in Nat /\ wire # <<>> /\ up \in Seq(Seq(Byte))
      /\ Len(RadioFrame) \in Nat
  BY <1>0 DEF Framed, LinkAssumption
<1>. DEFINE s == Following(q)
<1>3. Passage(radioSent, q, wire, r) /\ rns = Deframed(q) /\ Delivered(q.frame)
  BY <1>0, <1>1 DEF Underway
<1>4. s \in Place(radioSent) /\ Head(wire) = ByteAt(q) /\ Passage(radioSent, s, Tail(wire), r)
  BY <1>2, <1>3, FirstByte
<1>5. \A k \in 1..radioSent : Len(RadioFrame[k]) <= RNS_FRAMING_MAX_PACKET
  BY <1>2 DEF Fits, LinkAssumption
<1>6. /\ rns' = Deframed(s)
      /\ \/ RxFrame(rns, Head(wire)) = <<>> /\ s.frame = q.frame
         \/ s.frame = q.frame + 1 /\ RxFrame(rns, Head(wire)) \in {<<>>, <<RadioFrame[q.frame]>>}
  <2>. HIDE DEF s
  <2>. QED  BY <1>0, <1>2, <1>3, <1>4, <1>5, KeepsPace DEF s
<1>7. q.frame \in 1..(radioSent + 1) /\ s.frame \in 1..(radioSent + 1)
  <2>. HIDE DEF s
  <2>. QED  BY <1>1, <1>2, <1>4, FrameOf
<1>8. up' \in Seq(Seq(Byte)) /\ Delivered(s.frame)'
  <2>. HIDE DEF s
  <2>0. PICK pos \in [1..Len(up) -> 1..radioSent] :
          /\ \A i \in 1..Len(up) : up[i] = RadioFrame[pos[i]] /\ pos[i] < q.frame
          /\ \A i, j \in 1..Len(up) : i < j => pos[i] < pos[j]
    BY <1>3 DEF Delivered
  <2>1. CASE RxFrame(rns, Head(wire)) = <<>>
    <3>1. up' = up
      BY <1>0, <1>2, <2>1
    <3>2. q.frame <= s.frame
      BY <1>6, <1>7
    <3>3. \A i \in 1..Len(up) : pos[i] < s.frame
      <4>1. \A i \in 1..Len(up) : pos[i] \in 1..radioSent /\ pos[i] < q.frame
        BY <2>0
      <4>. QED  BY <1>2, <1>7, <3>2, <4>1
    <3>. QED  BY <1>0, <1>2, <2>0, <3>1, <3>3 DEF Delivered
  <2>2. CASE s.frame = q.frame + 1 /\ RxFrame(rns, Head(wire)) = <<RadioFrame[q.frame]>>
    <3>. DEFINE p == RadioFrame[q.frame]
                L == Len(up)
                new == [i \in 1..(L + 1) |-> IF i = L + 1 THEN q.frame ELSE pos[i]]
    <3>1. q.frame \in 1..radioSent /\ p \in Seq(Byte)
      BY <1>2, <1>7, <2>2 DEF LinkAssumption
    <3>. HIDE DEF p
    <3>2. up' = up \o <<p>>
      BY <1>0, <2>2 DEF p
    <3>3. up' \in Seq(Seq(Byte)) /\ Len(up') = L + 1 /\ L \in Nat /\ up'[L + 1] = p
          /\ \A i \in 1..L : up'[i] = up[i]
      BY <1>2, <3>1, <3>2, Pushed
    <3>. HIDE DEF L
    <3>4. new \in [1..(L + 1) -> 1..radioSent]
      BY <2>0, <3>1, <3>3 DEF L
    <3>5. \A i \in 1..(L + 1) : up'[i] = RadioFrame[new[i]] /\ new[i] < s.frame
      <4>1. ASSUME NEW i \in 1..(L + 1)
            PROVE  up'[i] = RadioFrame[new[i]] /\ new[i] < s.frame
        <5>1. CASE i = L + 1
          <6>1. new[i] = q.frame /\ up'[i] = p
            BY <3>3, <5>1
          <6>2. q.frame < s.frame
            BY <2>2, <3>1
          <6>. HIDE DEF new
          <6>. QED  BY <6>1, <6>2 DEF p
        <5>2. CASE i # L + 1
          <6>1. i \in 1..L /\ new[i] = pos[i]
            BY <3>3, <5>2
          <6>2. up[i] = RadioFrame[pos[i]] /\ pos[i] < q.frame /\ pos[i] \in 1..radioSent
            BY <2>0, <6>1 DEF L
          <6>. HIDE DEF new
          <6>3. pos[i] < s.frame
            BY <2>2, <3>1, <6>2
          <6>. QED  BY <3>3, <6>1, <6>2, <6>3
        <5>. QED  BY <5>1, <5>2
      <4>. QED  BY <4>1
    <3>6. \A i, j \in 1..(L + 1) : i < j => new[i] < new[j]
      <4>1. ASSUME NEW i \in 1..(L + 1), NEW j \in 1..(L + 1), i < j
            PROVE  new[i] < new[j]
        <5>1. i \in 1..L /\ new[i] = pos[i]
          BY <3>3, <4>1
        <5>2. CASE j = L + 1
          <6>1. pos[i] < q.frame
            BY <2>0, <5>1 DEF L
          <6>. QED  BY <5>1, <5>2, <6>1
        <5>3. CASE j # L + 1
          <6>1. j \in 1..L /\ new[j] = pos[j]
            BY <3>3, <5>3
          <6>2. pos[i] < pos[j]
            BY <2>0, <4>1, <5>1, <6>1 DEF L
          <6>. QED  BY <5>1, <6>1, <6>2
        <5>. QED  BY <5>2, <5>3
      <4>. QED  BY <4>1
    <3>. HIDE DEF new
    <3>. QED  BY <1>0, <3>3, <3>4, <3>5, <3>6 DEF Delivered
  <2>. QED  BY <1>6, <2>1, <2>2
<1>. HIDE DEF s
<1>9. Underway(s, r)'
  BY <1>0, <1>1, <1>4, <1>6, <1>8 DEF Underway
<1>10. link' = "recv" /\ radioSent' = radioSent
  BY <1>0
<1>11. s \in Place(radioSent') /\ r \in Place(radioSent')
  BY <1>1, <1>4, <1>10
<1>. QED  BY <1>2, <1>8, <1>9, <1>10, <1>11 DEF Framed

(* The radio's next packet follows what is underway.                        *)
LEMMA RadioFramed ==
  ASSUME LinkAssumption, Framed, RadioSends
  PROVE  Framed'
<1>. PICK n : n = radioSent + 1
  OBVIOUS
<1>. PICK b : b = Between(n + 1)
  OBVIOUS
<1>0. n = radioSent + 1 /\ b = Between(n + 1)
  OBVIOUS
<1>1. PICK q, r \in Place(radioSent) : Underway(q, r)
  BY DEF Framed
<1>2. radioSent \in Nat /\ n \in 1..Len(RadioFrame) /\ n \in Nat /\ Len(RadioFrame) \in Nat
  BY <1>0 DEF Framed, LinkAssumption, RadioSends
<1>3. Passage(radioSent, q, wire, Between(n)) /\ Delivered(q.frame)
  BY <1>0, <1>1 DEF Underway, RadioSends
<1>4. Passage(n, q, wire, Between(n))
  BY <1>0, <1>2, <1>3, SentMore
<1>5. Passage(n, Between(n), Encode(RadioFrame[n]), b)
  BY <1>0, <1>2, OfPacket
<1>6. Passage(n, q, wire \o Encode(RadioFrame[n]), b)
  BY <1>2, <1>4, <1>5, Joined
<1>7. q \in Place(n) /\ b \in Place(n)
  <2>1. q \in Place(n)
    BY <1>0, <1>1, <1>2 DEF Place
  <2>2. n + 1 \in 1..(n + 1)
    BY <1>2
  <2>. QED  BY <1>0, <1>2, <2>1, <2>2, Positions
<1>8. radioSent' = n /\ wire' = wire \o Encode(RadioFrame[n]) /\ alive' = alive /\ alive
      /\ link' = link /\ rns' = rns /\ up' = up
  BY <1>0 DEF RadioSends
<1>9. Delivered(q.frame)'
  <2>1. 1..radioSent \subseteq 1..n
    BY <1>0, <1>2
  <2>. QED  BY <1>3, <1>8, <2>1 DEF Delivered
<1>10. Underway(q, b)'
  <2>1. b = Between(radioSent' + 1)
    BY <1>0, <1>8
  <2>2. Passage(radioSent', q, wire', b)
    BY <1>6, <1>8
  <2>. QED  BY <1>1, <1>8, <1>9, <2>1, <2>2 DEF Underway
<1>11. radioSent' \in 0..Len(RadioFrame)
  BY <1>2, <1>8
<1>12. q \in Place(radioSent') /\ b \in Place(radioSent')
  BY <1>7, <1>8
<1>13. up' \in Seq(Seq(Byte)) /\ link' \in {"reset", "publish", "recv"}
  BY <1>8 DEF Framed
<1>. QED  BY <1>10, <1>11, <1>12, <1>13 DEF Framed

(* A connection that breaks cuts what is underway off somewhere.            *)
LEMMA BreakFramed ==
  ASSUME LinkAssumption, Framed, ConnectionBreaks
  PROVE  Framed'
<1>. USE DEF ConnectionBreaks
<1>1. PICK q, r \in Place(radioSent) : Underway(q, r)
  BY DEF Framed
<1>2. PICK k \in 0..Len(wire) : wire' = SubSeq(wire, 1, k)
  OBVIOUS
<1>3. radioSent \in Nat /\ Passage(radioSent, q, wire, r)
  BY <1>1 DEF Framed, Underway, LinkAssumption
<1>4. PICK s : Passage(radioSent, q, SubSeq(wire, 1, k), s)
  BY <1>3, Cut
<1>5. s \in Place(radioSent)
  <2>. DEFINE w == SubSeq(wire, 1, k)
  <2>1. w \in Seq(Byte)
    BY <1>4 DEF Passage
  <2>. HIDE DEF w
  <2>2. PICK l : Traces(l, radioSent, w) /\ l[Len(w) + 1] = s
    BY <1>4 DEF Passage, w
  <2>3. Len(w) + 1 \in 1..(Len(w) + 1)
    BY <2>1
  <2>. QED  BY <2>2, <2>3 DEF Traces
<1>6. Delivered(q.frame)'
  BY <1>1 DEF Underway, Delivered
<1>7. Underway(q, s)'
  BY <1>1, <1>2, <1>4, <1>6 DEF Underway
<1>8. link \in {"reset", "publish", "recv"}
  BY DEF Framed
<1>. QED  BY <1>1, <1>5, <1>7, <1>8 DEF Framed

(* The other steps move no byte; a connection is left once all is read.     *)
LEMMA QuietFramed ==
  ASSUME LinkAssumption, Framed, UNCHANGED <<alive, wire, radioSent, up>>,
         \/ UNCHANGED <<link, rns>>
         \/ LinkSocket \/ LinkConnectFails \/ LinkReset \/ LinkPublish
         \/ LinkRecvEnds \/ LinkWithdraw \/ LinkClose
  PROVE  Framed'
<1>1. PICK q, r \in Place(radioSent) : Underway(q, r)
  BY DEF Framed
<1>2. Delivered(q.frame)'
  BY <1>1 DEF Underway, Delivered
<1>3. Underway(q, r)'
  <2>1. CASE LinkReset
    <3>1. rns' = Deframed(q)
      BY <1>1, <2>1 DEF LinkReset, Underway, Deframed
    <3>. QED  BY <1>1, <1>2, <2>1, <3>1 DEF LinkReset, Underway
  <2>2. CASE ~LinkReset
    BY <1>1, <1>2, <2>2
       DEF Underway, LinkSocket, LinkConnectFails, LinkPublish, LinkRecvEnds, LinkWithdraw, LinkClose
  <2>. QED  BY <2>1, <2>2
<1>4. link' \notin {"reset", "publish", "recv"} => ~alive' /\ wire' = <<>>
  BY DEF Framed, LinkSocket, LinkConnectFails, LinkReset, LinkPublish, LinkRecvEnds,
         LinkWithdraw, LinkClose
<1>. QED  BY <1>1, <1>3, <1>4 DEF Framed

(* Framed is inductive for packets the deframer has room for.               *)
LEMMA FramedInvariance ==
  ASSUME Fits
  PROVE  Spec => []Framed
<1>. USE LinkAssumption
<1>1. Init => Framed
  <2>. SUFFICES ASSUME Init
                PROVE  Framed
    OBVIOUS
  <2>. USE DEF Init
  <2>1. Between(1) \in Place(0) /\ Between(1).at = 0
    BY Positions
  <2>2. Passage(0, Between(1), <<>>, Between(1))
    BY <2>1, NoBytes
  <2>3. Delivered(Between(1).frame)
    <3>. DEFINE pos == [i \in {} |-> 1]
    <3>1. 1..Len(up) = {} /\ pos \in [{} -> 1..radioSent]
      OBVIOUS
    <3>. HIDE DEF pos
    <3>. QED  BY <3>1 DEF Delivered
  <2>4. Underway(Between(1), Between(1))
    BY <2>1, <2>2, <2>3 DEF Underway
  <2>. QED  BY <2>1, <2>4 DEF Framed, LinkAssumption
<1>2. Framed /\ [Next]_vars => Framed'
  <2>. SUFFICES ASSUME Framed, [Next]_vars
                PROVE  Framed'
    OBVIOUS
  <2>1. CASE LinkTask
    <3>1. CASE LinkConnect \/ LinkRecv
      BY <3>1, ConnectFramed, RecvFramed
    <3>2. CASE LinkSocket \/ LinkConnectFails \/ LinkReset \/ LinkPublish
               \/ LinkRecvEnds \/ LinkWithdraw \/ LinkClose
      <4>1. UNCHANGED <<alive, wire, radioSent, up>>
        BY <3>2 DEF LinkSocket, LinkConnectFails, LinkReset, LinkPublish,
                    LinkRecvEnds, LinkWithdraw, LinkClose
      <4>. QED  BY <3>2, <4>1, QuietFramed
    <3>. QED  BY <2>1, <3>1, <3>2 DEF LinkTask
  <2>2. CASE RadioSends \/ ConnectionBreaks
    BY <2>2, RadioFramed, BreakFramed
  <2>3. CASE Sink \/ OtherOpens \/ OtherCloses \/ UNCHANGED vars
    <3>1. UNCHANGED linkVars
      BY <2>3 DEF Sink, SinkConnected, SinkNoSocket, SinkEncode, SinkLock, SinkSend,
                  OtherOpens, OtherCloses, vars
    <3>. QED  BY <3>1, QuietFramed DEF linkVars
  <2>. QED  BY <2>1, <2>2, <2>3 DEF Next
<1>. QED  BY <1>1, <1>2, PTL DEF Spec

(* Nothing torn or spliced reaches the switch: what the deframer hands over *)
(* are whole packets of the radio in the order sent, wherever connections   *)
(* break and whatever bytes the packets are made of, as long as none is     *)
(* longer than the deframer's buffer (system.c:188-237, rns_framing.c:      *)
(* 9-59).                                                                   *)
THEOREM FramesArriveWhole ==
  ASSUME Fits
  PROVE  Spec => []FramesIntact
<1>1. Framed => FramesIntact
  <2>. SUFFICES ASSUME Framed
                PROVE  FramesIntact
    OBVIOUS
  <2>1. DOMAIN up = 1..Len(up)
    BY DEF Framed
  <2>2. PICK q : Delivered(q.frame)
    BY DEF Framed, Underway
  <2>3. PICK pos \in [1..Len(up) -> 1..radioSent] :
          /\ \A i \in 1..Len(up) : up[i] = RadioFrame[pos[i]]
          /\ \A i, j \in 1..Len(up) : i < j => pos[i] < pos[j]
    BY <2>2 DEF Delivered
  <2>. QED  BY <2>1, <2>3 DEF FramesIntact
<1>. QED  BY <1>1, FramedInvariance, PTL
-----------------------------------------------------------------------------
\* TypeOK needs that a packet is in the sink's hands only within the bound.
Typed ==
  /\ TypeOK
  /\ sink # "idle" => offered <= MaxTx

(* The deframer stays one, and hands over sequences of bytes.               *)
LEMMA DeframerTypes ==
  ASSUME NEW f \in [buf : Seq(Byte), escaped : BOOLEAN], NEW b \in Byte
  PROVE  /\ RxByte(f, b) \in [buf : Seq(Byte), escaped : BOOLEAN]
         /\ RxFrame(f, b) \in Seq(Seq(Byte))
<1>1. \A c \in Byte : Store(f, c) \in [buf : Seq(Byte), escaped : BOOLEAN]
  BY DEF Store
<1>2. EmptyDeframer \in [buf : Seq(Byte), escaped : BOOLEAN]
  BY DEF EmptyDeframer
<1>3. Masked[b] \in Byte
  BY FramingAssumption
<1>4. [f EXCEPT !.escaped = TRUE] \in [buf : Seq(Byte), escaped : BOOLEAN]
  OBVIOUS
<1>5. RxByte(f, b) \in {EmptyDeframer, Store(f, Masked[b]), [f EXCEPT !.escaped = TRUE], Store(f, b)}
  BY FramingAssumption, Z3 DEF RxByte
<1>6. RxFrame(f, b) \in Seq(Seq(Byte))
  <2>1. f.buf \in Seq(Byte)
    OBVIOUS
  <2>. QED  BY <2>1 DEF RxFrame
<1>. QED  BY <1>1, <1>2, <1>3, <1>4, <1>5, <1>6

LEMMA LinkTyped ==
  ASSUME LinkAssumption, Inv, Typed, LinkTask
  PROVE  Typed'
<1>. USE DEF LinkAssumption, Inv, Held, Typed, TypeOK, Free, NoTask, sinkVars
<1>1. CASE LinkRecv
  <2>1. Head(wire) \in Byte /\ Tail(wire) \in Seq(Byte)
    BY <1>1 DEF LinkRecv
  <2>2. RxByte(rns, Head(wire)) \in [buf : Seq(Byte), escaped : BOOLEAN]
        /\ RxFrame(rns, Head(wire)) \in Seq(Seq(Byte))
    BY <2>1, DeframerTypes
  <2>3. up' \in Seq(Seq(Byte))
    BY <1>1, <2>2 DEF LinkRecv
  <2>. QED  BY <1>1, <2>1, <2>2, <2>3 DEF LinkRecv
<1>2. CASE LinkSocket
  BY <1>2 DEF LinkSocket
<1>3. CASE LinkConnectFails
  BY <1>3 DEF LinkConnectFails
<1>4. CASE LinkConnect
  BY <1>4 DEF LinkConnect
<1>5. CASE LinkReset
  BY <1>5 DEF LinkReset, EmptyDeframer
<1>6. CASE LinkPublish
  BY <1>6 DEF LinkPublish
<1>7. CASE LinkRecvEnds
  BY <1>7 DEF LinkRecvEnds
<1>8. CASE LinkWithdraw
  BY <1>8 DEF LinkWithdraw
<1>9. CASE LinkClose
  BY <1>9 DEF LinkClose
<1>. QED  BY <1>1, <1>2, <1>3, <1>4, <1>5, <1>6, <1>7, <1>8, <1>9 DEF LinkTask

LEMMA SinkTyped ==
  ASSUME LinkAssumption, Inv, Typed, Sink
  PROVE  Typed'
<1>. USE DEF LinkAssumption, Typed, TypeOK, NoTask, linkVars
<1>1. CASE SinkConnected
  BY <1>1 DEF SinkConnected
<1>2. CASE SinkNoSocket
  BY <1>2 DEF SinkNoSocket, Taken
<1>3. CASE SinkEncode
  BY <1>3 DEF SinkEncode
<1>4. CASE SinkLock
  BY <1>4 DEF SinkLock
<1>5. CASE SinkSend
  <2>1. offered \in 1..MaxTx /\ offered' = offered + 1
    BY <1>5 DEF SinkSend, Taken
  <2>2. written' \in Seq(1..MaxTx)
    <3>1. written' \in {written, Append(written, offered)}
      BY <1>5 DEF SinkSend
    <3>. DEFINE S == 1..MaxTx
    <3>2. written \in Seq(S) /\ offered \in S
      BY <2>1
    <3>. HIDE DEF S
    <3>3. Append(written, offered) \in Seq(S)
      BY <3>2
    <3>4. written' \in Seq(S)
      BY <3>1, <3>2, <3>3
    <3>. QED  BY <3>4 DEF S
  <2>. QED  BY <1>5, <2>1, <2>2 DEF SinkSend, Taken
<1>. QED  BY <1>1, <1>2, <1>3, <1>4, <1>5 DEF Sink

LEMMA EnvironmentTyped ==
  ASSUME LinkAssumption, Typed,
         RadioSends \/ ConnectionBreaks \/ OtherOpens \/ OtherCloses \/ UNCHANGED vars
  PROVE  Typed'
<1>. USE DEF LinkAssumption, Typed, TypeOK, Free, linkVars, sinkVars
<1>1. CASE RadioSends
  <2>1. radioSent + 1 \in 1..Len(RadioFrame) /\ radioSent' = radioSent + 1
    BY <1>1 DEF RadioSends
  <2>2. Encode(RadioFrame[radioSent + 1]) \in Seq(Byte)
    BY <2>1, OfPacket DEF Passage
  <2>3. wire' \in Seq(Byte)
    BY <1>1, <2>2 DEF RadioSends
  <2>. QED  BY <1>1, <2>1, <2>3 DEF RadioSends
<1>2. CASE ConnectionBreaks
  <2>1. \A k \in 0..Len(wire) : SubSeq(wire, 1, k) \in Seq(Byte)
    OBVIOUS
  <2>2. wire' \in Seq(Byte)
    BY <1>2, <2>1 DEF ConnectionBreaks
  <2>. QED  BY <1>2, <2>2 DEF ConnectionBreaks
<1>3. CASE OtherOpens
  BY <1>3 DEF OtherOpens
<1>4. CASE OtherCloses
  BY <1>4 DEF OtherCloses
<1>5. CASE UNCHANGED vars
  BY <1>5 DEF vars
<1>. QED  BY <1>1, <1>2, <1>3, <1>4, <1>5

(* The variables keep their types: whatever arrives is a sequence of bytes, *)
(* and the numbers of packets and connections stay within their bounds      *)
(* (system.c:108-237).                                                      *)
THEOREM LinkIsTyped == Spec => []TypeOK
<1>. USE LinkAssumption
<1>1. Init => Typed
  <2>. SUFFICES ASSUME Init
                PROVE  Typed
    OBVIOUS
  <2>1. <<>> \in Seq(Byte) /\ <<>> \in Seq(Seq(Byte)) /\ <<>> \in Seq(1..MaxTx)
    OBVIOUS
  <2>2. 0 \in 0..Len(RadioFrame) /\ 0 \in 0..MaxConn /\ 1 \in 1..(MaxTx + 1)
    BY DEF LinkAssumption
  <2>3. rns \in [buf : Seq(Byte), escaped : BOOLEAN]
    BY DEF Init, EmptyDeframer
  <2>. QED  BY <2>1, <2>2, <2>3 DEF Init, Typed, TypeOK, Free, NoTask
<1>2. Inv /\ Typed /\ [Next]_vars => Typed'
  BY LinkTyped, SinkTyped, EnvironmentTyped DEF Next
<1>3. Typed => TypeOK
  BY DEF Typed
<1>. QED  BY <1>1, <1>2, <1>3, Invariance, PTL DEF Spec
=============================================================================
