----------------------------- MODULE PagesProofs ----------------------------
(***************************************************************************)
(* Safety of what a browser meets: the web proxy and its firewall, a page  *)
(* on its way, the captive portal.                                         *)
(*                                                                         *)
(* The web proxy, for any clients, slots, shares and windows.  Three       *)
(* arguments: the requests come one by one, so the upstream slot is free   *)
(* whenever one is checked; a slot never counts more requests than its     *)
(* client made in the window; and a client's history falls into windows,   *)
(* each admitting at most its share, that begin more than a window apart   *)
(* or where the slot was taken from the client while the window ran.       *)
(*                                                                         *)
(* The page, for any tag, page and chunks: what is held back is long       *)
(* enough that no tag can come to stand across the end of what was sent.   *)
(*                                                                         *)
(* The portal, for any addresses and messages: a browser that was sent on  *)
(* asks for an address of the access point, and what it reaches under an   *)
(* address has that address; what the DNS task finds walking through a     *)
(* name is compared with what the name is, from the end of the message     *)
(* backwards.                                                              *)
(***************************************************************************)
EXTENDS Pages, FiniteSetTheorems, SequenceTheorems, TLAPS

Entry == [client : Client \cup {NoClient}, time : Nat,
          answer : {"admitted", "limited", "busy"}, taken : Client \cup {NoClient}]
Log == Seq(Entry)

\* Of the history l, what client c asked since time t, what it was granted of
\* that, when its slot was taken, and both before time u.
Asked(l, c, t) == {j \in 1..Len(l) : l[j].client = c /\ l[j].time >= t}
Since(l, c, t) == {j \in Asked(l, c, t) : l[j].answer = "admitted"}
Lost(l, c, t) == {j \in 1..Len(l) : l[j].taken = c /\ l[j].time >= t}
Between(l, c, t, u) == {j \in Since(l, c, t) : l[j].time < u}
LostBetween(l, c, t, u) == {j \in Lost(l, c, t) : l[j].time < u}

\* Since t client c was granted k, and a share for each time its slot was taken.
Granted(l, c, t, k) ==
  Cardinality(Since(l, c, t)) <= k + Cardinality(Lost(l, c, t)) * PerClientMax

\* A client whose window began at w and which asked n since: the first of them
\* at w.  A period that reaches back behind w sees what is left of a share.
Windowed(l, c, w, n) ==
  \E k \in 1..PerClientMax :
    /\ k <= n
    /\ Granted(l, c, w, k)
    /\ \A t \in Nat : t > w => Granted(l, c, t, k - 1)
    /\ \A t \in Nat : t < w /\ w <= t + PerClientWindow
                      => Granted(l, c, t, k + PerClientMax - 1)
    /\ \A j \in Since(l, c, 0) : l[j].time <= w + PerClientWindow

\* A client without a running window at time u.
Rested(l, c, u) ==
  /\ \A t \in Nat : t >= u => Granted(l, c, t, 0)
  /\ \A t \in Nat : t < u /\ u <= t + PerClientWindow
                    => Granted(l, c, t, PerClientMax - 1)
  /\ \A j \in Since(l, c, 0) : l[j].time <= u

\* What FloodBounded says of client c, for every time.
Bounded(l, c) ==
  \A t \in Nat :
    LET u == t + PerClientWindow + 1
    IN  Cardinality(Between(l, c, t, u))
          < (2 + Cardinality(LostBetween(l, c, t, u))) * PerClientMax
-----------------------------------------------------------------------------
(* The history and its parts.                                               *)

LEMMA Parts ==
  ASSUME NEW l \in Log, NEW T \in SUBSET (1..Len(l))
  PROVE  /\ IsFiniteSet(T) /\ Cardinality(T) \in Nat /\ Cardinality(T) <= Len(l)
         /\ \A U \in SUBSET T : IsFiniteSet(U) /\ Cardinality(U) \in Nat
                                /\ Cardinality(U) <= Cardinality(T)
<1>1. Len(l) \in Nat
  BY LenProperties DEF Log
<1>2. IsFiniteSet(1..Len(l)) /\ Cardinality(1..Len(l)) = Len(l)
  BY <1>1, FS_Interval
<1>3. IsFiniteSet(T) /\ Cardinality(T) <= Len(l)
  BY <1>2, FS_Subset
<1>4. Cardinality(T) \in Nat
  BY <1>3, FS_CardinalityType
<1>5. ASSUME NEW U \in SUBSET T
      PROVE  IsFiniteSet(U) /\ Cardinality(U) \in Nat /\ Cardinality(U) <= Cardinality(T)
  BY <1>3, FS_Subset, FS_CardinalityType
<1>. QED  BY <1>3, <1>4, <1>5

LEMMA UnionBound ==
  ASSUME NEW l \in Log, NEW T \in SUBSET (1..Len(l)), NEW U \in SUBSET (1..Len(l))
  PROVE  Cardinality(T \cup U) <= Cardinality(T) + Cardinality(U)
<1>1. IsFiniteSet(T) /\ IsFiniteSet(U) /\ IsFiniteSet(T \cap U)
  BY Parts
<1>2. Cardinality(T \cup U) = Cardinality(T) + Cardinality(U) - Cardinality(T \cap U)
  BY <1>1, FS_Union
<1>3. Cardinality(T) \in Nat /\ Cardinality(U) \in Nat /\ Cardinality(T \cap U) \in Nat
  BY <1>1, FS_CardinalityType
<1>. QED  BY <1>2, <1>3

LEMMA PartsOfLog ==
  ASSUME NEW l \in Log, NEW c, NEW t, NEW u
  PROVE  /\ Asked(l, c, t) \in SUBSET (1..Len(l))
         /\ Since(l, c, t) \in SUBSET Asked(l, c, t)
         /\ Between(l, c, t, u) \in SUBSET Since(l, c, t)
         /\ Between(l, c, t, u) \in SUBSET (1..Len(l))
         /\ Since(l, c, t) \in SUBSET (1..Len(l))
         /\ Lost(l, c, t) \in SUBSET (1..Len(l))
         /\ LostBetween(l, c, t, u) \in SUBSET (1..Len(l))
BY DEF Asked, Since, Between, Lost, LostBetween

LEMMA Appended ==
  ASSUME NEW l \in Log, NEW e \in Entry
  PROVE  /\ Append(l, e) \in Log
         /\ Len(Append(l, e)) = Len(l) + 1
         /\ Append(l, e)[Len(l) + 1] = e
         /\ \A j \in 1..Len(l) : Append(l, e)[j] = l[j]
         /\ 1..Len(Append(l, e)) = 1..Len(l) \cup {Len(l) + 1}
         /\ Len(l) \in Nat /\ Len(l) + 1 \notin 1..Len(l)
<1>1. Append(l, e) \in Log /\ Len(Append(l, e)) = Len(l) + 1 /\ Len(l) \in Nat
      /\ Append(l, e)[Len(l) + 1] = e /\ \A j \in 1..Len(l) : Append(l, e)[j] = l[j]
  BY AppendProperties, LenProperties DEF Log
<1>2. 1..(Len(l) + 1) = 1..Len(l) \cup {Len(l) + 1} /\ Len(l) + 1 \notin 1..Len(l)
  BY <1>1
<1>. QED  BY <1>1, <1>2

(* What one more answer adds to each part.                                  *)
LEMMA PartsAppended ==
  ASSUME NEW l \in Log, NEW e \in Entry, NEW c, NEW t \in Nat, NEW u \in Nat
  PROVE  /\ Asked(Append(l, e), c, t)
              = IF e.client = c /\ e.time >= t
                THEN Asked(l, c, t) \cup {Len(l) + 1} ELSE Asked(l, c, t)
         /\ Since(Append(l, e), c, t)
              = IF e.client = c /\ e.time >= t /\ e.answer = "admitted"
                THEN Since(l, c, t) \cup {Len(l) + 1} ELSE Since(l, c, t)
         /\ Between(Append(l, e), c, t, u)
              = IF e.client = c /\ e.time >= t /\ e.answer = "admitted" /\ e.time < u
                THEN Between(l, c, t, u) \cup {Len(l) + 1} ELSE Between(l, c, t, u)
         /\ Lost(Append(l, e), c, t)
              = IF e.taken = c /\ e.time >= t
                THEN Lost(l, c, t) \cup {Len(l) + 1} ELSE Lost(l, c, t)
         /\ LostBetween(l, c, t, u) \in SUBSET LostBetween(Append(l, e), c, t, u)
<1>. DEFINE m == Append(l, e)  n == Len(l) + 1
<1>1. /\ m[n] = e /\ \A j \in 1..Len(l) : m[j] = l[j]
      /\ 1..Len(m) = 1..Len(l) \cup {n} /\ n \notin 1..Len(l)
  BY Appended
<1>. HIDE DEF m, n
<1>2. Asked(m, c, t) = IF e.client = c /\ e.time >= t
                       THEN Asked(l, c, t) \cup {n} ELSE Asked(l, c, t)
  BY <1>1 DEF Asked
<1>3. \A j \in Asked(l, c, t) : m[j] = l[j]
  BY <1>1 DEF Asked
<1>4. Since(m, c, t) = IF e.client = c /\ e.time >= t /\ e.answer = "admitted"
                       THEN Since(l, c, t) \cup {n} ELSE Since(l, c, t)
  BY <1>1, <1>2, <1>3 DEF Since
<1>5. \A j \in Since(l, c, t) : m[j] = l[j]
  BY <1>3 DEF Since
<1>6. Between(m, c, t, u)
        = IF e.client = c /\ e.time >= t /\ e.answer = "admitted" /\ e.time < u
          THEN Between(l, c, t, u) \cup {n} ELSE Between(l, c, t, u)
  BY <1>1, <1>4, <1>5 DEF Between
<1>7. Lost(m, c, t) = IF e.taken = c /\ e.time >= t
                      THEN Lost(l, c, t) \cup {n} ELSE Lost(l, c, t)
  BY <1>1 DEF Lost
<1>8. LostBetween(l, c, t, u) \in SUBSET LostBetween(m, c, t, u)
  BY <1>1 DEF LostBetween, Lost
<1>. QED  BY <1>2, <1>4, <1>6, <1>7, <1>8 DEF m, n

LEMMA Times ==
  ASSUME NEW l \in Log
  PROVE  \A j \in 1..Len(l) : l[j] \in Entry /\ l[j].time \in Nat
<1>1. \A j \in 1..Len(l) : l[j] \in Entry
  BY ElementOfSeq DEF Log
<1>. QED  BY <1>1 DEF Entry

(* An answer that belongs to no part changes none.                          *)
LEMMA PartsKept ==
  ASSUME NEW l \in Log, NEW e \in Entry, NEW c, NEW t \in Nat, NEW u \in Nat
  PROVE  /\ e.client # c \/ e.time < t => Asked(Append(l, e), c, t) = Asked(l, c, t)
         /\ e.client # c \/ e.time < t \/ e.answer # "admitted"
              => Since(Append(l, e), c, t) = Since(l, c, t)
         /\ e.client # c \/ e.time < t \/ e.answer # "admitted" \/ e.time >= u
              => Between(Append(l, e), c, t, u) = Between(l, c, t, u)
<1>1. e.time \in Nat
  BY DEF Entry
<1>2. e.client # c \/ e.time < t => Asked(Append(l, e), c, t) = Asked(l, c, t)
  <2>1. e.client # c \/ e.time < t => ~ (e.client = c /\ e.time >= t)
    BY <1>1
  <2>. QED  BY <2>1, PartsAppended
<1>3. e.client # c \/ e.time < t \/ e.answer # "admitted"
      => Since(Append(l, e), c, t) = Since(l, c, t)
  <2>1. e.client # c \/ e.time < t \/ e.answer # "admitted"
        => ~ (e.client = c /\ e.time >= t /\ e.answer = "admitted")
    BY <1>1
  <2>. QED  BY <2>1, PartsAppended
<1>4. e.client # c \/ e.time < t \/ e.answer # "admitted" \/ e.time >= u
      => Between(Append(l, e), c, t, u) = Between(l, c, t, u)
  <2>1. e.client # c \/ e.time < t \/ e.answer # "admitted" \/ e.time >= u
        => ~ (e.client = c /\ e.time >= t /\ e.answer = "admitted" /\ e.time < u)
    BY <1>1
  <2>. QED  BY <2>1, PartsAppended
<1>. QED  BY <1>2, <1>3, <1>4

(* A part of a part.                                                        *)
LEMMA Smaller ==
  ASSUME NEW l \in Log, NEW U \in SUBSET (1..Len(l)), NEW T \in SUBSET U
  PROVE  Cardinality(T) <= Cardinality(U) /\ Cardinality(T) \in Nat /\ Cardinality(U) \in Nat
BY Parts

LEMMA OneMore ==
  ASSUME NEW l \in Log, NEW T \in SUBSET (1..Len(l))
  PROVE  /\ Cardinality(T \cup {Len(l) + 1}) = Cardinality(T) + 1
         /\ Cardinality(T) \in Nat
         /\ T \cup {} = T
<1>1. IsFiniteSet(T) /\ Cardinality(T) \in Nat
  BY Parts
<1>2. Len(l) \in Nat
  BY LenProperties DEF Log
<1>3. Len(l) + 1 \notin T
  BY <1>2
<1>. QED  BY <1>1, <1>3, FS_AddElement
-----------------------------------------------------------------------------
(* A client's windows.                                                      *)

LEMMA Shares ==
  ASSUME NEW a \in Nat, NEW b \in Nat
  PROVE  /\ a * PerClientMax \in Nat
         /\ a <= b => a * PerClientMax <= b * PerClientMax
         /\ (a + 1) * PerClientMax = a * PerClientMax + PerClientMax
         /\ (2 + a) * PerClientMax = a * PerClientMax + 2 * PerClientMax
<1>. USE WebProxyAssumption
<1>1. PerClientMax \in Nat
  OBVIOUS
<1>2. /\ a * PerClientMax \in Nat
      /\ (a + 1) * PerClientMax = a * PerClientMax + PerClientMax
      /\ (2 + a) * PerClientMax = a * PerClientMax + 2 * PerClientMax
  BY <1>1
<1>3. a <= b => a * PerClientMax <= b * PerClientMax
  BY <1>1
<1>. QED  BY <1>2, <1>3

LEMMA Cards ==
  ASSUME NEW l \in Log, NEW c, NEW t
  PROVE  /\ Cardinality(Since(l, c, t)) \in Nat
         /\ Cardinality(Lost(l, c, t)) \in Nat
         /\ Cardinality(Lost(l, c, t)) * PerClientMax \in Nat
<1>1. Cardinality(Since(l, c, t)) \in Nat /\ Cardinality(Lost(l, c, t)) \in Nat
  BY PartsOfLog, Smaller
<1>. QED  BY <1>1, Shares

(* A larger grant is granted as well.                                       *)
LEMMA GrantedMore ==
  ASSUME NEW l \in Log, NEW c, NEW t, NEW k \in Int, NEW n \in Int,
         Granted(l, c, t, k), k <= n
  PROVE  Granted(l, c, t, n)
BY Cards DEF Granted

(* Nothing granted needs no grant.                                          *)
LEMMA NoneGranted ==
  ASSUME NEW l \in Log, NEW c, NEW t, NEW k \in Nat, Since(l, c, t) = {}
  PROVE  Granted(l, c, t, k)
<1>1. Cardinality(Since(l, c, t)) = 0
  BY FS_EmptySet
<1>. QED  BY <1>1, Cards DEF Granted

(* One more answer: it may be one more grant, or one more slot taken, which *)
(* is a share to spare.                                                     *)
LEMMA GrantedAppended ==
  ASSUME NEW l \in Log, NEW e \in Entry, NEW c, NEW t \in Nat, NEW k \in Int,
         Granted(l, c, t, k)
  PROVE  /\ e.client # c \/ e.time < t \/ e.answer # "admitted"
              => Granted(Append(l, e), c, t, k)
         /\ Granted(Append(l, e), c, t, k + 1)
         /\ e.client # c /\ e.taken = c /\ e.time >= t
              => Granted(Append(l, e), c, t, k - PerClientMax)
<1>. DEFINE m == Append(l, e)
            x == Cardinality(Since(l, c, t))  y == Cardinality(Lost(l, c, t))
            X == Cardinality(Since(m, c, t))  Y == Cardinality(Lost(m, c, t))
<1>0. m \in Log /\ PerClientMax \in Nat
  BY Appended, WebProxyAssumption
<1>1. x \in Nat /\ y \in Nat /\ X \in Nat /\ Y \in Nat
  BY <1>0, Cards
<1>2. /\ Cardinality(Since(l, c, t) \cup {Len(l) + 1}) = x + 1
      /\ Cardinality(Lost(l, c, t) \cup {Len(l) + 1}) = y + 1
  BY PartsOfLog, OneMore
<1>3. X \in {x, x + 1} /\ (e.client # c \/ e.time < t \/ e.answer # "admitted" => X = x)
  <2>1. e.client # c \/ e.time < t \/ e.answer # "admitted" => Since(m, c, t) = Since(l, c, t)
    BY PartsKept
  <2>2. Since(m, c, t) \in {Since(l, c, t), Since(l, c, t) \cup {Len(l) + 1}}
    BY PartsAppended
  <2>. QED  BY <2>1, <2>2, <1>2
<1>4. Y \in {y, y + 1} /\ (e.taken = c /\ e.time >= t => Y = y + 1)
  <2>1. Lost(m, c, t) = IF e.taken = c /\ e.time >= t
                        THEN Lost(l, c, t) \cup {Len(l) + 1} ELSE Lost(l, c, t)
    BY PartsAppended
  <2>. QED  BY <2>1, <1>2
<1>5. x <= k + y * PerClientMax
  BY DEF Granted
<1>6. /\ y * PerClientMax \in Nat /\ (y + 1) * PerClientMax = y * PerClientMax + PerClientMax
  BY <1>1, Shares
<1>. HIDE DEF x, y, X, Y, m
<1>7. X <= k + 1 + Y * PerClientMax
  BY <1>0, <1>1, <1>3, <1>4, <1>5, <1>6
<1>8. X = x => X <= k + Y * PerClientMax
  BY <1>0, <1>1, <1>4, <1>5, <1>6
<1>9. X = x /\ Y = y + 1 => X <= k - PerClientMax + Y * PerClientMax
  BY <1>0, <1>1, <1>5, <1>6
<1>10. /\ X = x => Granted(m, c, t, k)
       /\ Granted(m, c, t, k + 1)
       /\ X = x /\ Y = y + 1 => Granted(m, c, t, k - PerClientMax)
  BY <1>7, <1>8, <1>9 DEF Granted, X, Y
<1>. QED  BY <1>3, <1>4, <1>10 DEF m

(* What a client was granted is at the times it was; nothing is granted     *)
(* after the last of them.                                                  *)
LEMMA NoneAfter ==
  ASSUME NEW l \in Log, NEW c, NEW u \in Nat, \A j \in Since(l, c, 0) : l[j].time <= u,
         NEW t \in Nat, t > u
  PROVE  Since(l, c, t) = {}
<1>1. ASSUME NEW j \in Since(l, c, t) PROVE FALSE
  <2>1. j \in 1..Len(l) /\ l[j].time \in Nat /\ l[j].time >= t
    BY Times DEF Since, Asked
  <2>2. j \in Since(l, c, 0)
    BY <2>1 DEF Since, Asked
  <2>. QED  BY <2>1, <2>2
<1>. QED  BY <1>1

(* Once its window is over a client has rested.                             *)
LEMMA Expired ==
  ASSUME NEW l \in Log, NEW c, NEW w \in Nat, NEW n \in Nat, NEW u \in Nat,
         Windowed(l, c, w, n), u - w > PerClientWindow
  PROVE  Rested(l, c, u)
<1>. USE WebProxyAssumption
<1>0. PICK k \in 1..PerClientMax :
        /\ \A t \in Nat : t > w => Granted(l, c, t, k - 1)
        /\ \A j \in Since(l, c, 0) : l[j].time <= w + PerClientWindow
  BY DEF Windowed
<1>1. \A j \in Since(l, c, 0) : l[j].time <= u
  <2>1. \A j \in Since(l, c, 0) : l[j].time \in Nat
    BY Times, PartsOfLog
  <2>. QED  BY <1>0, <2>1
<1>2. ASSUME NEW t \in Nat, t >= u
      PROVE  Granted(l, c, t, 0)
  <2>1. w + PerClientWindow \in Nat /\ t > w + PerClientWindow
    BY <1>2
  <2>2. Since(l, c, t) = {}
    BY <1>0, <2>1, NoneAfter
  <2>. QED  BY <2>2, NoneGranted
<1>3. ASSUME NEW t \in Nat, u <= t + PerClientWindow
      PROVE  Granted(l, c, t, PerClientMax - 1)
  <2>1. t > w /\ k - 1 \in Int /\ PerClientMax - 1 \in Int /\ k - 1 <= PerClientMax - 1
    BY <1>3
  <2>. QED  BY <1>0, <2>1, GrantedMore
<1>. QED  BY <1>1, <1>2, <1>3 DEF Rested

(* So has one whose slot another takes while its window runs.               *)
LEMMA TakenAway ==
  ASSUME NEW l \in Log, NEW e \in Entry, NEW c, NEW w \in Nat, NEW n \in Nat,
         Windowed(l, c, w, n), w <= e.time, e.time - w <= PerClientWindow,
         e.client # c, e.taken = c, \A j \in 1..Len(l) : l[j].time <= e.time
  PROVE  Rested(Append(l, e), c, e.time)
<1>. USE WebProxyAssumption
<1>. DEFINE u == e.time  m == Append(l, e)
<1>0. PICK k \in 1..PerClientMax :
        /\ Granted(l, c, w, k)
        /\ \A t \in Nat : t > w => Granted(l, c, t, k - 1)
        /\ \A t \in Nat : t < w /\ w <= t + PerClientWindow
                          => Granted(l, c, t, k + PerClientMax - 1)
  BY DEF Windowed
<1>1. u \in Nat /\ m \in Log
  BY Appended DEF Entry
<1>2. \A t \in Nat : Since(m, c, t) = Since(l, c, t)
  BY PartsKept
<1>3. \A j \in Since(m, c, 0) : m[j].time <= u
  <2>1. Since(l, c, 0) \in SUBSET (1..Len(l))
    BY PartsOfLog
  <2>2. \A j \in 1..Len(l) : m[j] = l[j]
    BY Appended
  <2>. QED  BY <1>2, <2>1, <2>2
<1>4. ASSUME NEW t \in Nat, t > w, t <= u
      PROVE  Granted(m, c, t, 0)
  <2>1. Granted(m, c, t, k - 1 - PerClientMax)
    BY <1>0, <1>1, <1>4, GrantedAppended
  <2>. QED  BY <1>1, <2>1, GrantedMore
<1>5. Granted(m, c, w, 0)
  <2>1. Granted(m, c, w, k - PerClientMax)
    BY <1>0, <1>1, GrantedAppended
  <2>. QED  BY <1>1, <2>1, GrantedMore
<1>6. ASSUME NEW t \in Nat, t < w, w <= t + PerClientWindow
      PROVE  Granted(m, c, t, PerClientMax - 1)
  <2>1. Granted(l, c, t, k + PerClientMax - 1) /\ u >= t
    BY <1>0, <1>1, <1>6
  <2>2. Granted(m, c, t, k + PerClientMax - 1 - PerClientMax)
    BY <1>1, <2>1, GrantedAppended
  <2>. QED  BY <1>1, <2>2, GrantedMore
<1>7. \A t \in Nat : t > u => Granted(m, c, t, 0)
  BY <1>1, <1>3, NoneAfter, NoneGranted
<1>8. ASSUME NEW t \in Nat, Granted(m, c, t, 0)
      PROVE  Granted(m, c, t, PerClientMax - 1)
  BY <1>1, <1>8, GrantedMore
<1>. HIDE DEF u, m
<1>9. ASSUME NEW t \in Nat, t >= u
      PROVE  Granted(m, c, t, 0)
  <2>1. t > u \/ (t = u /\ t > w) \/ (t = u /\ t = w)
    BY <1>1, <1>9 DEF u
  <2>2. t = u => t <= u
    BY <1>1
  <2>. QED  BY <1>4, <1>5, <1>7, <2>1, <2>2
<1>10. ASSUME NEW t \in Nat, t < u, u <= t + PerClientWindow
       PROVE  Granted(m, c, t, PerClientMax - 1)
  <2>1. CASE t > w
    BY <1>1, <1>4, <1>8, <1>10, <2>1
  <2>2. CASE t = w
    BY <1>5, <1>8, <2>2
  <2>3. CASE t < w
    <3>1. w <= t + PerClientWindow
      BY <1>1, <1>10, <2>3 DEF u
    <3>. QED  BY <1>6, <2>3, <3>1
  <2>. QED  BY <2>1, <2>2, <2>3
<1>11. Rested(m, c, u)
  BY <1>3, <1>9, <1>10 DEF Rested
<1>. QED  BY <1>11 DEF m, u

(* A client that has rested begins a window with this request.              *)
LEMMA Begins ==
  ASSUME NEW l \in Log, NEW e \in Entry, Rested(l, e.client, e.time)
  PROVE  Windowed(Append(l, e), e.client, e.time, 1)
<1>. USE WebProxyAssumption
<1>. DEFINE c == e.client  u == e.time  m == Append(l, e)
<1>0. u \in Nat /\ m \in Log
  BY Appended DEF Entry
<1>1. Granted(m, c, u, 1)
  <2>1. Granted(l, c, u, 0)
    BY <1>0 DEF Rested
  <2>2. Granted(m, c, u, 0 + 1)
    BY <1>0, <2>1, GrantedAppended
  <2>. QED  BY <2>2
<1>2. ASSUME NEW t \in Nat, t > u
      PROVE  Granted(m, c, t, 1 - 1)
  <2>1. Granted(l, c, t, 0)
    BY <1>0, <1>2 DEF Rested
  <2>2. Granted(m, c, t, 0)
    BY <1>0, <1>2, <2>1, GrantedAppended
  <2>. QED  BY <2>2
<1>3. ASSUME NEW t \in Nat, t < u, u <= t + PerClientWindow
      PROVE  Granted(m, c, t, 1 + PerClientMax - 1)
  <2>1. Granted(l, c, t, PerClientMax - 1)
    BY <1>0, <1>3 DEF Rested
  <2>2. Granted(m, c, t, PerClientMax - 1 + 1)
    BY <1>0, <2>1, GrantedAppended
  <2>3. PerClientMax - 1 + 1 = 1 + PerClientMax - 1
    OBVIOUS
  <2>. QED  BY <2>2, <2>3
<1>4. ASSUME NEW j \in Since(m, c, 0)
      PROVE  m[j].time <= u + PerClientWindow
  <2>1. Since(m, c, 0) \in SUBSET (Since(l, c, 0) \cup {Len(l) + 1})
    BY <1>0, PartsAppended
  <2>2. CASE j \in Since(l, c, 0)
    <3>0. j \in 1..Len(l)
      BY <2>2, PartsOfLog
    <3>1. m[j] = l[j]
      BY <3>0, Appended
    <3>2. l[j].time \in Nat
      BY <3>0, Times
    <3>3. l[j].time <= u
      BY <2>2 DEF Rested
    <3>. QED  BY <3>1, <3>2, <3>3, <1>0
  <2>3. CASE j = Len(l) + 1
    <3>1. m[j].time = u
      BY <2>3, Appended
    <3>. QED  BY <3>1, <1>0
  <2>. QED  BY <2>1, <2>2, <2>3
<1>. HIDE DEF c, u, m
<1>5. 1 \in 1..PerClientMax /\ 1 <= 1
  OBVIOUS
<1>6. Windowed(m, c, u, 1)
  BY <1>1, <1>2, <1>3, <1>4, <1>5 DEF Windowed
<1>. QED  BY <1>6 DEF c, u, m

(* One more request of a window.                                            *)
LEMMA GoesOn ==
  ASSUME NEW l \in Log, NEW e \in Entry, NEW w \in Nat, NEW n \in Nat,
         Windowed(l, e.client, w, n), w <= e.time, e.time - w <= PerClientWindow,
         e.answer = "admitted" => n + 1 <= PerClientMax
  PROVE  Windowed(Append(l, e), e.client, w, n + 1)
<1>. USE WebProxyAssumption
<1>. DEFINE c == e.client  u == e.time  m == Append(l, e)
<1>0. u \in Nat /\ m \in Log
  BY Appended DEF Entry
<1>1. PICK k \in 1..PerClientMax :
        /\ k <= n
        /\ Granted(l, c, w, k)
        /\ \A t \in Nat : t > w => Granted(l, c, t, k - 1)
        /\ \A t \in Nat : t < w /\ w <= t + PerClientWindow
                          => Granted(l, c, t, k + PerClientMax - 1)
        /\ \A j \in Since(l, c, 0) : l[j].time <= w + PerClientWindow
  BY DEF Windowed
<1>2. ASSUME NEW j \in Since(m, c, 0)
      PROVE  m[j].time <= w + PerClientWindow
  <2>1. Since(m, c, 0) \in SUBSET (Since(l, c, 0) \cup {Len(l) + 1})
    BY <1>0, PartsAppended
  <2>2. CASE j \in Since(l, c, 0)
    <3>0. j \in 1..Len(l)
      BY <2>2, PartsOfLog
    <3>1. m[j] = l[j]
      BY <3>0, Appended
    <3>. QED  BY <3>1, <2>2, <1>1
  <2>3. CASE j = Len(l) + 1
    <3>1. m[j].time = u
      BY <2>3, Appended
    <3>. QED  BY <3>1, <1>0
  <2>. QED  BY <2>1, <2>2, <2>3
<1>3. CASE e.answer # "admitted"
  <2>1. \A t \in Nat, i \in Int : Granted(l, c, t, i) => Granted(m, c, t, i)
    BY <1>0, <1>3, GrantedAppended
  <2>2. /\ k \in Int /\ k - 1 \in Int /\ k + PerClientMax - 1 \in Int /\ k <= n + 1
    BY <1>1
  <2>. HIDE DEF c, u, m
  <2>3. Windowed(m, c, w, n + 1)
    BY <1>1, <1>2, <2>1, <2>2 DEF Windowed
  <2>. QED  BY <2>3 DEF c, m
<1>4. CASE e.answer = "admitted"
  <2>1. \A t \in Nat, i \in Int : Granted(l, c, t, i) => Granted(m, c, t, i + 1)
    BY <1>0, GrantedAppended
  <2>2. /\ k \in Int /\ k - 1 \in Int /\ k + PerClientMax - 1 \in Int
        /\ k + 1 <= n + 1 /\ k + 1 \in 1..PerClientMax
        /\ k - 1 + 1 = (k + 1) - 1 /\ k + PerClientMax - 1 + 1 = (k + 1) + PerClientMax - 1
    BY <1>1, <1>4
  <2>. HIDE DEF c, u, m
  <2>3. Granted(m, c, w, k + 1)
    BY <1>1, <2>1, <2>2
  <2>4. \A t \in Nat : t > w => Granted(m, c, t, (k + 1) - 1)
    BY <1>1, <2>1, <2>2
  <2>5. \A t \in Nat : t < w /\ w <= t + PerClientWindow
                      => Granted(m, c, t, (k + 1) + PerClientMax - 1)
    BY <1>1, <2>1, <2>2
  <2>6. Windowed(m, c, w, n + 1)
    BY <1>2, <2>2, <2>3, <2>4, <2>5 DEF Windowed
  <2>. QED  BY <2>6 DEF c, m
<1>. QED  BY <1>3, <1>4

(* In a period that reaches to the last request a client was granted what   *)
(* its window and the one before leave it.                                  *)
LEMMA PeriodBounded ==
  ASSUME NEW l \in Log, NEW e \in Entry, NEW w \in Nat, NEW n \in Nat,
         Bounded(l, e.client), Windowed(Append(l, e), e.client, w, n), w <= e.time,
         \A j \in 1..Len(l) : l[j].time <= e.time
  PROVE  Bounded(Append(l, e), e.client)
<1>. USE WebProxyAssumption
<1>. DEFINE c == e.client  u == e.time  m == Append(l, e)
<1>0. u \in Nat /\ m \in Log
  BY Appended DEF Entry
<1>. SUFFICES ASSUME NEW t \in Nat
              PROVE  Cardinality(Between(m, c, t, t + PerClientWindow + 1))
                       < (2 + Cardinality(LostBetween(m, c, t, t + PerClientWindow + 1))) * PerClientMax
  BY DEF Bounded
<1>. DEFINE v == t + PerClientWindow + 1
            B == Between(m, c, t, v)  L == LostBetween(m, c, t, v)
<1>1. v \in Nat /\ Cardinality(B) \in Nat /\ Cardinality(L) \in Nat
  BY <1>0, PartsOfLog, Smaller
<1>2. CASE u < t \/ t + PerClientWindow < u
  <2>1. B = Between(l, c, t, v)
    <3>1. u < t \/ u >= v
      BY <1>0, <1>2
    <3>. HIDE DEF v
    <3>. QED  BY <1>1, <3>1, PartsKept
  <2>2. Cardinality(LostBetween(l, c, t, v)) <= Cardinality(L)
        /\ Cardinality(LostBetween(l, c, t, v)) \in Nat
    <3>1. LostBetween(l, c, t, v) \in SUBSET L
      <4>. HIDE DEF v
      <4>. QED  BY <1>1, PartsAppended
    <3>2. L \in SUBSET (1..Len(m))
      BY <1>0, PartsOfLog
    <3>. QED  BY <1>0, <3>1, <3>2, Smaller
  <2>3. Cardinality(B) < (2 + Cardinality(LostBetween(l, c, t, v))) * PerClientMax
    BY <2>1 DEF Bounded
  <2>4. /\ (2 + Cardinality(LostBetween(l, c, t, v))) * PerClientMax
             = Cardinality(LostBetween(l, c, t, v)) * PerClientMax + 2 * PerClientMax
        /\ (2 + Cardinality(L)) * PerClientMax = Cardinality(L) * PerClientMax + 2 * PerClientMax
        /\ Cardinality(LostBetween(l, c, t, v)) * PerClientMax <= Cardinality(L) * PerClientMax
        /\ Cardinality(LostBetween(l, c, t, v)) * PerClientMax \in Nat
        /\ Cardinality(L) * PerClientMax \in Nat
    BY <1>1, <2>2, Shares
  <2>. DEFINE x == Cardinality(LostBetween(l, c, t, v)) * PerClientMax
              y == Cardinality(L) * PerClientMax  b == Cardinality(B)
  <2>5. b < x + 2 * PerClientMax /\ x <= y /\ x \in Nat /\ y \in Nat /\ b \in Nat
    BY <1>1, <2>3, <2>4
  <2>6. b < y + 2 * PerClientMax
    <3>. HIDE DEF x, y, b
    <3>. QED  BY <2>5
  <2>. QED  BY <2>4, <2>6
<1>3. CASE t <= u /\ u <= t + PerClientWindow
  <2>1. \A j \in 1..Len(m) : m[j].time \in Nat /\ m[j].time < v
    <3>1. \A j \in 1..Len(m) : m[j].time <= u
      <4>1. ASSUME NEW j \in 1..Len(m) PROVE m[j].time <= u
        <5>1. j = Len(l) + 1 \/ j \in 1..Len(l)
          BY Appended
        <5>2. CASE j = Len(l) + 1
          BY <5>2, <1>0, Appended
        <5>3. CASE j \in 1..Len(l)
          BY <5>3, Appended
        <5>. QED  BY <5>1, <5>2, <5>3
      <4>. QED  BY <4>1
    <3>2. \A j \in 1..Len(m) : m[j].time \in Nat
      BY <1>0, Times
    <3>. HIDE DEF m, u
    <3>. QED  BY <1>0, <1>3, <3>1, <3>2
  <2>2. B = Since(m, c, t) /\ L = Lost(m, c, t)
    <3>. HIDE DEF m, u, v, c
    <3>. QED  BY <2>1 DEF Between, Since, Asked, LostBetween, Lost
  <2>3. PICK k \in 1..PerClientMax :
          /\ Granted(m, c, w, k)
          /\ \A i \in Nat : i > w => Granted(m, c, i, k - 1)
          /\ \A i \in Nat : i < w /\ w <= i + PerClientWindow
                            => Granted(m, c, i, k + PerClientMax - 1)
    BY DEF Windowed
  <2>4. Granted(m, c, t, 2 * PerClientMax - 1)
    <3>0. /\ k \in Int /\ k - 1 \in Int /\ k + PerClientMax - 1 \in Int
          /\ 2 * PerClientMax - 1 \in Int
          /\ k <= 2 * PerClientMax - 1 /\ k - 1 <= 2 * PerClientMax - 1
          /\ k + PerClientMax - 1 <= 2 * PerClientMax - 1
      OBVIOUS
    <3>1. CASE t > w
      BY <1>0, <2>3, <3>0, <3>1, GrantedMore
    <3>2. CASE t = w
      BY <1>0, <2>3, <3>0, <3>2, GrantedMore
    <3>3. CASE t < w
      <4>1. w <= t + PerClientWindow
        BY <1>0, <1>3, <3>3
      <4>. QED  BY <1>0, <2>3, <3>0, <3>3, <4>1, GrantedMore
    <3>. QED  BY <3>1, <3>2, <3>3
  <2>. DEFINE y == Cardinality(L) * PerClientMax  b == Cardinality(B)
  <2>5. b <= 2 * PerClientMax - 1 + y
    BY <2>2, <2>4 DEF Granted
  <2>6. y \in Nat /\ (2 + Cardinality(L)) * PerClientMax = y + 2 * PerClientMax
    BY <1>1, Shares
  <2>7. b < y + 2 * PerClientMax
    <3>. HIDE DEF y, b
    <3>1. b \in Nat
      BY <1>1 DEF b
    <3>. QED  BY <2>5, <2>6, <3>1
  <2>. QED  BY <2>6, <2>7
<1>. QED  BY <1>0, <1>2, <1>3

(* The answer to one client takes nothing from another.                     *)
LEMMA Others ==
  ASSUME NEW l \in Log, NEW e \in Entry, NEW c, c # e.client
  PROVE  /\ \A w, n \in Nat : Windowed(l, c, w, n) => Windowed(Append(l, e), c, w, n)
         /\ \A u \in Nat : Rested(l, c, u) => Rested(Append(l, e), c, u)
         /\ Bounded(l, c) => Bounded(Append(l, e), c)
<1>. USE WebProxyAssumption
<1>. DEFINE m == Append(l, e)
<1>0. m \in Log
  BY Appended
<1>1. /\ \A t \in Nat : Since(m, c, t) = Since(l, c, t)
      /\ \A t, u \in Nat : Between(m, c, t, u) = Between(l, c, t, u)
  BY PartsKept
<1>2. \A j \in Since(m, c, 0) : m[j] = l[j]
  <2>1. Since(l, c, 0) \in SUBSET (1..Len(l))
    BY PartsOfLog
  <2>. QED  BY <1>1, <2>1, Appended
<1>3. \A t \in Nat, k \in Int : Granted(l, c, t, k) => Granted(m, c, t, k)
  BY GrantedAppended
<1>4. /\ \A k \in 1..PerClientMax : k \in Int /\ k - 1 \in Int /\ k + PerClientMax - 1 \in Int
      /\ 0 \in Int /\ PerClientMax - 1 \in Int
  OBVIOUS
<1>5. ASSUME Bounded(l, c), NEW t \in Nat
      PROVE  Cardinality(Between(m, c, t, t + PerClientWindow + 1))
               < (2 + Cardinality(LostBetween(m, c, t, t + PerClientWindow + 1))) * PerClientMax
  <2>. DEFINE v == t + PerClientWindow + 1
              x == Cardinality(LostBetween(l, c, t, v))  y == Cardinality(LostBetween(m, c, t, v))
              b == Cardinality(Between(m, c, t, v))
  <2>1. v \in Nat
    OBVIOUS
  <2>2. x <= y /\ x \in Nat /\ y \in Nat
    <3>1. LostBetween(l, c, t, v) \in SUBSET LostBetween(m, c, t, v)
      <4>. HIDE DEF v
      <4>. QED  BY <2>1, PartsAppended
    <3>2. LostBetween(m, c, t, v) \in SUBSET (1..Len(m))
      BY <1>0, PartsOfLog
    <3>. QED  BY <1>0, <3>1, <3>2, Smaller
  <2>3. b < (2 + x) * PerClientMax /\ b \in Nat
    <3>1. Cardinality(Between(l, c, t, v)) < (2 + x) * PerClientMax
      BY <1>5 DEF Bounded
    <3>2. Cardinality(Between(l, c, t, v)) \in Nat
      BY PartsOfLog, Smaller
    <3>. QED  BY <1>1, <2>1, <3>1, <3>2
  <2>. HIDE DEF x, y, b
  <2>4. /\ x * PerClientMax <= y * PerClientMax
        /\ x * PerClientMax \in Nat /\ y * PerClientMax \in Nat
        /\ (2 + x) * PerClientMax = x * PerClientMax + 2 * PerClientMax
        /\ (2 + y) * PerClientMax = y * PerClientMax + 2 * PerClientMax
    BY <2>2, Shares
  <2>5. b < (2 + y) * PerClientMax
    BY <2>3, <2>4
  <2>. QED  BY <2>5 DEF b, y
<1>. HIDE DEF m
<1>6. \A w, n \in Nat : Windowed(l, c, w, n) => Windowed(m, c, w, n)
  BY <1>1, <1>2, <1>3, <1>4 DEF Windowed
<1>7. \A u \in Nat : Rested(l, c, u) => Rested(m, c, u)
  BY <1>1, <1>2, <1>3, <1>4 DEF Rested
<1>8. Bounded(l, c) => Bounded(m, c)
  BY <1>5 DEF Bounded
<1>. QED  BY <1>6, <1>7, <1>8 DEF m

(* Time passes for a client at rest.                                        *)
LEMMA RestsOn ==
  ASSUME NEW l \in Log, NEW c, NEW u \in Nat, Rested(l, c, u)
  PROVE  Rested(l, c, u + 1)
<1>. USE WebProxyAssumption
<1>1. \A j \in Since(l, c, 0) : l[j].time <= u /\ l[j].time \in Nat
  BY Times, PartsOfLog DEF Rested
<1>2. Granted(l, c, u, PerClientMax - 1)
  <2>1. Granted(l, c, u, 0)
    BY DEF Rested
  <2>. QED  BY <2>1, GrantedMore
<1>3. ASSUME NEW t \in Nat, t < u + 1, u + 1 <= t + PerClientWindow
      PROVE  Granted(l, c, t, PerClientMax - 1)
  <2>1. t = u \/ (t < u /\ u <= t + PerClientWindow)
    BY <1>3
  <2>. QED  BY <1>2, <2>1 DEF Rested
<1>4. ASSUME NEW t \in Nat, t >= u + 1
      PROVE  Granted(l, c, t, 0)
  <2>1. t >= u
    BY <1>4
  <2>. QED  BY <2>1 DEF Rested
<1>5. \A j \in Since(l, c, 0) : l[j].time <= u + 1
  BY <1>1
<1>. QED  BY <1>3, <1>4, <1>5 DEF Rested
-----------------------------------------------------------------------------
(* The slot of a client.                                                    *)

(* The 0..t with t in T are finite sets, so one of them contains no other.  *)
LEMMA Least ==
  ASSUME NEW T \in SUBSET Nat, T # {}
  PROVE  \E x \in T : \A y \in T : x <= y
<1>. DEFINE F == {0..t : t \in T}
<1>1. F \subseteq FiniteSubsetsOf(Nat)
  <2>1. ASSUME NEW t \in T
        PROVE  0..t \in FiniteSubsetsOf(Nat)
    <3>1. IsFiniteSet(0..t)
      BY FS_Interval
    <3>2. 0..t \in SUBSET Nat
      OBVIOUS
    <3>. QED  BY <3>1, <3>2 DEF FiniteSubsetsOf
  <2>. QED  BY <2>1
<1>2. PICK m \in F : \A k \in F : ~ (<<k, m>> \in StrictSubsetOrdering(Nat))
  <2>1. F # {}
    OBVIOUS
  <2>. HIDE DEF F
  <2>. QED  BY <1>1, <2>1, WFMin, FS_StrictSubsetOrderingWellFounded
<1>3. PICK x \in T : m = 0..x
  OBVIOUS
<1>4. ASSUME NEW y \in T, y < x
      PROVE  FALSE
  <2>1. 0..y \in F /\ 0..y \subseteq 0..x /\ 0..y # 0..x /\ 0..x \in SUBSET Nat
        /\ 0..y \in SUBSET Nat
    BY <1>4
  <2>. QED  BY <1>2, <1>3, <2>1 DEF StrictSubsetOrdering
<1>. QED  BY <1>4

(* A set of numbers up to N that is not empty has a greatest one.           *)
LEMMA Greatest ==
  ASSUME NEW N \in Nat, NEW T \in SUBSET (1..N), T # {}
  PROVE  \E x \in T : \A y \in T : x >= y
<1>. DEFINE U == {N - x : x \in T}
<1>1. PICK u \in U : \A v \in U : u <= v
  <2>1. \A x \in T : N - x \in Nat
    OBVIOUS
  <2>2. U \in SUBSET Nat /\ U # {}
    BY <2>1
  <2>. HIDE DEF U
  <2>. QED  BY <2>2, Least
<1>2. PICK x \in T : u = N - x
  OBVIOUS
<1>3. ASSUME NEW y \in T
      PROVE  x >= y
  <2>1. N - x <= N - y
    BY <1>1, <1>2
  <2>. QED  BY <2>1
<1>. QED  BY <1>3

LEMMA MinMaxIn ==
  ASSUME NEW T \in SUBSET (1..Slots), T # {}
  PROVE  Min(T) \in T /\ Max(T) \in T
<1>. USE WebProxyAssumption
<1>1. Min(T) \in T
  <2>1. \E x \in T : \A y \in T : x <= y
    BY Least
  <2>. QED  BY <2>1 DEF Min
<1>2. Max(T) \in T
  <2>. DEFINE D == {Slots - t : t \in T}
  <2>1. D \in SUBSET Nat /\ D # {}
    <3>1. \A t \in T : Slots - t \in Nat
      OBVIOUS
    <3>. QED  BY <3>1
  <2>2. PICK d \in D : \A y \in D : d <= y
    BY <2>1, Least
  <2>3. PICK x \in T : d = Slots - x
    OBVIOUS
  <2>4. ASSUME NEW y \in T
        PROVE  x >= y
    <3>1. d <= Slots - y
      BY <2>2
    <3>. QED  BY <2>3, <3>1
  <2>. QED  BY <2>4 DEF Max
<1>. QED  BY <1>1, <1>2

Slot == [key : Client \cup {NoClient}, count : Nat, window_start : Nat]
Table == [1..Slots -> Slot]

(* find_or_alloc_slot always finds a slot, and the client's own if it has   *)
(* one.                                                                     *)
LEMMA SlotIsFound ==
  ASSUME s_clients \in Table, NEW c \in Client
  PROVE  /\ SlotOf(c) \in 1..Slots
         /\ s_clients[SlotOf(c)].key # c => \A s \in 1..Slots : s_clients[s].key # c
         /\ s_clients[SlotOf(c)].key \notin {c, NoClient}
              => \A s \in 1..Slots : s_clients[s].key # NoClient
<1>. USE WebProxyAssumption
<1>. DEFINE mine == {s \in 1..Slots : s_clients[s].key = c}
            free == {s \in 1..Slots : s_clients[s].key = NoClient}
            oldest == {s \in 1..Slots : \A o \in 1..Slots :
                         s_clients[s].window_start <= s_clients[o].window_start}
<1>1. SlotOf(c) = CASE mine # {} -> Min(mine)
                    [] mine = {} /\ free # {} -> Max(free)
                    [] OTHER -> Min(oldest)
  BY DEF SlotOf
<1>2. oldest # {}
  <2>. DEFINE T == {s_clients[s].window_start : s \in 1..Slots}
  <2>1. T \in SUBSET Nat /\ T # {}
    <3>1. \A s \in 1..Slots : s_clients[s].window_start \in Nat
      BY DEF Table, Slot
    <3>2. 1 \in 1..Slots
      OBVIOUS
    <3>. QED  BY <3>1, <3>2
  <2>2. PICK x \in T : \A y \in T : x <= y
    BY <2>1, Least
  <2>. QED  BY <2>2
<1>3. mine \in SUBSET (1..Slots) /\ free \in SUBSET (1..Slots) /\ oldest \in SUBSET (1..Slots)
  OBVIOUS
<1>4. CASE mine # {}
  <2>1. SlotOf(c) \in mine
    <3>. HIDE DEF mine, free, oldest
    <3>. QED  BY <1>1, <1>3, <1>4, MinMaxIn
  <2>. QED  BY <2>1
<1>5. CASE mine = {} /\ free # {}
  <2>1. SlotOf(c) \in free
    <3>. HIDE DEF mine, free, oldest
    <3>. QED  BY <1>1, <1>3, <1>5, MinMaxIn
  <2>. QED  BY <2>1, <1>5
<1>6. CASE mine = {} /\ free = {}
  <2>1. SlotOf(c) \in oldest
    <3>. HIDE DEF mine, free, oldest
    <3>. QED  BY <1>1, <1>2, <1>3, <1>6, MinMaxIn
  <2>. QED  BY <2>1, <1>6
<1>. QED  BY <1>4, <1>5, <1>6
-----------------------------------------------------------------------------
(* The invariant.                                                           *)

Types ==
  /\ TypeOK
  /\ log \in Log /\ Len(log) <= MaxRequests
  /\ at = "idle" => req = NoRequest
  /\ at # "idle" => req \in Request
  /\ Body <= bodies
  /\ at \in {"lookup", "check"} => Len(log) < MaxRequests

\* Nothing lies in the future.
Clock ==
  /\ \A j \in 1..Len(log) : log[j].time <= now
  /\ \A s \in 1..Slots : s_clients[s].window_start <= now

\* A slot counts no more than its client asked since its window began.
Counts ==
  \A s \in 1..Slots : s_clients[s].key \in Client =>
    s_clients[s].count <= Cardinality(Asked(log, s_clients[s].key, s_clients[s].window_start))

\* Until it is admitted a request holds nothing.
Upstream == at \in {"idle", "lookup", "check"} => s_upstream_inflight = 0

Inv == Types /\ Clock /\ Counts /\ Upstream /\ NeverBusy /\ PoliteIsServed

\* Every step but the firewall's and the clock's.
Quiet == UNCHANGED <<now, s_clients, log>>

\* A request the firewall can look at.
Checkable ==
  /\ req \in Request /\ req.client \in Client
  /\ s_clients \in Table /\ now \in Nat /\ log \in Log

LEMMA CheckHasClient == Inv /\ at = "check" => Checkable
<1>. SUFFICES ASSUME Inv, at = "check" PROVE Checkable
  OBVIOUS
<1>1. req \in Request /\ log \in Log
  BY DEF Inv, Types
<1>2. req.client \in Client
  BY <1>1 DEF Request
<1>3. now \in Nat /\ s_clients \in Table
  BY WebProxyAssumption DEF Inv, Types, TypeOK, Table, Slot
<1>. QED  BY <1>1, <1>2, <1>3 DEF Checkable

Answered(c, a) == [client |-> c, time |-> now, answer |-> a, taken |-> Taken(c)]

LEMMA AnEntry ==
  ASSUME now \in Nat, s_clients \in Table, NEW c \in Client \cup {NoClient},
         NEW a \in {"admitted", "limited", "busy"}
  PROVE  /\ Answered(c, a) \in Entry
         /\ Answered(c, a).client = c /\ Answered(c, a).time = now
         /\ Answered(c, a).answer = a /\ Answered(c, a).taken = Taken(c)
<1>1. Taken(c) \in Client \cup {NoClient}
  <2>1. CASE c \in Client
    <3>1. SlotOf(c) \in 1..Slots
      BY <2>1, SlotIsFound
    <3>2. s_clients[SlotOf(c)].key \in Client \cup {NoClient}
      BY <3>1 DEF Table, Slot
    <3>. QED  BY <3>2 DEF Taken
  <2>2. CASE c = NoClient
    BY <2>2 DEF Taken
  <2>. QED  BY <2>1, <2>2
<1>. QED  BY <1>1 DEF Answered, Entry

(* What firewall_check does to a client's slot, and what it answers.        *)
LEMMA CheckStep ==
  ASSUME Inv, Check
  PROVE  LET c == req.client  s == SlotOf(c)  n == Counted(c) IN
         /\ Checkable /\ s \in 1..Slots /\ n \in Slot /\ n.key = c
         /\ s_clients' = [s_clients EXCEPT ![s] = n] /\ now' = now
         /\ \/ n.count > PerClientMax /\ log' = Append(log, Answered(c, "limited"))
            \/ n.count <= PerClientMax /\ log' = Append(log, Answered(c, "admitted"))
         /\ \/ /\ s_clients[s].key = c /\ now - s_clients[s].window_start <= PerClientWindow
               /\ n.count = s_clients[s].count + 1
               /\ n.window_start = s_clients[s].window_start
            \/ /\ n.count = 1 /\ n.window_start = now
               /\ \/ /\ s_clients[s].key = c
                     /\ now - s_clients[s].window_start > PerClientWindow
                  \/ s_clients[s].key # c /\ \A o \in 1..Slots : s_clients[o].key # c
<1>. USE WebProxyAssumption
<1>. DEFINE c == req.client  s == SlotOf(c)  n == Counted(c)
<1>1. Checkable /\ c \in Client
  BY CheckHasClient DEF Check, Checkable
<1>2. s \in 1..Slots /\ (s_clients[s].key # c => \A o \in 1..Slots : s_clients[o].key # c)
  BY <1>1, SlotIsFound DEF Checkable
<1>3. s_clients[s] \in Slot /\ now \in Nat
  BY <1>1, <1>2 DEF Checkable, Table
<1>4. /\ n \in Slot /\ n.key = c
      /\ \/ /\ s_clients[s].key = c /\ now - s_clients[s].window_start <= PerClientWindow
            /\ n.count = s_clients[s].count + 1
            /\ n.window_start = s_clients[s].window_start
         \/ /\ n.count = 1 /\ n.window_start = now
            /\ \/ /\ s_clients[s].key = c
                  /\ now - s_clients[s].window_start > PerClientWindow
               \/ s_clients[s].key # c
  <2>. HIDE DEF c
  <2>1. n = IF s_clients[s].key # c \/ now - s_clients[s].window_start > PerClientWindow
            THEN [key |-> c, count |-> 1, window_start |-> now]
            ELSE [s_clients[s] EXCEPT !.count = @ + 1]
    BY DEF Counted
  <2>. HIDE DEF s, n
  <2>2. CASE s_clients[s].key # c \/ now - s_clients[s].window_start > PerClientWindow
    <3>1. n = [key |-> c, count |-> 1, window_start |-> now]
      BY <2>1, <2>2
    <3>. QED  BY <1>1, <1>3, <2>2, <3>1 DEF Slot
  <2>3. CASE ~ (s_clients[s].key # c \/ now - s_clients[s].window_start > PerClientWindow)
    <3>1. n = [s_clients[s] EXCEPT !.count = @ + 1]
      BY <2>1, <2>3
    <3>2. s_clients[s].window_start \in Nat /\ s_clients[s].count \in Nat
      BY <1>3 DEF Slot
    <3>. QED  BY <1>3, <2>3, <3>1, <3>2 DEF Slot
  <2>. QED  BY <2>2, <2>3
<1>5. s_upstream_inflight = 0
  BY DEF Inv, Upstream, Check
<1>6. s_clients' = [s_clients EXCEPT ![s] = n] /\ now' = now
  BY DEF Check
<1>7. \/ n.count > PerClientMax /\ log' = Append(log, Answered(c, "limited"))
      \/ n.count <= PerClientMax /\ log' = Append(log, Answered(c, "admitted"))
  <2>1. n.count \in Nat
    BY <1>4 DEF Slot
  <2>2. CASE n.count > PerClientMax
    BY <2>2 DEF Check, Answer, Answered
  <2>3. CASE ~ (n.count > PerClientMax)
    <3>1. Cap(c)
      BY <2>3 DEF Check
    <3>2. log' = Append(log, Answered(c, "admitted"))
      BY <1>5, <3>1 DEF Cap, Answer, Answered, MaxUpstream
    <3>. QED  BY <2>1, <2>3, <3>2
  <2>. QED  BY <2>2, <2>3
<1>. HIDE DEF c, s, n
<1>8. /\ Checkable /\ s \in 1..Slots /\ n \in Slot /\ n.key = c
      /\ s_clients' = [s_clients EXCEPT ![s] = n] /\ now' = now
      /\ \/ n.count > PerClientMax /\ log' = Append(log, Answered(c, "limited"))
         \/ n.count <= PerClientMax /\ log' = Append(log, Answered(c, "admitted"))
      /\ \/ /\ s_clients[s].key = c /\ now - s_clients[s].window_start <= PerClientWindow
            /\ n.count = s_clients[s].count + 1
            /\ n.window_start = s_clients[s].window_start
         \/ /\ n.count = 1 /\ n.window_start = now
            /\ \/ /\ s_clients[s].key = c
                  /\ now - s_clients[s].window_start > PerClientWindow
               \/ s_clients[s].key # c /\ \A o \in 1..Slots : s_clients[o].key # c
  BY <1>1, <1>2, <1>4, <1>6, <1>7
<1>. QED  BY <1>8 DEF c, s, n
-----------------------------------------------------------------------------
(* Every step keeps the types.                                              *)

\* The request's own part of Types.
RequestTypes ==
  /\ s_upstream_inflight \in 0..MaxUpstream
  /\ s_cache \in [1..CacheEntries -> Page \cup {NoPage}]
  /\ at \in {"idle", "lookup", "check", "open", "write", "read"}
  /\ req \in Request \cup {NoRequest}
  /\ bodies \in 0..MaxBodies
  /\ at = "idle" => req = NoRequest
  /\ at # "idle" => req \in Request
  /\ Body <= bodies
  /\ at \in {"lookup", "check"} => Len(log) < MaxRequests

\* The firewall's.
FirewallTypes ==
  /\ now \in 0..MaxTime
  /\ s_clients \in [1..Slots -> [key : Client \cup {NoClient}, count : 0..MaxRequests,
                                 window_start : 0..MaxTime]]
  /\ \A s, o \in 1..Slots : s_clients[s].key = s_clients[o].key
                            => s = o \/ s_clients[s].key = NoClient
  /\ log \in Log /\ Len(log) <= MaxRequests

LEMMA TwoParts ==
  (Types <=> RequestTypes /\ FirewallTypes) /\ (Types' <=> RequestTypes' /\ FirewallTypes')
BY DEF Types, TypeOK, RequestTypes, FirewallTypes, Body

LEMMA BodyIsOne == req \in Request \cup {NoRequest} => Body \in {0, 1}
BY DEF Body

LEMMA Returned ==
  ASSUME RequestTypes, NEW n \in {0, Body}, Return(n),
         s_upstream_inflight' \in 0..MaxUpstream,
         s_cache' \in [1..CacheEntries -> Page \cup {NoPage}]
  PROVE  RequestTypes'
<1>. USE WebProxyAssumption
<1>1. Body' = 0
  BY DEF Return, Body, NoRequest
<1>2. bodies' \in 0..MaxBodies
  BY BodyIsOne DEF RequestTypes, Return
<1>. QED  BY <1>1, <1>2 DEF RequestTypes, Return

LEMMA Released ==
  ASSUME s_upstream_inflight \in 0..MaxUpstream, Release
  PROVE  s_upstream_inflight' = 0
BY DEF Release, MaxUpstream

LEMMA GoesTo ==
  ASSUME RequestTypes, at # "idle", at' \in {"check", "open", "write", "read"},
         UNCHANGED <<req, bodies>>, at' = "check" => at = "lookup" /\ log' = log,
         s_upstream_inflight' \in 0..MaxUpstream, UNCHANGED s_cache
  PROVE  RequestTypes'
BY DEF RequestTypes, Body

LEMMA Stored ==
  ASSUME RequestTypes, NEW p \in Page
  PROVE  CacheStore(p) \in [1..CacheEntries -> Page \cup {NoPage}]
BY DEF RequestTypes, CacheStore

LEMMA RequestTypesKept == Inv /\ [Next]_vars => RequestTypes'
<1>. USE WebProxyAssumption
<1>. SUFFICES ASSUME Inv, [Next]_vars PROVE RequestTypes'
  OBVIOUS
<1>0. RequestTypes /\ Inv
  BY TwoParts DEF Inv
<1>. DEFINE C == s_cache' \in [1..CacheEntries -> Page \cup {NoPage}]
<1>1. ASSUME NEW r \in Request, Receive(r) PROVE RequestTypes'
  <2>1. Body' = IF r.body THEN 1 ELSE 0
    BY <1>1 DEF Receive, Body
  <2>2. bodies' \in 0..MaxBodies /\ Body' <= bodies'
    BY <1>0, <1>1, <2>1 DEF Receive, RequestTypes
  <2>. QED  BY <1>0, <1>1, <2>2 DEF Receive, RequestTypes
<1>2. CASE ReceiveFails
  <2>1. Return(Body)
    BY <1>2 DEF ReceiveFails, Body
  <2>. QED  BY <1>0, <1>2, <2>1, Returned DEF ReceiveFails, RequestTypes
<1>3. CASE Lookup
  <2>1. CASE Return(Body)
    BY <1>0, <1>3, <2>1, Returned DEF Lookup, RequestTypes
  <2>2. CASE at' = "check" /\ UNCHANGED <<req, bodies>>
    <3>1. s_upstream_inflight' \in 0..MaxUpstream
      BY <1>0, <1>3 DEF Lookup, RequestTypes
    <3>. QED  BY <1>0, <1>3, <2>2, <3>1, GoesTo DEF Lookup
  <2>. QED  BY <1>3, <2>1, <2>2 DEF Lookup
<1>4. CASE CheckManagement
  <2>1. s_upstream_inflight' \in 0..MaxUpstream
    BY <1>0, <1>4 DEF CheckManagement, RequestTypes
  <2>. QED  BY <1>0, <1>4, <2>1, GoesTo DEF CheckManagement
<1>5. ASSUME NEW c, Cap(c), at = "check", UNCHANGED s_cache PROVE RequestTypes'
  <2>1. s_upstream_inflight = 0
    BY <1>0, <1>5 DEF Inv, Upstream
  <2>2. s_upstream_inflight' = 1 /\ at' = "open" /\ UNCHANGED <<req, bodies>>
    BY <1>5, <2>1 DEF Cap, MaxUpstream
  <2>3. s_upstream_inflight' \in 0..MaxUpstream
    BY <2>2 DEF MaxUpstream
  <2>. QED  BY <1>0, <1>5, <2>2, <2>3, GoesTo
<1>6. CASE Check
  <2>. DEFINE c == req.client
  <2>1. CASE Counted(c).count > PerClientMax
    <3>1. Return(0) /\ UNCHANGED <<s_upstream_inflight, s_cache>>
      BY <1>6, <2>1 DEF Check
    <3>. QED  BY <1>0, <3>1, Returned DEF RequestTypes
  <2>2. CASE ~ (Counted(c).count > PerClientMax)
    <3>1. Cap(c) /\ at = "check" /\ UNCHANGED s_cache
      BY <1>6, <2>2 DEF Check
    <3>. QED  BY <3>1, <1>5
  <2>. QED  BY <2>1, <2>2
<1>7. CASE CheckUnknownPeer
  BY <1>5, <1>7 DEF CheckUnknownPeer
<1>8. CASE Release /\ Return(Body) /\ UNCHANGED s_cache
  BY <1>0, <1>8, Released, Returned DEF RequestTypes, MaxUpstream
<1>9. CASE Open \/ Write
  <2>1. /\ at # "idle" /\ at' \in {"write", "read"}
        /\ UNCHANGED <<s_upstream_inflight, s_cache, req, bodies>>
    BY <1>9 DEF Open, Write
  <2>2. s_upstream_inflight' \in 0..MaxUpstream
    BY <1>0, <2>1 DEF RequestTypes
  <2>. QED  BY <1>0, <2>1, <2>2, GoesTo
<1>10. CASE Reply
  <2>1. C
    BY <1>0, <1>10, Stored DEF Reply, RequestTypes
  <2>. QED  BY <1>0, <1>10, <2>1, Released, Returned DEF Reply, RequestTypes, MaxUpstream
<1>11. CASE Tick \/ UNCHANGED vars
  BY <1>0, <1>11 DEF Tick, vars, RequestTypes, Body
<1>12. OpenFails \/ WriteFails \/ ReadFails => Release /\ Return(Body) /\ UNCHANGED s_cache
  BY DEF OpenFails, WriteFails, ReadFails
<1>. QED  BY <1>1, <1>2, <1>3, <1>4, <1>6, <1>7, <1>8, <1>9, <1>10, <1>11, <1>12
          DEF Next, Handler

LEMMA Steps ==
  [Next]_vars => Quiet \/ Tick \/ Check \/ CheckUnknownPeer
<1>1. ASSUME NEW r \in Request, Receive(r) PROVE Quiet
  BY <1>1 DEF Receive, Quiet
<1>2. ReceiveFails \/ Lookup \/ CheckManagement => Quiet
  BY DEF ReceiveFails, Lookup, CheckManagement, Quiet
<1>3. OpenFails \/ Open \/ WriteFails \/ Write \/ ReadFails \/ Reply => Quiet
  BY DEF OpenFails, Open, WriteFails, Write, ReadFails, Reply, Quiet
<1>4. UNCHANGED vars => Quiet
  BY DEF vars, Quiet
<1>. QED  BY <1>1, <1>2, <1>3, <1>4 DEF Next, Handler

LEMMA UnknownStep ==
  ASSUME Inv, CheckUnknownPeer
  PROVE  /\ Checkable /\ UNCHANGED <<now, s_clients>>
         /\ log' = Append(log, Answered(NoClient, "admitted"))
<1>1. s_upstream_inflight = 0
  BY DEF Inv, Upstream, CheckUnknownPeer
<1>2. log' = Append(log, Answered(NoClient, "admitted"))
  BY <1>1 DEF CheckUnknownPeer, Cap, Answer, Answered, MaxUpstream
<1>. QED  BY <1>2, CheckHasClient DEF CheckUnknownPeer

(* A request that is checked adds one answer to the history.                *)
LEMMA AnswerStep ==
  ASSUME Inv, Check \/ CheckUnknownPeer
  PROVE  \E c \in Client \cup {NoClient}, a \in {"admitted", "limited"} :
           /\ log' = Append(log, Answered(c, a)) /\ now' = now /\ Checkable
           /\ Answered(c, a) \in Entry
           /\ Answered(c, a).client = c /\ Answered(c, a).time = now
           /\ Answered(c, a).answer = a
<1>1. CASE Check
  <2>1. /\ Checkable /\ now' = now
        /\ \/ log' = Append(log, Answered(req.client, "limited"))
           \/ log' = Append(log, Answered(req.client, "admitted"))
    BY <1>1, CheckStep
  <2>2. PICK a \in {"admitted", "limited"} : log' = Append(log, Answered(req.client, a))
    BY <2>1
  <2>3. req.client \in Client /\ now \in Nat /\ s_clients \in Table
    BY <2>1 DEF Checkable
  <2>. QED  BY <2>1, <2>2, <2>3, AnEntry
<1>2. CASE CheckUnknownPeer
  <2>1. Checkable /\ now' = now /\ log' = Append(log, Answered(NoClient, "admitted"))
    BY <1>2, UnknownStep
  <2>2. now \in Nat /\ s_clients \in Table
    BY <2>1 DEF Checkable
  <2>. QED  BY <2>1, <2>2, AnEntry
<1>. QED  BY <1>1, <1>2

(* A request in the history is not counted twice: the slot's count is at    *)
(* most the length of the history.                                          *)
LEMMA CountIsBounded ==
  ASSUME Inv, NEW s \in 1..Slots, s_clients[s].key \in Client
  PROVE  s_clients[s].count <= Len(log)
<1>. DEFINE A == Asked(log, s_clients[s].key, s_clients[s].window_start)
<1>1. s_clients[s].count <= Cardinality(A)
  BY DEF Inv, Counts
<1>2. log \in Log
  BY DEF Inv, Types
<1>3. Cardinality(A) <= Len(log) /\ Cardinality(A) \in Nat
  BY <1>2, PartsOfLog, Parts
<1>4. s_clients[s].count \in Nat /\ Len(log) \in Nat
  <2>1. Len(log) \in Nat
    BY <1>2, LenProperties DEF Log
  <2>2. s_clients[s].count \in 0..MaxRequests
    BY DEF Inv, Types, TypeOK
  <2>. QED  BY <2>1, <2>2
<1>. HIDE DEF A
<1>. QED  BY <1>1, <1>3, <1>4

LEMMA FirewallTypesKept == Inv /\ [Next]_vars => FirewallTypes'
<1>. USE WebProxyAssumption
<1>. SUFFICES ASSUME Inv, [Next]_vars PROVE FirewallTypes'
  OBVIOUS
<1>0. FirewallTypes /\ Inv /\ Len(log) \in Nat
  <2>1. FirewallTypes
    BY TwoParts DEF Inv
  <2>. QED  BY <2>1, LenProperties DEF FirewallTypes, Log
<1>1. CASE Quiet
  BY <1>0, <1>1 DEF Quiet, FirewallTypes
<1>2. CASE Tick
  <2>1. now' \in 0..MaxTime
    BY <1>0, <1>2 DEF Tick, FirewallTypes
  <2>. QED  BY <1>0, <1>2, <2>1 DEF Tick, FirewallTypes
<1>3. CASE Check \/ CheckUnknownPeer
  <2>1. log' \in Log /\ Len(log') <= MaxRequests
    <3>1. PICK e \in Entry : log' = Append(log, e)
      BY <1>3, AnswerStep
    <3>2. Len(log) < MaxRequests /\ log \in Log
      BY <1>3 DEF Inv, Types, Check, CheckUnknownPeer
    <3>. QED  BY <3>1, <3>2, Appended
  <2>2. CASE CheckUnknownPeer
    BY <1>0, <2>1, <2>2, UnknownStep DEF FirewallTypes
  <2>3. CASE Check
    <3>. DEFINE c == req.client  s == SlotOf(c)  n == Counted(c)
    <3>1. s \in 1..Slots /\ s_clients' = [s_clients EXCEPT ![s] = n] /\ now' = now
          /\ c \in Client
      BY <2>3, CheckStep DEF Checkable
    <3>2. n.key = c /\ n \in Slot
      BY <2>3, CheckStep
    <3>3. n.count \in 0..MaxRequests /\ n.window_start \in 0..MaxTime
      <4>1. Len(log) < MaxRequests
        BY <2>3 DEF Inv, Types, Check
      <4>2. CASE s_clients[s].key = c /\ n.count = s_clients[s].count + 1
                 /\ n.window_start = s_clients[s].window_start
        <5>1. s_clients[s].count <= Len(log)
          BY <3>1, <4>2, <1>0, CountIsBounded
        <5>2. s_clients[s].count \in Nat /\ s_clients[s].window_start \in 0..MaxTime
          BY <1>0, <3>1 DEF FirewallTypes
        <5>. HIDE DEF n, s, c
        <5>. QED  BY <1>0, <4>1, <4>2, <5>1, <5>2
      <4>3. CASE n.count = 1 /\ n.window_start = now
        <5>. HIDE DEF n, s, c
        <5>. QED  BY <1>0, <4>1, <4>3 DEF FirewallTypes
      <4>4. \/ s_clients[s].key = c /\ n.count = s_clients[s].count + 1
               /\ n.window_start = s_clients[s].window_start
            \/ n.count = 1 /\ n.window_start = now
        BY <2>3, CheckStep
      <4>. QED  BY <4>2, <4>3, <4>4
    <3>4. s_clients[s].key = c \/ \A o \in 1..Slots : s_clients[o].key # c
      BY <2>3, CheckStep
    <3>. HIDE DEF n, s, c
    <3>5. n \in [key : Client \cup {NoClient}, count : 0..MaxRequests,
                 window_start : 0..MaxTime]
      BY <3>2, <3>3 DEF Slot
    <3>6. \A t \in 1..Slots : s_clients'[t].key = IF t = s THEN c ELSE s_clients[t].key
      BY <1>0, <3>1, <3>2 DEF FirewallTypes
    <3>7. s_clients' \in [1..Slots -> [key : Client \cup {NoClient}, count : 0..MaxRequests,
                                       window_start : 0..MaxTime]]
      BY <1>0, <3>1, <3>5 DEF FirewallTypes
    <3>8. \A t, o \in 1..Slots : s_clients'[t].key = s_clients'[o].key
                                 => t = o \/ s_clients'[t].key = NoClient
      BY <1>0, <3>1, <3>4, <3>6 DEF FirewallTypes
    <3>. QED  BY <1>0, <2>1, <3>1, <3>7, <3>8 DEF FirewallTypes
  <2>. QED  BY <1>3, <2>2, <2>3
<1>. QED  BY <1>1, <1>2, <1>3, Steps

LEMMA TypesKept == Inv /\ [Next]_vars => Types'
BY RequestTypesKept, FirewallTypesKept, TwoParts

LEMMA ClockKept == Inv /\ [Next]_vars => Clock'
<1>. USE WebProxyAssumption
<1>. SUFFICES ASSUME Inv, [Next]_vars PROVE Clock'
  OBVIOUS
<1>0. Clock /\ now \in Nat /\ log \in Log /\ s_clients \in Table
  BY DEF Inv, Types, TypeOK, Table, Slot
<1>1. \A j \in 1..Len(log) : log[j].time \in Nat
  BY <1>0, Times
<1>2. \A s \in 1..Slots : s_clients[s].window_start \in Nat
  BY <1>0 DEF Table, Slot
<1>3. CASE Quiet
  BY <1>0, <1>3 DEF Quiet, Clock
<1>4. CASE Tick
  <2>1. \A k \in Nat : k <= now => k <= now + 1
    BY <1>0
  <2>2. now' = now + 1 /\ log' = log /\ s_clients' = s_clients
    BY <1>4 DEF Tick
  <2>. QED  BY <1>0, <1>1, <1>2, <2>1, <2>2 DEF Clock
<1>5. CASE Check \/ CheckUnknownPeer
  <2>1. PICK e \in Entry : log' = Append(log, e) /\ e.time = now /\ now' = now
    BY <1>5, AnswerStep
  <2>2. \A j \in 1..Len(log') : log'[j].time <= now'
    BY <1>0, <2>1, Appended DEF Clock
  <2>3. \A s \in 1..Slots : s_clients'[s].window_start <= now'
    <3>1. CASE CheckUnknownPeer
      BY <1>0, <3>1, UnknownStep DEF Clock
    <3>2. CASE Check
      <4>. DEFINE s == SlotOf(req.client)  n == Counted(req.client)
      <4>1. s_clients' = [s_clients EXCEPT ![s] = n] /\ s \in 1..Slots
            /\ n.window_start \in {s_clients[s].window_start, now}
        BY <3>2, CheckStep
      <4>. HIDE DEF s, n
      <4>. QED  BY <1>0, <2>1, <4>1 DEF Clock, Table
    <3>. QED  BY <1>5, <3>1, <3>2
  <2>. QED  BY <2>2, <2>3 DEF Clock
<1>. QED  BY <1>3, <1>4, <1>5, Steps

LEMMA AskedGrows ==
  ASSUME NEW l \in Log, NEW e \in Entry, NEW c, NEW t \in Nat
  PROVE  /\ Cardinality(Asked(l, c, t)) \in Nat
         /\ Cardinality(Asked(Append(l, e), c, t)) >= Cardinality(Asked(l, c, t))
         /\ e.client = c /\ e.time >= t =>
              Cardinality(Asked(Append(l, e), c, t)) = Cardinality(Asked(l, c, t)) + 1
<1>. DEFINE A == Asked(l, c, t)
<1>1. Cardinality(A \cup {Len(l) + 1}) = Cardinality(A) + 1 /\ Cardinality(A) \in Nat
  BY OneMore, PartsOfLog
<1>2. Asked(Append(l, e), c, t) = IF e.client = c /\ e.time >= t
                                  THEN A \cup {Len(l) + 1} ELSE A
  BY PartsAppended
<1>. HIDE DEF A
<1>3. CASE e.client = c /\ e.time >= t
  BY <1>1, <1>2, <1>3 DEF A
<1>4. CASE ~ (e.client = c /\ e.time >= t)
  <2>1. Asked(Append(l, e), c, t) = A
    BY <1>2, <1>4
  <2>. QED  BY <1>1, <1>4, <2>1 DEF A
<1>. QED  BY <1>3, <1>4

LEMMA CountsKept == Inv /\ [Next]_vars => Counts'
<1>. USE WebProxyAssumption
<1>. SUFFICES ASSUME Inv, [Next]_vars PROVE Counts'
  OBVIOUS
<1>0. Counts /\ Clock /\ now \in Nat /\ log \in Log /\ s_clients \in Table
  BY DEF Inv, Types, TypeOK, Table, Slot
<1>1. CASE Quiet \/ Tick
  BY <1>0, <1>1 DEF Quiet, Tick, Counts
<1>2. CASE Check \/ CheckUnknownPeer
  <2>1. PICK e \in Entry : log' = Append(log, e)
    BY <1>2, AnswerStep
  <2>2. \A s \in 1..Slots : s_clients[s].window_start \in Nat /\ s_clients[s].count \in Nat
    BY <1>0 DEF Table, Slot
  <2>3. ASSUME NEW s \in 1..Slots, s_clients[s].key \in Client, s_clients'[s] = s_clients[s]
        PROVE  s_clients'[s].count
                 <= Cardinality(Asked(log', s_clients'[s].key, s_clients'[s].window_start))
    <3>. DEFINE k == s_clients[s].key  w == s_clients[s].window_start
    <3>1. s_clients[s].count <= Cardinality(Asked(log, k, w))
      BY <1>0, <2>3 DEF Counts
    <3>2. Cardinality(Asked(log, k, w)) \in Nat
          /\ Cardinality(Asked(log', k, w)) >= Cardinality(Asked(log, k, w))
      BY <1>0, <2>1, <2>2, AskedGrows
    <3>3. Cardinality(Asked(log', k, w)) \in Nat
      <4>1. log' \in Log
        BY <1>0, <2>1, Appended
      <4>. QED  BY <4>1, PartsOfLog, Parts
    <3>. HIDE DEF k, w
    <3>4. s_clients[s].count <= Cardinality(Asked(log', k, w))
      BY <2>2, <3>1, <3>2, <3>3
    <3>. QED  BY <2>3, <3>4 DEF k, w
  <2>4. CASE CheckUnknownPeer
    <3>1. s_clients' = s_clients
      BY <2>4, UnknownStep
    <3>. QED  BY <2>3, <3>1 DEF Counts
  <2>5. CASE Check
    <3>. DEFINE c == req.client  s == SlotOf(c)  n == Counted(c)
    <3>1. s \in 1..Slots /\ s_clients' = [s_clients EXCEPT ![s] = n] /\ n.key = c
          /\ c \in Client /\ n \in Slot
      BY <2>5, CheckStep DEF Checkable
    <3>2. PICK a \in {"admitted", "limited"} : log' = Append(log, Answered(c, a))
      BY <2>5, CheckStep
    <3>3. /\ Answered(c, a) \in Entry /\ Answered(c, a).client = c
          /\ Answered(c, a).time = now
      BY <1>0, <3>1, AnEntry
    <3>4. \/ s_clients[s].key = c /\ n.count = s_clients[s].count + 1
             /\ n.window_start = s_clients[s].window_start
          \/ n.count = 1 /\ n.window_start = now
      BY <2>5, CheckStep
    <3>. HIDE DEF n, s, c
    <3>5. n.window_start \in Nat /\ n.window_start <= now
      BY <1>0, <2>2, <3>1, <3>4 DEF Clock
    <3>6. Cardinality(Asked(log, c, n.window_start)) \in Nat
          /\ Cardinality(Asked(log', c, n.window_start))
               = Cardinality(Asked(log, c, n.window_start)) + 1
      BY <1>0, <3>2, <3>3, <3>5, AskedGrows
    <3>7. n.count <= Cardinality(Asked(log', c, n.window_start))
      <4>1. CASE s_clients[s].key = c /\ n.count = s_clients[s].count + 1
                 /\ n.window_start = s_clients[s].window_start
        <5>1. s_clients[s].count <= Cardinality(Asked(log, c, n.window_start))
          BY <1>0, <3>1, <4>1 DEF Counts
        <5>. QED  BY <2>2, <3>1, <3>6, <4>1, <5>1
      <4>2. CASE n.count = 1 /\ n.window_start = now
        BY <3>6, <4>2
      <4>. QED  BY <3>4, <4>1, <4>2
    <3>8. \A t \in 1..Slots : s_clients'[t] = IF t = s THEN n ELSE s_clients[t]
      BY <1>0, <3>1 DEF Table
    <3>9. ASSUME NEW t \in 1..Slots, s_clients'[t].key \in Client
          PROVE  s_clients'[t].count
                   <= Cardinality(Asked(log', s_clients'[t].key, s_clients'[t].window_start))
      <4>1. CASE t = s
        BY <3>1, <3>7, <3>8, <4>1
      <4>2. CASE t # s
        BY <2>3, <3>8, <3>9, <4>2
      <4>. QED  BY <4>1, <4>2
    <3>. QED  BY <3>9 DEF Counts
  <2>. QED  BY <1>2, <2>4, <2>5
<1>. QED  BY <1>1, <1>2, Steps

LEMMA UpstreamKept == Inv /\ [Next]_vars => Upstream'
<1>. SUFFICES ASSUME Inv, [Next]_vars PROVE Upstream'
  OBVIOUS
<1>0. Upstream /\ s_upstream_inflight \in 0..MaxUpstream
  BY DEF Inv, Types, TypeOK
<1>1. ASSUME NEW r \in Request, Receive(r) PROVE Upstream'
  BY <1>0, <1>1 DEF Receive, Upstream
<1>2. CASE ReceiveFails \/ Lookup
  BY <1>0, <1>2 DEF ReceiveFails, Lookup, Upstream
<1>3. CASE CheckManagement \/ Open \/ Write
  BY <1>3 DEF CheckManagement, Open, Write, Upstream
<1>4. ASSUME at = "check", NEW c, Cap(c) PROVE Upstream'
  BY <1>0, <1>4 DEF Cap, Upstream, MaxUpstream
<1>5. CASE CheckUnknownPeer
  BY <1>4, <1>5 DEF CheckUnknownPeer
<1>6. CASE Check
  <2>1. CASE Counted(req.client).count > PerClientMax
    BY <1>0, <1>6, <2>1 DEF Check, Upstream
  <2>2. CASE ~ (Counted(req.client).count > PerClientMax)
    BY <1>4, <1>6, <2>2 DEF Check
  <2>. QED  BY <2>1, <2>2
<1>7. CASE OpenFails \/ WriteFails \/ ReadFails \/ Reply
  <2>1. Release
    BY <1>7 DEF OpenFails, WriteFails, ReadFails, Reply
  <2>. QED  BY <1>0, <2>1, Released DEF Upstream
<1>8. CASE Tick \/ UNCHANGED vars
  BY <1>0, <1>8 DEF Tick, vars, Upstream
<1>. QED  BY <1>1, <1>2, <1>3, <1>5, <1>6, <1>7, <1>8 DEF Next, Handler

LEMMA NeverBusyKept == Inv /\ [Next]_vars => NeverBusy'
<1>. SUFFICES ASSUME Inv, [Next]_vars PROVE NeverBusy'
  OBVIOUS
<1>0. NeverBusy /\ log \in Log
  BY DEF Inv, Types
<1>1. CASE Quiet \/ Tick
  BY <1>0, <1>1 DEF Quiet, Tick, NeverBusy
<1>2. CASE Check \/ CheckUnknownPeer
  <2>1. PICK e \in Entry : log' = Append(log, e) /\ e.answer # "busy"
    BY <1>2, AnswerStep
  <2>2. \A j \in 1..Len(log') : log'[j].answer # "busy"
    <3>1. \A j \in 1..Len(log) : log[j].answer # "busy"
      BY <1>0, LenProperties DEF NeverBusy, Log
    <3>. QED  BY <1>0, <2>1, <3>1, Appended
  <2>3. DOMAIN log' = 1..Len(log')
    <3>1. log' \in Log
      BY <1>0, <2>1, Appended
    <3>. QED  BY <3>1, LenProperties DEF Log
  <2>. QED  BY <2>2, <2>3 DEF NeverBusy
<1>. QED  BY <1>1, <1>2, Steps

\* What the client of the j-th answer asked in the window that ends with it.
Near(l, j) == {i \in 1..j : l[i].client = l[j].client
                            /\ l[j].time - l[i].time <= PerClientWindow}

Polite(l) == \A j \in DOMAIN l : l[j].answer = "limited" => Cardinality(Near(l, j)) > PerClientMax

LEMMA PoliteRestated == (PoliteIsServed <=> Polite(log)) /\ (PoliteIsServed' <=> Polite(log'))
BY DEF PoliteIsServed, Polite, Near, Within

LEMMA NearKept ==
  ASSUME NEW l \in Log, NEW e \in Entry, NEW j \in 1..Len(l)
  PROVE  Near(Append(l, e), j) = Near(l, j)
<1>1. 1..j \in SUBSET (1..Len(l))
  BY LenProperties DEF Log
<1>. QED  BY <1>1, Appended DEF Near

LEMMA PoliteAppended ==
  ASSUME NEW l \in Log, NEW e \in Entry, Polite(l), NEW w \in Nat,
         e.answer = "limited" =>
           /\ w <= e.time /\ e.time - w <= PerClientWindow
           /\ Cardinality(Asked(l, e.client, w)) + 1 > PerClientMax
  PROVE  Polite(Append(l, e))
<1>. USE WebProxyAssumption
<1>. DEFINE m == Append(l, e)  n == Len(l) + 1  c == e.client
<1>0. /\ m \in Log /\ m[n] = e /\ 1..Len(m) = 1..Len(l) \cup {n} /\ n \in Nat
      /\ Len(m) = n /\ \A j \in 1..Len(l) : m[j] = l[j]
  BY Appended
<1>1. DOMAIN m = 1..Len(m) /\ DOMAIN l = 1..Len(l)
  BY <1>0, LenProperties DEF Log
<1>2. ASSUME NEW j \in 1..Len(l), m[j].answer = "limited"
      PROVE  Cardinality(Near(m, j)) > PerClientMax
  <2>1. Near(m, j) = Near(l, j)
    BY NearKept
  <2>2. Cardinality(Near(l, j)) > PerClientMax
    BY <1>0, <1>1, <1>2 DEF Polite
  <2>. QED  BY <2>1, <2>2
<1>3. ASSUME e.answer = "limited"
      PROVE  Cardinality(Near(m, n)) > PerClientMax
  <2>1. /\ Cardinality(Asked(m, c, w)) = Cardinality(Asked(l, c, w)) + 1
        /\ Cardinality(Asked(l, c, w)) \in Nat
    BY <1>3, AskedGrows
  <2>2. Asked(m, c, w) \in SUBSET Near(m, n)
    <3>1. \A j \in 1..Len(m) : m[j].time \in Nat
      BY <1>0, Times
    <3>2. e.time \in Nat
      BY DEF Entry
    <3>3. \A k \in Nat : k >= w => e.time - k <= PerClientWindow
      BY <1>3, <3>2
    <3>. HIDE DEF m, n
    <3>. QED  BY <1>0, <3>1, <3>3 DEF Asked, Near
  <2>3. Near(m, n) \in SUBSET (1..Len(m))
    BY <1>0 DEF Near
  <2>. HIDE DEF m, n, c
  <2>4. Cardinality(Asked(m, c, w)) <= Cardinality(Near(m, n))
        /\ Cardinality(Near(m, n)) \in Nat
    BY <1>0, <2>2, <2>3, Smaller
  <2>5. Cardinality(Asked(l, c, w)) + 1 > PerClientMax
    BY <1>3 DEF c
  <2>. QED  BY <2>1, <2>4, <2>5
<1>. HIDE DEF m, n
<1>4. Polite(m)
  BY <1>0, <1>1, <1>2, <1>3 DEF Polite
<1>. QED  BY <1>4 DEF m

LEMMA PoliteKept == Inv /\ [Next]_vars => PoliteIsServed'
<1>. USE WebProxyAssumption
<1>. SUFFICES ASSUME Inv, [Next]_vars PROVE Polite(log')
  BY PoliteRestated
<1>0. /\ Polite(log) /\ log \in Log /\ now \in Nat /\ s_clients \in Table
      /\ Counts /\ Clock
  BY PoliteRestated DEF Inv, Types, TypeOK, Table, Slot
<1>1. CASE Quiet \/ Tick
  BY <1>0, <1>1 DEF Quiet, Tick
<1>2. CASE CheckUnknownPeer
  <2>. DEFINE e == Answered(NoClient, "admitted")
  <2>1. log' = Append(log, e) /\ e \in Entry /\ e.answer = "admitted"
    BY <1>0, <1>2, UnknownStep, AnEntry
  <2>. HIDE DEF e
  <2>2. Polite(Append(log, e))
    BY <1>0, <2>1, PoliteAppended
  <2>. QED  BY <2>1, <2>2
<1>3. CASE Check
  <2>. DEFINE c == req.client  s == SlotOf(c)  n == Counted(c)
  <2>1. s \in 1..Slots /\ n.key = c /\ n \in Slot /\ c \in Client
    BY <1>3, CheckStep DEF Checkable
  <2>2. PICK a \in {"admitted", "limited"} :
          log' = Append(log, Answered(c, a)) /\ (a = "limited" => n.count > PerClientMax)
    BY <1>3, CheckStep
  <2>3. /\ Answered(c, a) \in Entry /\ Answered(c, a).client = c
        /\ Answered(c, a).time = now /\ Answered(c, a).answer = a
    BY <1>0, <2>1, AnEntry
  <2>4. \/ /\ s_clients[s].key = c /\ n.count = s_clients[s].count + 1
           /\ now - s_clients[s].window_start <= PerClientWindow
        \/ n.count = 1
    BY <1>3, CheckStep
  <2>. DEFINE w == s_clients[s].window_start
  <2>5. w \in Nat /\ w <= now /\ s_clients[s].count \in Nat
    BY <1>0, <2>1 DEF Table, Slot, Clock
  <2>6. ASSUME a = "limited"
        PROVE  /\ now - w <= PerClientWindow
               /\ Cardinality(Asked(log, c, w)) + 1 > PerClientMax
    <3>1. n.count > PerClientMax
      BY <2>2, <2>6
    <3>2. /\ s_clients[s].key = c /\ n.count = s_clients[s].count + 1
          /\ now - w <= PerClientWindow
      <4>. HIDE DEF n
      <4>. QED  BY <2>4, <3>1
    <3>3. s_clients[s].count <= Cardinality(Asked(log, c, w))
      BY <1>0, <2>1, <3>2 DEF Counts
    <3>4. Cardinality(Asked(log, c, w)) \in Nat
      BY <1>0, PartsOfLog, Parts
    <3>. HIDE DEF c, s, n, w
    <3>. QED  BY <2>5, <3>1, <3>2, <3>3, <3>4
  <2>. HIDE DEF c, s, n, w
  <2>7. Polite(Append(log, Answered(c, a)))
    BY <1>0, <2>3, <2>5, <2>6, PoliteAppended
  <2>. QED  BY <2>2, <2>7
<1>. QED  BY <1>1, <1>2, <1>3, Steps
-----------------------------------------------------------------------------
(* What holds of any clients.                                               *)

LEMMA InitInv == Init => Inv
<1>. USE WebProxyAssumption
<1>. SUFFICES ASSUME Init PROVE Inv
  OBVIOUS
<1>1. log \in Log /\ Len(log) = 0 /\ DOMAIN log = {}
  BY EmptySeq DEF Init, Log
<1>2. FirewallTypes /\ Clock
  BY <1>1 DEF Init, FirewallTypes, Clock
<1>3. RequestTypes
  BY DEF Init, RequestTypes, Body, NoRequest, MaxUpstream
<1>4. Counts /\ Upstream
  BY DEF Init, Counts, Upstream
<1>5. NeverBusy /\ PoliteIsServed
  BY <1>1 DEF NeverBusy, PoliteIsServed
<1>. QED  BY <1>2, <1>3, <1>4, <1>5, TwoParts DEF Inv

LEMMA StepInv == Inv /\ [Next]_vars => Inv'
BY TypesKept, ClockKept, CountsKept, UpstreamKept, NeverBusyKept, PoliteKept DEF Inv

LEMMA Invariance == Spec => []Inv
BY InitInv, StepInv, PTL DEF Spec

(* The slots, the cache, the upstream count and the request keep to their   *)
(* types, no client has two slots, and no more bodies are held than there   *)
(* is room for (firewall.c, web_proxy.c).                                   *)
THEOREM ProxyIsTyped == Spec => []TypeOK
<1>1. Inv => TypeOK
  BY DEF Inv, Types
<1>. QED  BY <1>1, Invariance, PTL

(* The concurrency cap of firewall_check never answers 503: every way out   *)
(* of handle_proxy that the code takes gives the upstream slot back.        *)
THEOREM UpstreamIsFree == Spec => []NeverBusy
<1>1. Inv => NeverBusy
  BY DEF Inv
<1>. QED  BY <1>1, Invariance, PTL

(* firewall_check answers 429 only to a client that asked for more than its *)
(* share within the last window, however many clients there are and         *)
(* whatever slots they took from each other.                                *)
THEOREM PoliteClientIsServed == Spec => []PoliteIsServed
<1>1. Inv => PoliteIsServed
  BY DEF Inv
<1>. QED  BY <1>1, Invariance, PTL
-----------------------------------------------------------------------------
(* The rate limit.                                                          *)

Windows ==
  \A c \in Client :
    /\ Bounded(log, c)
    /\ (\A s \in 1..Slots : s_clients[s].key # c) => Rested(log, c, now)
    /\ \A s \in 1..Slots : s_clients[s].key = c
         => Windowed(log, c, s_clients[s].window_start, s_clients[s].count)

LEMMA InitWindows == Init => Windows
<1>. USE WebProxyAssumption
<1>. SUFFICES ASSUME Init, NEW c \in Client
              PROVE  Bounded(log, c) /\ Rested(log, c, now)
                     /\ \A s \in 1..Slots : s_clients[s].key # c
  BY DEF Windows
<1>1. /\ log \in Log
      /\ \A t, u : /\ Since(log, c, t) = {} /\ Between(log, c, t, u) = {}
                  /\ LostBetween(log, c, t, u) = {}
  <2>1. 1..Len(log) = {} /\ log \in Log
    BY EmptySeq DEF Init, Log
  <2>. QED  BY <2>1, PartsOfLog DEF Between, Since, Asked
<1>2. Cardinality({}) = 0
  BY FS_EmptySet
<1>3. Bounded(log, c)
  <2>1. 0 < (2 + 0) * PerClientMax
    OBVIOUS
  <2>. QED  BY <1>1, <1>2, <2>1 DEF Bounded
<1>4. Rested(log, c, now)
  <2>1. \A t \in Nat, k \in Nat : Granted(log, c, t, k)
    BY <1>1, NoneGranted
  <2>2. PerClientMax - 1 \in Nat /\ 0 \in Nat
    OBVIOUS
  <2>. QED  BY <1>1, <2>1, <2>2 DEF Rested
<1>. QED  BY <1>3, <1>4 DEF Init

(* What another client does may take a client's slot, and nothing else.     *)
LEMMA OtherClients ==
  ASSUME Inv, Windows, Check, NEW k \in Client, k # req.client
  PROVE  /\ Bounded(log', k)
         /\ (\A s \in 1..Slots : s_clients'[s].key # k) => Rested(log', k, now')
         /\ \A s \in 1..Slots : s_clients'[s].key = k
              => Windowed(log', k, s_clients'[s].window_start, s_clients'[s].count)
<1>. USE WebProxyAssumption
<1>. DEFINE c == req.client  s == SlotOf(c)  n == Counted(c)
<1>0. log \in Log /\ now \in Nat /\ s_clients \in Table
  BY DEF Inv, Types, TypeOK, Table, Slot
<1>1. s \in 1..Slots /\ s_clients' = [s_clients EXCEPT ![s] = n] /\ now' = now
      /\ n.key = c
  BY CheckStep
<1>2. PICK a \in {"admitted", "limited"} : log' = Append(log, Answered(c, a))
  BY CheckStep
<1>3. Answered(c, a) \in Entry /\ Answered(c, a).client = c
      /\ Answered(c, a).time = now /\ Answered(c, a).taken = Taken(c)
  <2>1. c \in Client
    BY CheckStep DEF Checkable
  <2>. QED  BY <1>0, <2>1, AnEntry
<1>4. k # Answered(c, a).client
  BY <1>3
<1>11. s_clients[s].key = k /\ now - s_clients[s].window_start <= PerClientWindow
       => Taken(c) = k
  <2>1. c # NoClient /\ k # c
    BY CheckStep DEF Checkable
  <2>. QED  BY <2>1 DEF Taken
<1>12. \A j \in 1..Len(log) : log[j].time <= now
  BY DEF Inv, Clock
<1>13. \A t \in 1..Slots : s_clients[t].window_start <= now
  BY DEF Inv, Clock
<1>. HIDE DEF c, s, n
<1>5. \A t \in 1..Slots : s_clients'[t] = IF t = s THEN n ELSE s_clients[t]
  BY <1>0, <1>1 DEF Table
<1>6. \A t \in 1..Slots : s_clients[t].window_start \in Nat /\ s_clients[t].count \in Nat
  BY <1>0 DEF Table, Slot
<1>7. k # c
  BY DEF c
<1>8. Bounded(log', k)
  BY <1>0, <1>2, <1>3, <1>4, Others DEF Windows
<1>9. ASSUME \A t \in 1..Slots : s_clients'[t].key # k
      PROVE  Rested(log', k, now')
  <2>1. CASE Rested(log, k, now)
    <3>1. Rested(log', k, now)
      BY <1>0, <1>2, <1>3, <1>4, <2>1, Others
    <3>. QED  BY <1>1, <3>1
  <2>2. CASE \A t \in 1..Slots : s_clients[t].key # k
    BY <2>1, <2>2 DEF Windows
  <2>3. CASE s_clients[s].key = k
    <3>. DEFINE w == s_clients[s].window_start  i == s_clients[s].count
    <3>1. Windowed(log, k, w, i) /\ w \in Nat /\ i \in Nat /\ w <= now
      BY <1>1, <1>6, <1>13, <2>3 DEF Windows
    <3>2. CASE now - w > PerClientWindow
      <4>1. Rested(log, k, now)
        BY <1>0, <3>1, <3>2, Expired
      <4>. QED  BY <2>1, <4>1
    <3>3. CASE now - w <= PerClientWindow
      <4>. DEFINE e == Answered(c, a)
      <4>1. e \in Entry /\ e.client # k /\ e.taken = k /\ e.time = now
        BY <1>3, <1>4, <1>11, <2>3, <3>3
      <4>. HIDE DEF e, w, i
      <4>2. Rested(Append(log, e), k, e.time)
        BY <1>0, <1>12, <3>1, <3>3, <4>1, TakenAway
      <4>. QED  BY <1>1, <1>2, <4>1, <4>2 DEF e
    <3>4. now - w > PerClientWindow \/ now - w <= PerClientWindow
      BY <1>0, <3>1
    <3>. QED  BY <3>2, <3>3, <3>4
  <2>. QED  BY <1>5, <1>9, <2>2, <2>3
<1>10. ASSUME NEW t \in 1..Slots, s_clients'[t].key = k
       PROVE  Windowed(log', k, s_clients'[t].window_start, s_clients'[t].count)
  <2>1. t # s
    BY <1>1, <1>5, <1>7, <1>10
  <2>2. s_clients'[t] = s_clients[t]
    BY <1>5, <2>1
  <2>3. Windowed(log, k, s_clients[t].window_start, s_clients[t].count)
    BY <1>10, <2>2 DEF Windows
  <2>4. Windowed(log', k, s_clients[t].window_start, s_clients[t].count)
    BY <1>0, <1>2, <1>3, <1>4, <1>6, <2>3, Others
  <2>. QED  BY <2>2, <2>4
<1>. QED  BY <1>8, <1>9, <1>10

(* The client that asks goes on with its window or begins the next.         *)
LEMMA ThisClient ==
  ASSUME Inv, Windows, Check
  PROVE  LET c == req.client IN
         /\ Bounded(log', c)
         /\ ~ \A s \in 1..Slots : s_clients'[s].key # c
         /\ \A s \in 1..Slots : s_clients'[s].key = c
              => Windowed(log', c, s_clients'[s].window_start, s_clients'[s].count)
<1>. USE WebProxyAssumption
<1>. DEFINE c == req.client  s == SlotOf(c)  n == Counted(c)
<1>0. log \in Log /\ now \in Nat /\ s_clients \in Table
  BY DEF Inv, Types, TypeOK, Table, Slot
<1>1. s \in 1..Slots /\ s_clients' = [s_clients EXCEPT ![s] = n] /\ now' = now
      /\ n.key = c /\ n \in Slot /\ c \in Client
  BY CheckStep DEF Checkable
<1>2. PICK a \in {"admitted", "limited"} :
        log' = Append(log, Answered(c, a)) /\ (a = "admitted" => n.count <= PerClientMax)
  BY CheckStep
<1>. DEFINE e == Answered(c, a)
<1>3. e \in Entry /\ e.client = c /\ e.time = now /\ e.answer = a
  BY <1>0, <1>1, AnEntry
<1>4. \/ /\ s_clients[s].key = c /\ now - s_clients[s].window_start <= PerClientWindow
         /\ n.count = s_clients[s].count + 1
         /\ n.window_start = s_clients[s].window_start
      \/ /\ n.count = 1 /\ n.window_start = now
         /\ \/ /\ s_clients[s].key = c
               /\ now - s_clients[s].window_start > PerClientWindow
            \/ s_clients[s].key # c /\ \A o \in 1..Slots : s_clients[o].key # c
  BY CheckStep
<1>5. \A t \in 1..Slots : /\ s_clients[t].window_start \in Nat /\ s_clients[t].count \in Nat
                          /\ s_clients[t].window_start <= now
  BY <1>0 DEF Table, Slot, Inv, Clock
<1>. HIDE DEF c, s, n, e
<1>6. Windowed(log', c, n.window_start, n.count)
  <2>1. CASE /\ s_clients[s].key = c /\ now - s_clients[s].window_start <= PerClientWindow
             /\ n.count = s_clients[s].count + 1
             /\ n.window_start = s_clients[s].window_start
    <3>. DEFINE w == s_clients[s].window_start  k == s_clients[s].count
    <3>1. Windowed(log, c, w, k)
      BY <1>1, <2>1 DEF Windows
    <3>2. w \in Nat /\ k \in Nat /\ w <= now
      BY <1>1, <1>5
    <3>3. now - w <= PerClientWindow /\ n.count = k + 1 /\ n.window_start = w
      BY <2>1
    <3>. HIDE DEF w, k
    <3>4. Windowed(Append(log, e), c, w, k + 1)
      BY <1>0, <1>2, <1>3, <3>1, <3>2, <3>3, GoesOn
    <3>. QED  BY <1>2, <3>3, <3>4 DEF e
  <2>2. CASE n.count = 1 /\ n.window_start = now /\ Rested(log, c, now)
    <3>1. Windowed(Append(log, e), c, now, 1)
      BY <1>0, <1>3, <2>2, Begins
    <3>. QED  BY <1>2, <2>2, <3>1 DEF e
  <2>3. CASE s_clients[s].key = c /\ now - s_clients[s].window_start > PerClientWindow
    <3>1. Windowed(log, c, s_clients[s].window_start, s_clients[s].count)
      BY <1>1, <2>3 DEF Windows
    <3>2. Rested(log, c, now)
      BY <1>0, <1>1, <1>5, <2>3, <3>1, Expired
    <3>3. n.count = 1 /\ n.window_start = now
      <4>1. now \in Int /\ s_clients[s].window_start \in Int
        BY <1>0, <1>1, <1>5
      <4>. QED  BY <1>4, <2>3, <4>1
    <3>. QED  BY <2>2, <3>2, <3>3
  <2>4. CASE n.count = 1 /\ n.window_start = now /\ \A o \in 1..Slots : s_clients[o].key # c
    BY <1>1, <2>2, <2>4 DEF Windows
  <2>. QED  BY <1>4, <2>1, <2>3, <2>4
<1>7. n.window_start \in Nat /\ n.window_start <= now /\ n.count \in Nat
  BY <1>0, <1>1, <1>4, <1>5
<1>13. \A j \in 1..Len(log) : log[j].time <= e.time
  BY <1>3 DEF Inv, Clock
<1>8. Bounded(log', c)
  <2>1. Bounded(log, c)
    BY <1>1 DEF Windows
  <2>2. Windowed(Append(log, e), c, n.window_start, n.count)
    BY <1>2, <1>6 DEF e
  <2>3. Bounded(Append(log, e), c)
    BY <1>0, <1>3, <1>7, <1>13, <2>1, <2>2, PeriodBounded
  <2>. QED  BY <1>2, <2>3 DEF e
<1>9. \A t \in 1..Slots : s_clients'[t] = IF t = s THEN n ELSE s_clients[t]
  BY <1>0, <1>1 DEF Table
<1>10. ASSUME NEW t \in 1..Slots, s_clients'[t].key = c
       PROVE  t = s
  <2>1. FirewallTypes'
    <3>1. [Next]_vars
      BY DEF Next, Handler
    <3>. QED  BY <3>1, FirewallTypesKept
  <2>2. c # NoClient
    BY <1>1
  <2>. QED  BY <1>1, <1>9, <1>10, <2>1, <2>2 DEF FirewallTypes
<1>11. \A t \in 1..Slots : s_clients'[t].key = c
              => Windowed(log', c, s_clients'[t].window_start, s_clients'[t].count)
  BY <1>6, <1>9, <1>10
<1>12. s_clients'[s].key = c
  BY <1>1, <1>9
<1>. QED  BY <1>1, <1>8, <1>11, <1>12 DEF c

LEMMA WindowsKept == Inv /\ Windows /\ [Next]_vars => Windows'
<1>. USE WebProxyAssumption
<1>. SUFFICES ASSUME Inv, Windows, [Next]_vars
              PROVE  Windows'
  OBVIOUS
<1>0. log \in Log /\ now \in Nat /\ s_clients \in Table
  BY DEF Inv, Types, TypeOK, Table, Slot
<1>1. CASE Quiet
  BY <1>1 DEF Quiet, Windows
<1>2. CASE Tick
  <2>1. now' = now + 1 /\ log' = log /\ s_clients' = s_clients
    BY <1>2 DEF Tick
  <2>2. \A c : Rested(log, c, now) => Rested(log, c, now + 1)
    BY <1>0, RestsOn
  <2>. QED  BY <2>1, <2>2 DEF Windows
<1>3. CASE CheckUnknownPeer
  <2>. DEFINE e == Answered(NoClient, "admitted")
  <2>1. log' = Append(log, e) /\ UNCHANGED <<now, s_clients>> /\ e \in Entry
        /\ e.client = NoClient
    BY <1>0, <1>3, UnknownStep, AnEntry
  <2>. HIDE DEF e
  <2>2. \A s \in 1..Slots : s_clients[s].window_start \in Nat /\ s_clients[s].count \in Nat
    BY DEF Inv, Types, TypeOK
  <2>3. ASSUME NEW c \in Client
        PROVE  /\ Bounded(log, c) => Bounded(log', c)
               /\ Rested(log, c, now) => Rested(log', c, now)
               /\ \A w, n \in Nat : Windowed(log, c, w, n) => Windowed(log', c, w, n)
    <3>1. c # e.client
      BY <2>1
    <3>. QED  BY <1>0, <2>1, <3>1, Others
  <2>. QED  BY <2>1, <2>2, <2>3 DEF Windows
<1>4. CASE Check
  <2>1. ASSUME NEW k \in Client
        PROVE  /\ Bounded(log', k)
               /\ (\A s \in 1..Slots : s_clients'[s].key # k) => Rested(log', k, now')
               /\ \A s \in 1..Slots : s_clients'[s].key = k
                    => Windowed(log', k, s_clients'[s].window_start, s_clients'[s].count)
    <3>1. CASE k = req.client
      BY <1>4, <3>1, ThisClient
    <3>2. CASE k # req.client
      BY <1>4, <3>2, OtherClients
    <3>. QED  BY <3>1, <3>2
  <2>. QED  BY <2>1 DEF Windows
<1>. QED  BY <1>1, <1>2, <1>3, <1>4, Steps

(* What is granted in a period is granted between its ends.                 *)
LEMMA WindowsBoundFlood == Inv /\ Windows => FloodBounded
<1>. USE WebProxyAssumption
<1>. SUFFICES ASSUME Inv, Windows, NEW c \in Client, NEW t \in 0..MaxTime
              PROVE  Cardinality(Admitted(c, t)) < (2 + Cardinality(Robbed(c, t))) * PerClientMax
  BY DEF FloodBounded
<1>. DEFINE u == t + PerClientWindow + 1
<1>1. log \in Log /\ t \in Nat /\ DOMAIN log = 1..Len(log)
  <2>1. log \in Log
    BY DEF Inv, Types
  <2>. QED  BY <2>1, LenProperties DEF Log
<1>2. \A j \in 1..Len(log) :
        log[j].time \in t..(t + PerClientWindow) <=> log[j].time >= t /\ log[j].time < u
  BY <1>1, Times
<1>. HIDE DEF u
<1>3. Admitted(c, t) = Between(log, c, t, u)
  BY <1>1, <1>2 DEF Admitted, During, Between, Since, Asked
<1>4. Robbed(c, t) = LostBetween(log, c, t, u)
  BY <1>1, <1>2 DEF Robbed, During, LostBetween, Lost
<1>5. Cardinality(Between(log, c, t, u)) < (2 + Cardinality(LostBetween(log, c, t, u))) * PerClientMax
  BY <1>1 DEF Windows, Bounded, u
<1>. QED  BY <1>3, <1>4, <1>5

(* The rate limit of firewall_check, for any number of clients, slots,      *)
(* shares and windows: a client within its share is served, and a period as *)
(* long as a window admits less than two shares of a client and one more    *)
(* for each time find_or_alloc_slot took its slot while its window ran.     *)
THEOREM RateIsLimited == Spec => []RateLimit
<1>1. Init => Windows
  BY InitWindows
<1>2. Inv /\ Windows /\ [Next]_vars => Windows'
  BY WindowsKept
<1>3. Inv /\ Windows => RateLimit
  BY WindowsBoundFlood DEF RateLimit, Inv
<1>. QED  BY <1>1, <1>2, <1>3, Invariance, PTL DEF Spec
-----------------------------------------------------------------------------
(* A page on its way to the browser.  Its bytes.                            *)
Sym == Relay!ToSet(Tag) \union {Letter}
Text == Seq(Sym)

\* The tag stands at place i of w; it stands nowhere.
TagAt(w, i) == SubSeq(w, i, i + Len(Tag) - 1) = Tag
Tagless(w) == \A i \in 1..(Len(w) + 1 - Len(Tag)) : ~TagAt(w, i)
Starts(v) == Len(Tag) <= Len(v) /\ TagAt(v, 1)

LEMMA TagFound ==
  ASSUME Relay!RelayAssumption, NEW b \in Text
  PROVE  /\ Relay!TagIn(b) = 0 <=> Tagless(b)
         /\ Relay!TagIn(b) # 0 => /\ Relay!TagIn(b) \in 1..(Len(b) + 1 - Len(Tag))
                                  /\ TagAt(b, Relay!TagIn(b))
<1>. DEFINE found == {i \in 1..(Len(b) + 1 - Len(Tag)) : SubSeq(b, i, i + Len(Tag) - 1) = Tag}
<1>1. Len(b) \in Nat /\ Len(Tag) \in Nat \ {0}
  BY DEF Text, Relay!RelayAssumption
<1>2. found \in SUBSET (1..Len(b)) /\ 0 \notin found
  BY <1>1
<1>3. Relay!TagIn(b) = IF found = {} THEN 0 ELSE Relay!Max(found)
  BY DEF Relay!TagIn
<1>4. found = {} <=> Tagless(b)
  BY DEF Tagless, TagAt
<1>5. found # {} => Relay!Max(found) \in found
  <2>. HIDE DEF found
  <2>1. found # {} => \E x \in found : \A y \in found : x >= y
    BY <1>1, <1>2, Greatest
  <2>. QED  BY <2>1 DEF Relay!Max
<1>. QED  BY <1>2, <1>3, <1>4, <1>5 DEF TagAt

LEMMA Joins ==
  ASSUME NEW a \in Text, NEW b \in Text
  PROVE  a \o b \in Text
BY ConcatProperties DEF Text

LEMMA Assoc ==
  ASSUME NEW a \in Text, NEW b \in Text, NEW c \in Text
  PROVE  (a \o b) \o c = a \o (b \o c)
BY ConcatAssociative DEF Text

LEMMA Regrouped ==
  ASSUME NEW p \in Text, NEW a \in Text, NEW h \in Text, NEW r \in Text
  PROVE  (p \o a) \o (h \o r) = (p \o (a \o h)) \o r
<1>1. p \o a \in Text
  BY Joins
<1>2. (p \o a) \o h = p \o (a \o h)
  BY Assoc
<1>3. (p \o a) \o (h \o r) = ((p \o a) \o h) \o r
  BY <1>1, Assoc
<1>. QED  BY <1>2, <1>3

LEMMA Flushes ==
  ASSUME Relay!RelayAssumption, NEW b \in Text
  PROVE  LET f == Relay!Flushable(b)
         IN  /\ f \in 0..Len(b) /\ Len(b) - f <= STREAM_HOLD
             /\ f # 0 => Len(b) - f = STREAM_HOLD
<1>1. Len(b) \in Nat /\ STREAM_HOLD \in Nat
  BY DEF Text, Relay!RelayAssumption
<1>. QED  BY <1>1 DEF Relay!Flushable

LEMMA Moved ==
  ASSUME NEW S, NEW p \in Seq(S), NEW x \in Seq(S), NEW y \in Seq(S), NEW v \in Seq(S)
  PROVE  p \o (x \o y \o v) = (p \o x) \o y \o v /\ p \o (x \o y \o v) \in Seq(S)
<1>1. x \o y \in Seq(S) /\ x \o y \o v \in Seq(S) /\ p \o (x \o y \o v) \in Seq(S)
  <2>1. x \o y \in Seq(S)
    BY ConcatProperties
  <2>2. x \o y \o v \in Seq(S)
    BY <2>1, ConcatProperties
  <2>. QED  BY <2>1, <2>2, ConcatProperties
<1>2. p \o (x \o y \o v) = (p \o (x \o y)) \o v
  BY <1>1, ConcatAssociative, SMTT(60)
<1>3. p \o (x \o y) = (p \o x) \o y
  BY ConcatAssociative
<1>. QED  BY <1>1, <1>2, <1>3

(* A text is what stands before a place and what stands from it on.         *)
LEMMA Parted ==
  ASSUME NEW b \in Text, NEW i \in 0..Len(b)
  PROVE  /\ Relay!Upto(b, i) \in Text /\ Relay!From(b, i + 1) \in Text
         /\ Len(Relay!Upto(b, i)) = i /\ Len(Relay!From(b, i + 1)) = Len(b) - i
         /\ b = Relay!Upto(b, i) \o Relay!From(b, i + 1)
         /\ \A j \in 1..i : Relay!Upto(b, i)[j] = b[j]
         /\ \A j \in 1..(Len(b) - i) : Relay!From(b, i + 1)[j] = b[i + j]
<1>1. \A j \in 1..Len(b) : b[j] \in Sym
  BY DEF Text
<1>. PICK u, v : u = SubSeq(b, 1, i) /\ v = SubSeq(b, i + 1, Len(b))
  OBVIOUS
<1>2. u \in Text /\ Len(u) = i /\ \A j \in 1..i : u[j] = b[j]
  BY <1>1, SubSeqProperties DEF Text
<1>3. v \in Text /\ Len(v) = Len(b) - i /\ \A j \in 1..(Len(b) - i) : v[j] = b[i + j]
  <2>1. Len(b) \in Nat
    BY DEF Text
  <2>2. \A j \in (i + 1)..Len(b) : b[j] \in Sym
    BY <1>1
  <2>. QED  BY <2>1, <2>2, SubSeqProperties DEF Text
<1>4. b = u \o v
  <2>1. 1 \in 1..(Len(b) + 1) /\ i \in (1 - 1)..Len(b) /\ Len(b) \in i..Len(b)
    BY DEF Text
  <2>2. SubSeq(b, 1, i) \o SubSeq(b, i + 1, Len(b)) = SubSeq(b, 1, Len(b))
    BY <2>1, ConcatAdjacentSubSeq DEF Text
  <2>. QED  BY <2>2, SubSeqFull DEF Text
<1>. QED  BY <1>2, <1>3, <1>4 DEF Relay!Upto, Relay!From

(* The bytes of w from s on, n of them, end at e; what that cut holds.      *)
Spans(w, s, n, e) ==
  /\ w \in Seq(Sym) /\ s \in Nat \ {0} /\ n \in Nat \ {0}
  /\ e = s + n - 1 /\ e <= Len(w)

LEMMA Slice ==
  ASSUME NEW w, NEW s, NEW n, NEW e, Spans(w, s, n, e)
  PROVE  /\ SubSeq(w, s, e) \in Seq(Sym) /\ Len(SubSeq(w, s, e)) = n
         /\ \A k \in 1..n : SubSeq(w, s, e)[k] = w[s + (k - 1)]
<1>1. /\ w \in Seq(Sym) /\ s \in Int /\ e \in Int /\ s <= e /\ e - s + 1 = n
      /\ \A j \in s..e : j \in 1..Len(w)
  BY DEF Spans
<1>2. \A j \in s..e : w[j] \in Sym
  BY <1>1
<1>3. /\ SubSeq(w, s, e) \in Seq(Sym) /\ Len(SubSeq(w, s, e)) = e - s + 1
      /\ \A k \in 1..(e - s + 1) : SubSeq(w, s, e)[k] = w[s + k - 1]
  BY <1>1, <1>2, SubSeqProperties
<1>4. \A k \in 1..n : s + k - 1 = s + (k - 1)
  BY <1>1 DEF Spans
<1>. QED  BY <1>1, <1>3, <1>4

(* Where a tag of u \o v stands that lies in v, or in u.                    *)
LEMMA TagBehind ==
  ASSUME Relay!RelayAssumption, NEW u \in Text, NEW v \in Text, NEW i \in 1..(Len(v) + 1 - Len(Tag))
  PROVE  TagAt(u \o v, Len(u) + i) <=> TagAt(v, i)
<1>1. Len(Tag) \in Nat \ {0} /\ Len(u) \in Nat /\ Len(v) \in Nat
  BY DEF Text, Relay!RelayAssumption
<1>2. PICK w : w = u \o v
  OBVIOUS
<1>3. /\ w \in Seq(Sym) /\ v \in Seq(Sym) /\ Len(w) = Len(u) + Len(v)
      /\ \A j \in 1..(Len(u) + Len(v)) : w[j] = IF j <= Len(u) THEN u[j] ELSE v[j - Len(u)]
  BY <1>2, ConcatProperties DEF Text
<1>4. PICK s \in Nat : s = Len(u) + i
  BY <1>1
<1>5. /\ s # 0 /\ s + Len(Tag) - 1 <= Len(w)
      /\ i \in Nat \ {0} /\ i + Len(Tag) - 1 <= Len(v)
  BY <1>1, <1>3, <1>4
<1>6. ASSUME NEW k \in 0..(Len(Tag) - 1)
      PROVE  w[s + k] = v[i + k]
  <2>1. s + k \in 1..(Len(u) + Len(v)) /\ ~(s + k <= Len(u)) /\ (s + k) - Len(u) = i + k
    BY <1>1, <1>4
  <2>. QED  BY <2>1, <1>3
<1>7. SubSeq(w, s, s + Len(Tag) - 1) = SubSeq(v, i, i + Len(Tag) - 1)
  <2>1. PICK n, e, d : n = Len(Tag) /\ e = s + Len(Tag) - 1 /\ d = i + Len(Tag) - 1
    OBVIOUS
  <2>2. /\ w \in Seq(Sym) /\ v \in Seq(Sym) /\ n \in Nat \ {0} /\ s \in Nat \ {0} /\ i \in Nat \ {0}
    BY <1>1, <1>3, <1>5, <2>1
  <2>3. e = s + n - 1 /\ d = i + n - 1 /\ e <= Len(w) /\ d <= Len(v)
    BY <1>5, <2>1
  <2>4. Spans(w, s, n, e) /\ Spans(v, i, n, d)
    BY <2>2, <2>3 DEF Spans
  <2>5. SubSeq(w, s, e) = SubSeq(v, i, d)
    <3>1. /\ SubSeq(w, s, e) \in Seq(Sym) /\ Len(SubSeq(w, s, e)) = n
          /\ \A k \in 1..n : SubSeq(w, s, e)[k] = w[s + (k - 1)]
      BY <2>4, Slice
    <3>2. /\ SubSeq(v, i, d) \in Seq(Sym) /\ Len(SubSeq(v, i, d)) = n
          /\ \A k \in 1..n : SubSeq(v, i, d)[k] = v[i + (k - 1)]
      BY <2>4, Slice
    <3>3. \A k \in 1..n : w[s + (k - 1)] = v[i + (k - 1)]
      <4>1. \A k \in 1..n : k - 1 \in 0..(n - 1)
        BY <2>2
      <4>. QED  BY <1>6, <2>1, <4>1
    <3>4. PICK x, y : x = SubSeq(w, s, e) /\ y = SubSeq(v, i, d)
      OBVIOUS
    <3>5. /\ x \in Seq(Sym) /\ y \in Seq(Sym) /\ Len(x) = n /\ Len(y) = n
          /\ \A k \in 1..n : x[k] = y[k]
      BY <3>1, <3>2, <3>3, <3>4
    <3>6. x = y
      BY <3>5, <2>2, SeqEqual
    <3>. QED  BY <3>4, <3>6
  <2>. QED  BY <2>1, <2>5
<1>8. TagAt(w, s) <=> TagAt(v, i)
  BY <1>7 DEF TagAt
<1>. QED  BY <1>2, <1>4, <1>8, Zenon

LEMMA TagBefore ==
  ASSUME Relay!RelayAssumption, NEW u \in Text, NEW v \in Text, NEW i \in 1..(Len(u) + 1 - Len(Tag))
  PROVE  TagAt(u \o v, i) <=> TagAt(u, i)
<1>1. Len(Tag) \in Nat \ {0} /\ Len(u) \in Nat /\ Len(v) \in Nat
  BY DEF Text, Relay!RelayAssumption
<1>2. PICK w : w = u \o v
  OBVIOUS
<1>3. /\ w \in Seq(Sym) /\ u \in Seq(Sym) /\ Len(w) = Len(u) + Len(v)
      /\ \A j \in 1..(Len(u) + Len(v)) : w[j] = IF j <= Len(u) THEN u[j] ELSE v[j - Len(u)]
  BY <1>2, ConcatProperties DEF Text
<1>4. i \in Nat \ {0} /\ i + Len(Tag) - 1 <= Len(w) /\ i + Len(Tag) - 1 <= Len(u)
  BY <1>1, <1>3
<1>5. ASSUME NEW k \in 0..(Len(Tag) - 1)
      PROVE  w[i + k] = u[i + k]
  <2>1. i + k \in 1..(Len(u) + Len(v)) /\ i + k <= Len(u)
    BY <1>1
  <2>. QED  BY <2>1, <1>3
<1>6. SubSeq(w, i, i + Len(Tag) - 1) = SubSeq(u, i, i + Len(Tag) - 1)
  <2>1. PICK n, e : n = Len(Tag) /\ e = i + Len(Tag) - 1
    OBVIOUS
  <2>2. /\ w \in Seq(Sym) /\ u \in Seq(Sym) /\ n \in Nat \ {0} /\ i \in Nat \ {0}
    BY <1>1, <1>3, <1>4, <2>1
  <2>3. e = i + n - 1 /\ e <= Len(w) /\ e <= Len(u)
    BY <1>4, <2>1
  <2>4. Spans(w, i, n, e) /\ Spans(u, i, n, e)
    BY <2>2, <2>3 DEF Spans
  <2>5. SubSeq(w, i, e) = SubSeq(u, i, e)
    <3>1. /\ SubSeq(w, i, e) \in Seq(Sym) /\ Len(SubSeq(w, i, e)) = n
          /\ \A k \in 1..n : SubSeq(w, i, e)[k] = w[i + (k - 1)]
      BY <2>4, Slice
    <3>2. /\ SubSeq(u, i, e) \in Seq(Sym) /\ Len(SubSeq(u, i, e)) = n
          /\ \A k \in 1..n : SubSeq(u, i, e)[k] = u[i + (k - 1)]
      BY <2>4, Slice
    <3>3. \A k \in 1..n : w[i + (k - 1)] = u[i + (k - 1)]
      <4>1. \A k \in 1..n : k - 1 \in 0..(n - 1)
        BY <2>2
      <4>. QED  BY <1>5, <2>1, <4>1
    <3>4. PICK x, y : x = SubSeq(w, i, e) /\ y = SubSeq(u, i, e)
      OBVIOUS
    <3>5. /\ x \in Seq(Sym) /\ y \in Seq(Sym) /\ Len(x) = n /\ Len(y) = n
          /\ \A k \in 1..n : x[k] = y[k]
      BY <3>1, <3>2, <3>3, <3>4
    <3>6. x = y
      BY <3>5, <2>2, SeqEqual
    <3>. QED  BY <3>4, <3>6
  <2>. QED  BY <2>1, <2>5
<1>7. TagAt(w, i) <=> TagAt(u, i)
  BY <1>6 DEF TagAt
<1>. QED  BY <1>2, <1>7, Zenon

(* No tag comes to stand across the end of u as long as it is held back     *)
(* that many bytes.                                                         *)
LEMMA NoneAcross ==
  ASSUME Relay!RelayAssumption, NEW u \in Text, NEW a \in Text, NEW h \in Text,
         Tagless(u \o a), Tagless(a \o h), u = <<>> \/ Len(a) >= Len(Tag)
  PROVE  Tagless(u \o (a \o h))
<1>1. /\ Len(Tag) \in Nat \ {0} /\ Len(u) \in Nat /\ Len(a) \in Nat /\ Len(h) \in Nat
      /\ u \o a \in Text /\ a \o h \in Text /\ (u \o a) \o h = u \o (a \o h)
      /\ Len(u \o a) = Len(u) + Len(a) /\ Len(a \o h) = Len(a) + Len(h)
      /\ Len(u \o (a \o h)) = Len(u) + (Len(a) + Len(h))
  <2>1. u \o a \in Text /\ a \o h \in Text
    BY Joins
  <2>2. (u \o a) \o h = u \o (a \o h)
    BY Assoc, Zenon
  <2>3. Len(Tag) \in Nat \ {0} /\ Len(u) \in Nat /\ Len(a) \in Nat /\ Len(h) \in Nat
    BY DEF Text, Relay!RelayAssumption
  <2>4. Len(u \o a) = Len(u) + Len(a) /\ Len(a \o h) = Len(a) + Len(h)
    BY ConcatProperties DEF Text
  <2>5. Len(u \o (a \o h)) = Len(u) + Len(a \o h)
    BY <2>1, ConcatProperties DEF Text
  <2>. QED  BY <2>1, <2>2, <2>3, <2>4, <2>5
<1>. SUFFICES ASSUME NEW i \in 1..(Len(u \o (a \o h)) + 1 - Len(Tag)), TagAt(u \o (a \o h), i)
              PROVE  FALSE
  BY DEF Tagless
<1>2. CASE i > Len(u)
  <2>. PICK j : j = i - Len(u)
    OBVIOUS
  <2>1. j \in 1..(Len(a \o h) + 1 - Len(Tag)) /\ i = Len(u) + j
    BY <1>1, <1>2
  <2>2. TagAt(a \o h, j)
    <3>. PICK b : b = a \o h
      OBVIOUS
    <3>1. b \in Text /\ j \in 1..(Len(b) + 1 - Len(Tag)) /\ TagAt(u \o b, Len(u) + j)
      BY <1>1, <2>1
    <3>. QED  BY <3>1, TagBehind
  <2>. QED  BY <2>1, <2>2 DEF Tagless
<1>3. CASE i <= Len(u)
  <2>1. u # <<>>
    BY <1>3
  <2>2. i \in 1..(Len(u \o a) + 1 - Len(Tag))
    BY <1>1, <1>3, <2>1
  <2>3. TagAt((u \o a) \o h, i) <=> TagAt(u \o a, i)
    BY <1>1, <2>2, TagBefore
  <2>. QED  BY <1>1, <2>2, <2>3 DEF Tagless
<1>. QED  BY <1>1, <1>2, <1>3

(* What stands around a symbol in a sequence.                               *)
LEMMA Around ==
  ASSUME NEW S, NEW u \in Seq(S), NEW v \in Seq(S), NEW x \in S, NEW w, w = u \o <<x>> \o v
  PROVE  /\ w \in Seq(S) /\ Len(w) = Len(u) + 1 + Len(v) /\ w[Len(u) + 1] = x
         /\ SubSeq(w, 1, Len(u)) = u /\ SubSeq(w, Len(u) + 2, Len(w)) = v
<1>. PICK k, l : k = Len(u) /\ l = Len(v)
  OBVIOUS
<1>1. k \in Nat /\ l \in Nat
  OBVIOUS
<1>. PICK y : y = u \o <<x>>
  OBVIOUS
<1>2. y \in Seq(S) /\ Len(y) = k + 1 /\ y[k + 1] = x /\ \A i \in 1..k : y[i] = u[i]
  <2>1. <<x>> \in Seq(S) /\ Len(<<x>>) = 1 /\ <<x>>[1] = x
    OBVIOUS
  <2>2. y \in Seq(S) /\ Len(y) = k + 1
        /\ \A i \in 1..(k + 1) : y[i] = IF i <= k THEN u[i] ELSE <<x>>[i - k]
    BY <2>1, ConcatProperties
  <2>. QED  BY <1>1, <2>1, <2>2
<1>3. /\ w \in Seq(S) /\ Len(w) = k + 1 + l
      /\ \A i \in 1..(k + 1 + l) : w[i] = IF i <= k + 1 THEN y[i] ELSE v[i - (k + 1)]
  BY <1>2, ConcatProperties
<1>4. w[k + 1] = x /\ (\A i \in 1..k : w[i] = u[i]) /\ (\A i \in 1..l : w[k + 2 + i - 1] = v[i])
  BY <1>1, <1>2, <1>3
<1>5. \A i \in 1..(k + 1 + l) : w[i] \in S
  BY <1>3
<1>6. SubSeq(w, 1, k) = u
  <2>. PICK z : z = SubSeq(w, 1, k)
    OBVIOUS
  <2>1. z \in Seq(S) /\ Len(z) = (IF 1 <= k THEN k - 1 + 1 ELSE 0)
        /\ \A i \in 1..(k - 1 + 1) : z[i] = w[1 + i - 1]
    BY <1>1, <1>5, SubSeqProperties
  <2>2. Len(z) = k /\ \A i \in 1..k : z[i] = u[i]
    BY <1>1, <1>4, <2>1
  <2>. QED  BY <2>1, <2>2, SeqEqual
<1>7. SubSeq(w, k + 2, k + 1 + l) = v
  <2>. PICK z, a, e : z = SubSeq(w, a, e) /\ a = k + 2 /\ e = k + 1 + l
    OBVIOUS
  <2>1. a \in Int /\ e \in Int /\ (\A i \in a..e : w[i] \in S) /\ e - a + 1 = l
    BY <1>1, <1>5
  <2>2. z \in Seq(S) /\ Len(z) = (IF a <= e THEN e - a + 1 ELSE 0)
        /\ \A i \in 1..(e - a + 1) : z[i] = w[a + i - 1]
    BY <2>1, SubSeqProperties
  <2>3. Len(z) = l /\ \A i \in 1..l : z[i] = v[i]
    BY <1>1, <1>4, <2>1, <2>2
  <2>. QED  BY <2>2, <2>3, SeqEqual
<1>. QED  BY <1>3, <1>4, <1>6, <1>7

(* The beginning of a sequence.                                             *)
LEMMA Front ==
  ASSUME NEW S, NEW p \in Seq(S), NEW r \in Seq(S)
  PROVE  Relay!IsPrefix(p, p \o r)
<1>. PICK w, n, z : w = p \o r /\ n = Len(p) /\ z = SubSeq(w, 1, n)
  OBVIOUS
<1>1. /\ w \in Seq(S) /\ n \in Nat /\ n <= Len(w) /\ Len(w) \in Nat
      /\ \A i \in 1..n : w[i] = p[i] /\ w[i] \in S
  <2>1. w \in Seq(S) /\ Len(w) = Len(p) + Len(r)
        /\ \A i \in 1..(Len(p) + Len(r)) : w[i] = IF i <= Len(p) THEN p[i] ELSE r[i - Len(p)]
    BY ConcatProperties
  <2>. QED  BY <2>1
<1>2. z \in Seq(S) /\ Len(z) = (IF 1 <= n THEN n - 1 + 1 ELSE 0)
      /\ \A i \in 1..(n - 1 + 1) : z[i] = w[1 + i - 1]
  BY <1>1, SubSeqProperties
<1>3. Len(z) = n /\ \A i \in 1..n : z[i] = p[i]
  BY <1>1, <1>2
<1>4. z = p
  BY <1>2, <1>3, SeqEqual
<1>. QED  BY <1>1, <1>4, SubSeqFull DEF Relay!IsPrefix

(* A page as the browser may be given it: w is the beginning of pg, whole   *)
(* unless brk, with the snippet in front of a tag or, if there is none,     *)
(* behind it.                                                               *)
Good(w, pg, brk) ==
  \E i \in DOMAIN w :
    LET plain == Relay!Upto(w, i - 1) \o Relay!From(w, i + 1)
    IN  /\ w[i] = Snippet
        /\ Relay!IsPrefix(plain, pg)
        /\ ~brk => plain = pg
        /\ IF Relay!TagIn(plain) = 0 THEN i = Len(w)
                                     ELSE Relay!IsPrefix(Tag, Relay!From(w, i + 1))

LEMMA IsGood ==
  ASSUME Relay!RelayAssumption, NEW u \in Text, NEW v \in Text, NEW r \in Text,
         NEW brk, ~brk => r = <<>>, Starts(v) \/ (v = <<>> /\ Tagless(u))
  PROVE  Good(u \o <<Snippet>> \o v, (u \o v) \o r, brk)
<1>. PICK w, pg, i, A : w = u \o <<Snippet>> \o v /\ pg = (u \o v) \o r /\ i = Len(u) + 1
                        /\ A = Sym \union {Snippet}
  OBVIOUS
<1>1. /\ u \in Seq(A) /\ v \in Seq(A) /\ Snippet \in A
      /\ Len(u) \in Nat /\ Len(v) \in Nat /\ Len(Tag) \in Nat \ {0}
      /\ u \o v \in Text
  BY SeqMonotonic, ConcatProperties DEF Text, Relay!RelayAssumption
<1>2. /\ w \in Seq(A) /\ Len(w) = Len(u) + 1 + Len(v) /\ w[Len(u) + 1] = Snippet
      /\ SubSeq(w, 1, Len(u)) = u /\ SubSeq(w, Len(u) + 2, Len(w)) = v
  BY <1>1, Around
<1>3. i \in DOMAIN w /\ w[i] = Snippet /\ i - 1 = Len(u) /\ i + 1 = Len(u) + 2
  <2>1. DOMAIN w = 1..Len(w) /\ i \in 1..Len(w)
    BY <1>1, <1>2
  <2>. QED  BY <1>1, <1>2, <2>1
<1>4. Relay!Upto(w, i - 1) = u /\ Relay!From(w, i + 1) = v
  BY <1>2, <1>3 DEF Relay!Upto, Relay!From
<1>5. Relay!IsPrefix(u \o v, pg) /\ (~brk => u \o v = pg)
  BY <1>1, Front, ConcatEmptySeq DEF Text
<1>6. IF Relay!TagIn(u \o v) = 0 THEN i = Len(w) ELSE Relay!IsPrefix(Tag, v)
  <2>1. CASE v = <<>> /\ Tagless(u)
    <3>1. u \o v = u
      BY <2>1, ConcatEmptySeq DEF Text
    <3>2. Relay!TagIn(u) = 0
      BY <2>1, TagFound
    <3>. QED  BY <1>1, <1>2, <2>1, <3>1, <3>2
  <2>2. CASE Starts(v)
    <3>1. SubSeq(v, 1, Len(Tag)) = Tag /\ Len(Tag) <= Len(v)
      <4>1. 1 + Len(Tag) - 1 = Len(Tag)
        BY <1>1
      <4>. QED  BY <2>2, <4>1 DEF Starts, TagAt
    <3>2. Tag \in Seq(Sym)
      <4>. PICK n : n = Len(Tag)
        OBVIOUS
      <4>1. n \in Int /\ \A j \in 1..n : v[j] \in Sym
        BY <1>1, <3>1 DEF Text
      <4>2. SubSeq(v, 1, n) \in Seq(Sym)
        BY <4>1, SubSeqProperties
      <4>. QED  BY <3>1, <4>2
    <3>3. Relay!IsPrefix(Tag, v)
      BY <3>1, <3>2, SubSeqFull DEF Relay!IsPrefix
    <3>4. ~Tagless(u \o v)
      <4>1. Len(u \o v) = Len(u) + Len(v)
        BY ConcatProperties DEF Text
      <4>2. 1 \in 1..(Len(v) + 1 - Len(Tag)) /\ Len(u) + 1 \in 1..(Len(u \o v) + 1 - Len(Tag))
        BY <1>1, <3>1, <4>1
      <4>3. TagAt(u \o v, Len(u) + 1)
        BY <2>2, <4>2, TagBehind DEF Starts
      <4>. QED  BY <4>2, <4>3 DEF Tagless
    <3>. QED  BY <1>1, <3>3, <3>4, TagFound
  <2>. QED  BY <2>1, <2>2
<1>. QED  BY <1>3, <1>4, <1>5, <1>6 DEF Good

-----------------------------------------------------------------------------
(* The page in transit.  With the snippet not sent, the browser's part, what *)
(* is held back and the rest are the page, and no tag was seen; once it is   *)
(* sent, a tag is behind it.                                                 *)
Searching ==
  /\ browser \in Text /\ page = (browser \o acc) \o radio
  /\ Tagless(browser \o acc)
  /\ browser = <<>> \/ Len(acc) = STREAM_HOLD

Found ==
  /\ acc = <<>>
  /\ \E u, v \in Text : /\ browser = u \o <<Snippet>> \o v
                        /\ page = (u \o v) \o radio
                        /\ Starts(v)

Streaming == IF injected THEN Found ELSE Searching
Buffering == browser = <<>> /\ page = acc \o radio

RelayInv ==
  /\ Relay!TypeOK
  /\ Len(page) <= MaxPage /\ bufcaps \in Nat
  /\ relay = "stream" => Streaming
  /\ relay = "buffer" => Buffering
  /\ relay = "ok" /\ memory => Good(browser, page, broken)

Typed ==
    /\ relay \in {"stream", "buffer", "ok", "502"}
    /\ page \in Text /\ radio \in Text /\ acc \in Text
    /\ browser \in Seq(Sym \union {Snippet})
    /\ injected \in BOOLEAN /\ broken \in BOOLEAN /\ memory \in BOOLEAN
    /\ Len(acc) <= IF relay = "stream" THEN STREAM_HOLD ELSE HTML_BUF_CAP + MaxPage

LEMMA RelayTypes ==
  (Relay!TypeOK <=> Typed) /\ (Relay!TypeOK' <=> Typed')
<1>1. Sym \union {Snippet} = Relay!ToSet(Tag) \union {Letter, Snippet}
  BY DEF Sym
<1>2. Relay!TypeOK <=> Typed
  BY <1>1 DEF Relay!TypeOK, Typed, Sym, Text
<1>3. Relay!TypeOK' <=> Typed'
  BY <1>1 DEF Relay!TypeOK, Typed, Sym, Text
<1>. QED  BY <1>2, <1>3

LEMMA RelayInit ==
  ASSUME Relay!RelayAssumption, Relay!Init
  PROVE  RelayInv
<1>1. PICK n \in 0..MaxPage : page \in [1..n -> Sym]
  BY DEF Relay!Init, Sym
<1>2. page \in Text /\ Len(page) = n /\ MaxPage \in Nat /\ Len(Tag) \in Nat \ {0}
      /\ STREAM_HOLD \in Nat /\ HTML_BUF_CAP \in Nat
  BY <1>1, SeqDef DEF Text, Relay!RelayAssumption
<1>3. /\ relay \in {"stream", "buffer"} /\ radio = page /\ acc = <<>> /\ browser = <<>>
      /\ memory = TRUE /\ broken = FALSE /\ injected = FALSE
  BY DEF Relay!Init
<1>4. <<>> \in Text /\ <<>> \in Seq(Sym \union {Snippet}) /\ Len(<<>>) = 0 /\ <<>> \o page = page
      /\ <<>> \o <<>> = <<>>
  BY <1>2, EmptySeq, ConcatEmptySeq DEF Text
<1>5. Relay!TypeOK
  <2>1. injected \in BOOLEAN /\ broken \in BOOLEAN /\ memory \in BOOLEAN
    BY <1>3, Zenon
  <2>2. relay \in {"stream", "buffer", "ok", "502"}
    BY <1>3
  <2>3. Len(acc) <= IF relay = "stream" THEN STREAM_HOLD ELSE HTML_BUF_CAP + MaxPage
    BY <1>2, <1>3, <1>4
  <2>4. page \in Text /\ radio \in Text /\ acc \in Text /\ browser \in Seq(Sym \union {Snippet})
    BY <1>2, <1>3, <1>4
  <2>. QED  BY <2>1, <2>2, <2>3, <2>4, RelayTypes DEF Typed
<1>6. Tagless(<<>>)
  BY <1>2, <1>4 DEF Tagless
<1>7. bufcaps \in Nat
  BY <1>2 DEF Relay!Init, Relay!RelayAssumption
<1>. QED  BY <1>2, <1>3, <1>4, <1>5, <1>6, <1>7
          DEF RelayInv, Streaming, Searching, Buffering

(* A piece of n bytes from the radio.                                       *)
LEMMA APiece ==
  ASSUME RelayInv, NEW n \in 1..Len(radio)
  PROVE  \E h, r \in Text : /\ h = Relay!Upto(radio, n) /\ r = Relay!From(radio, n + 1)
                           /\ radio = h \o r /\ h # <<>> /\ Len(h) = n
<1>1. radio \in Text /\ n \in 0..Len(radio) /\ n # 0
  BY RelayTypes DEF RelayInv, Typed
<1>2. Len(Relay!Upto(radio, n)) = n
  BY <1>1, Parted
<1>3. Relay!Upto(radio, n) # <<>>
  BY <1>1, <1>2
<1>. QED  BY <1>1, <1>2, <1>3, Parted

LEMMA HeldBack ==
  ASSUME browser \in Text, acc \in Text, NEW h \in Text, NEW r \in Text
  PROVE  (browser \o acc) \o (h \o r) = (browser \o (acc \o h)) \o r
BY Regrouped, SMTT(60)

LEMMA InRoom ==
  ASSUME NEW l \in Nat, NEW t \in Nat \ {0}, NEW k \in 1..(l + 1 - t), NEW i, i = k - 1
  PROVE  i \in 0..l /\ i + 1 \in 1..(l + 1 - t)
OBVIOUS

LEMMA RelayStreamRead ==
  ASSUME Relay!RelayAssumption, RelayInv, Relay!StreamRead
  PROVE  RelayInv'
<1>1. /\ page \in Text /\ radio \in Text /\ acc \in Text
      /\ browser \in Seq(Sym \union {Snippet})
      /\ injected \in BOOLEAN /\ broken \in BOOLEAN /\ memory \in BOOLEAN
      /\ Len(acc) <= STREAM_HOLD /\ relay = "stream"
  BY RelayTypes DEF RelayInv, Typed, Relay!StreamRead
<1>2. /\ Len(Tag) \in Nat \ {0} /\ STREAM_HOLD \in Nat /\ Len(Tag) <= STREAM_HOLD
      /\ PROXY_CHUNK_SZ \in Nat \ {0}
  BY DEF Relay!RelayAssumption
<1>0. PICK n \in Relay!Reads(STREAM_HOLD + PROXY_CHUNK_SZ - Len(acc)) :
       LET b == acc \o Relay!Upto(radio, n) IN
       /\ radio' = Relay!From(radio, n + 1)
       /\ IF injected \/ Relay!TagIn(b) # 0
          THEN /\ browser' = browser \o IF injected THEN b ELSE Relay!WithSnippet(b)
               /\ acc' = <<>>
               /\ injected' = TRUE
          ELSE /\ browser' = browser \o Relay!Upto(b, Relay!Flushable(b))
               /\ acc' = Relay!From(b, Relay!Flushable(b) + 1)
               /\ UNCHANGED injected
  BY DEF Relay!StreamRead
<1>3. n \in 1..Len(radio)
  <2>. PICK m : m = Relay!Least(STREAM_HOLD + PROXY_CHUNK_SZ - Len(acc), PROXY_CHUNK_SZ)
    OBVIOUS
  <2>1. m \in Int
    BY <1>1, <1>2 DEF Text, Relay!Least
  <2>. QED  BY <1>1, <2>1 DEF Relay!Reads, Text
<1>4. PICK h, r \in Text : /\ h = Relay!Upto(radio, n) /\ r = Relay!From(radio, n + 1)
                          /\ radio = h \o r /\ h # <<>> /\ Len(h) = n
  BY <1>3, APiece
<1>9. PICK b : b = acc \o h
  OBVIOUS
<1>5. b \in Text /\ Len(b) = Len(acc) + n /\ radio' = r
      /\ UNCHANGED <<page, relay, bufcaps, broken, memory>>
  BY <1>0, <1>1, <1>4, <1>9, ConcatProperties DEF Text, Relay!StreamRead
<1>6. CASE injected
  <2>1. acc = <<>> /\ b = h
    BY <1>1, <1>4, <1>6, <1>9, ConcatEmptySeq DEF RelayInv, Streaming, Found, Text
  <2>2. PICK u, v \in Text : /\ browser = u \o <<Snippet>> \o v
                            /\ page = (u \o v) \o radio /\ Starts(v)
    BY <1>1, <1>6 DEF RelayInv, Streaming, Found
  <2>3. browser' = browser \o h /\ acc' = <<>> /\ injected' = TRUE
    BY <1>0, <1>4, <1>6, <1>9, <2>1
  <2>4. v \o h \in Text /\ Starts(v \o h)
    <3>1. v \o h \in Text /\ Len(v \o h) = Len(v) + Len(h) /\ Len(v) \in Nat /\ Len(h) \in Nat
      BY ConcatProperties DEF Text
    <3>2. TagAt(v \o h, 1) <=> TagAt(v, 1)
      <4>1. 1 \in 1..(Len(v) + 1 - Len(Tag))
        BY <1>2, <2>2, <3>1 DEF Starts
      <4>. QED  BY <4>1, TagBefore
    <3>. QED  BY <1>2, <2>2, <3>1, <3>2 DEF Starts
  <2>. PICK A : A = Sym \union {Snippet}
    OBVIOUS
  <2>5. u \in Seq(A) /\ v \in Seq(A) /\ h \in Seq(A) /\ <<Snippet>> \in Seq(A)
    BY SeqMonotonic DEF Text
  <2>6. browser' = u \o <<Snippet>> \o (v \o h)
    <3>1. u \o <<Snippet>> \in Seq(A)
      BY <2>5, ConcatProperties
    <3>2. (u \o <<Snippet>> \o v) \o h = u \o <<Snippet>> \o (v \o h)
      BY <2>5, <3>1, ConcatAssociative, SMTT(60)
    <3>. QED  BY <2>2, <2>3, <3>2
  <2>7. page' = (u \o (v \o h)) \o r
    <3>1. (u \o v) \o (h \o r) = (u \o (v \o h)) \o r
      BY Regrouped, SMTT(60)
    <3>. QED  BY <1>4, <1>5, <2>2, <3>1
  <2>8. browser' \in Seq(A)
    BY <1>1, <2>3, <2>5, ConcatProperties
  <2>9. Relay!TypeOK'
    <3>1. injected' \in BOOLEAN /\ broken' \in BOOLEAN /\ memory' \in BOOLEAN
      BY <1>1, <1>5, <2>3, Zenon
    <3>2. Len(acc') <= STREAM_HOLD /\ acc' \in Text /\ relay' = "stream"
      BY <1>1, <1>2, <1>5, <2>3, EmptySeq DEF Text
    <3>3. page' \in Text /\ radio' \in Text /\ relay' \in {"stream", "buffer", "ok", "502"}
      BY <1>1, <1>5
    <3>. QED  BY <2>8, <3>1, <3>2, <3>3, RelayTypes DEF Typed
  <2>10. Found'
    BY <1>5, <2>3, <2>4, <2>6, <2>7 DEF Found
  <2>. QED  BY <1>1, <1>5, <2>3, <2>9, <2>10 DEF RelayInv, Streaming
<1>7. CASE ~injected /\ Relay!TagIn(b) # 0
  <2>14. PICK i : i = Relay!TagIn(b) - 1
    OBVIOUS
  <2>1. Relay!TagIn(b) = i + 1 /\ i \in 0..Len(b) /\ i + 1 \in 1..(Len(b) + 1 - Len(Tag)) /\ TagAt(b, i + 1)
    <3>1. Relay!TagIn(b) \in 1..(Len(b) + 1 - Len(Tag)) /\ TagAt(b, Relay!TagIn(b))
      BY <1>5, <1>7, TagFound
    <3>2. Len(b) \in Nat
      BY <1>5 DEF Text
    <3>3. Relay!TagIn(b) = i + 1
      BY <1>2, <2>14, <3>1, <3>2
    <3>4. i \in 0..Len(b) /\ i + 1 \in 1..(Len(b) + 1 - Len(Tag))
      BY <1>2, <2>14, <3>1, <3>2, InRoom
    <3>. QED  BY <3>1, <3>3, <3>4
  <2>15. PICK x, v : x = Relay!Upto(b, i) /\ v = Relay!From(b, i + 1)
    OBVIOUS
  <2>2. /\ x \in Text /\ v \in Text /\ Len(x) = i /\ Len(v) = Len(b) - i /\ b = x \o v
    BY <1>5, <2>1, <2>15, Parted
  <2>3. browser' = browser \o (x \o <<Snippet>> \o v) /\ acc' = <<>> /\ injected' = TRUE
    <3>1. i + 1 - 1 = i /\ i + 1 # 0
      BY <2>1
    <3>2. Relay!WithSnippet(b) = x \o <<Snippet>> \o v
      BY <2>1, <2>15, <3>1 DEF Relay!WithSnippet
    <3>. QED  BY <1>0, <1>4, <1>7, <1>9, <3>2
  <2>4. page = (browser \o acc) \o radio
    BY <1>1, <1>7 DEF RelayInv, Streaming, Searching
  <2>11. browser \in Text
    BY <1>1, <1>7 DEF RelayInv, Streaming, Searching
  <2>12. acc \in Text
    BY <1>1
  <2>5. Starts(v)
    <3>1. 1 \in 1..(Len(v) + 1 - Len(Tag)) /\ Len(Tag) <= Len(v)
      BY <1>2, <1>5, <2>1, <2>2 DEF Text
    <3>2. TagAt(x \o v, Len(x) + 1) <=> TagAt(v, 1)
      BY <2>2, <3>1, TagBehind
    <3>. QED  BY <2>1, <2>2, <3>1, <3>2 DEF Starts
  <2>16. PICK A : A = Sym \union {Snippet}
    OBVIOUS
  <2>13. x \in Text /\ v \in Text
    BY <2>2
  <2>6. browser \in Seq(A) /\ x \in Seq(A) /\ v \in Seq(A) /\ <<Snippet>> \in Seq(A)
    BY <1>1, <2>2, <2>16, SeqMonotonic DEF Text
  <2>7. browser' = (browser \o x) \o <<Snippet>> \o v /\ browser' \in Seq(A)
    <3>1. /\ browser \o (x \o <<Snippet>> \o v) = (browser \o x) \o <<Snippet>> \o v
          /\ browser \o (x \o <<Snippet>> \o v) \in Seq(A)
      BY <2>6, Moved
    <3>. QED  BY <2>3, <3>1
  <2>8. page' = ((browser \o x) \o v) \o r /\ browser \o x \in Text
    <3>1. (browser \o acc) \o (h \o r) = (browser \o (acc \o h)) \o r
      BY <2>11, <2>12, HeldBack
    <3>2. browser \o (x \o v) = (browser \o x) \o v
      BY <2>11, <2>13, Assoc
    <3>3. browser \o x \in Text
      BY <2>11, <2>13, Joins
    <3>. QED  BY <1>4, <1>5, <1>9, <2>2, <2>4, <3>1, <3>2, <3>3
  <2>9. Relay!TypeOK'
    <3>1. injected' \in BOOLEAN /\ broken' \in BOOLEAN /\ memory' \in BOOLEAN
      BY <1>1, <1>5, <2>3, Zenon
    <3>2. Len(acc') <= STREAM_HOLD /\ acc' \in Text /\ relay' = "stream"
      BY <1>1, <1>2, <1>5, <2>3, EmptySeq DEF Text
    <3>3. page' \in Text /\ radio' \in Text /\ relay' \in {"stream", "buffer", "ok", "502"}
      BY <1>1, <1>5
    <3>. QED  BY <2>7, <2>16, <3>1, <3>2, <3>3, RelayTypes DEF Typed
  <2>10. Found'
    BY <1>5, <2>2, <2>3, <2>5, <2>7, <2>8 DEF Found
  <2>. QED  BY <1>1, <1>5, <2>3, <2>9, <2>10 DEF RelayInv, Streaming
<1>8. CASE ~injected /\ Relay!TagIn(b) = 0
  <2>14. PICK f, x, v : f = Relay!Flushable(b) /\ x = Relay!Upto(b, f) /\ v = Relay!From(b, f + 1)
    OBVIOUS
  <2>1. /\ f \in 0..Len(b) /\ Len(b) - f <= STREAM_HOLD
        /\ f # 0 => Len(b) - f = STREAM_HOLD
    BY <1>2, <1>5, <2>14, Flushes
  <2>2. /\ x \in Text /\ v \in Text /\ Len(x) = f /\ Len(v) = Len(b) - f /\ b = x \o v
    BY <1>5, <2>1, <2>14, Parted
  <2>3. browser' = browser \o x /\ acc' = v /\ injected' = injected
    BY <1>0, <1>4, <1>8, <1>9, <2>14
  <2>4. /\ browser \in Text /\ page = (browser \o acc) \o radio /\ Tagless(browser \o acc)
        /\ browser = <<>> \/ Len(acc) = STREAM_HOLD
    BY <1>1, <1>8 DEF RelayInv, Streaming, Searching
  <2>13. browser \in Text /\ acc \in Text /\ x \in Text /\ v \in Text
    BY <1>1, <2>2, <2>4
  <2>5. /\ (browser \o acc) \o (h \o r) = ((browser \o x) \o v) \o r
        /\ browser \o b = (browser \o x) \o v /\ browser \o x \in Text
    <3>1. (browser \o acc) \o (h \o r) = (browser \o (acc \o h)) \o r
      BY <2>13, HeldBack
    <3>2. browser \o (x \o v) = (browser \o x) \o v
      BY <2>13, Assoc, SMTT(60)
    <3>3. browser \o x \in Text
      BY <2>13, Joins
    <3>. QED  BY <1>9, <2>2, <3>1, <3>2, <3>3
  <2>6. browser' \o acc' = browser \o b
    BY <2>3, <2>5
  <2>7. Tagless(browser' \o acc')
    <3>1. Tagless(acc \o h)
      BY <1>5, <1>8, <1>9, TagFound
    <3>2. browser = <<>> \/ Len(acc) >= Len(Tag)
      BY <1>2, <2>4
    <3>3. Tagless(browser \o (acc \o h))
      BY <1>1, <2>4, <3>1, <3>2, NoneAcross
    <3>. QED  BY <1>9, <2>6, <3>3
  <2>8. page' = (browser' \o acc') \o r
    BY <1>4, <1>5, <2>3, <2>4, <2>5
  <2>9. browser' = <<>> \/ Len(acc') = STREAM_HOLD
    <3>1. CASE f = 0
      <4>1. x = <<>> /\ Len(v) = Len(acc) + n /\ Len(v) <= STREAM_HOLD /\ n >= 1 /\ Len(acc) \in Nat
        BY <1>1, <1>3, <1>5, <2>1, <2>2, <3>1 DEF Text
      <4>2. Len(acc) # STREAM_HOLD
        BY <1>1, <1>2, <1>3, <4>1
      <4>3. browser = <<>>
        BY <2>4, <4>2
      <4>. QED  BY <2>3, <2>4, <4>1, <4>3, ConcatEmptySeq DEF Text
    <3>2. CASE f # 0
      BY <2>1, <2>2, <2>3, <3>2
    <3>. QED  BY <3>1, <3>2
  <2>10. browser' \in Text /\ browser' \in Seq(Sym \union {Snippet})
    BY <2>3, <2>5, SeqMonotonic DEF Text
  <2>11. Relay!TypeOK'
    <3>1. injected' \in BOOLEAN /\ broken' \in BOOLEAN /\ memory' \in BOOLEAN
      BY <1>1, <1>5, <2>3, Zenon
    <3>2. Len(acc') <= STREAM_HOLD /\ acc' \in Text /\ relay' = "stream"
      BY <1>1, <1>5, <2>1, <2>2, <2>3
    <3>3. page' \in Text /\ radio' \in Text /\ relay' \in {"stream", "buffer", "ok", "502"}
      BY <1>1, <1>5
    <3>. QED  BY <2>10, <3>1, <3>2, <3>3, RelayTypes DEF Typed
  <2>12. Searching'
    BY <1>5, <2>7, <2>8, <2>9, <2>10 DEF Searching
  <2>. QED  BY <1>1, <1>5, <1>8, <2>3, <2>11, <2>12 DEF RelayInv, Streaming
<1>. QED  BY <1>1, <1>6, <1>7, <1>8
(* What is held while the page is in transit is a part of it.               *)
LEMMA PartOfPage ==
  ASSUME Relay!RelayAssumption, RelayInv, relay \in {"stream", "buffer"}
  PROVE  Len(acc) \in Nat /\ Len(acc) <= HTML_BUF_CAP + MaxPage
<1>1. /\ page \in Text /\ radio \in Text /\ acc \in Text /\ Len(page) <= MaxPage
      /\ HTML_BUF_CAP \in Nat /\ MaxPage \in Nat
  BY RelayTypes DEF RelayInv, Typed, Relay!RelayAssumption
<1>2. Len(acc) \in Nat /\ Len(page) \in Nat /\ Len(radio) \in Nat /\ Len(<<>>) = 0
  BY <1>1 DEF Text
<1>3. CASE acc = <<>>
  BY <1>1, <1>2, <1>3
<1>4. CASE \E b \in Text : page = (b \o acc) \o radio
  <2>1. PICK b \in Text : page = (b \o acc) \o radio
    BY <1>4
  <2>2. b \o acc \in Text /\ Len(b \o acc) = Len(b) + Len(acc) /\ Len(b) \in Nat
    BY <1>1, ConcatProperties DEF Text
  <2>3. Len(page) = Len(b \o acc) + Len(radio)
    BY <1>1, <2>1, <2>2, ConcatProperties DEF Text
  <2>. QED  BY <1>1, <1>2, <2>2, <2>3
<1>5. CASE page = acc \o radio
  <2>1. Len(page) = Len(acc) + Len(radio)
    BY <1>1, <1>5, ConcatProperties DEF Text
  <2>. QED  BY <1>1, <1>2, <2>1
<1>. QED  BY <1>3, <1>4, <1>5 DEF RelayInv, Streaming, Searching, Found, Buffering

(* Once the page is sent, or refused, only what was sent counts.            *)
LEMMA RelayStops ==
  ASSUME Relay!RelayAssumption, RelayInv, relay \in {"stream", "buffer"},
         UNCHANGED <<page, radio, acc, bufcaps>>, relay' \in {"ok", "502"},
         broken' \in BOOLEAN, memory' \in BOOLEAN, injected' \in BOOLEAN,
         browser' \in Seq(Sym \union {Snippet}),
         relay' = "ok" /\ memory' => Good(browser', page, broken')
  PROVE  RelayInv'
<1>1. /\ page \in Text /\ radio \in Text /\ acc \in Text
      /\ Len(page) <= MaxPage /\ bufcaps \in Nat
  BY RelayTypes DEF RelayInv, Typed
<1>2. Len(acc') <= HTML_BUF_CAP + MaxPage
  BY PartOfPage
<1>3. relay' # "stream" /\ relay' # "buffer"
  OBVIOUS
<1>4. Relay!TypeOK'
  <2>1. page' \in Text /\ radio' \in Text /\ acc' \in Text
    BY <1>1
  <2>2. relay' \in {"stream", "buffer", "ok", "502"}
    OBVIOUS
  <2>3. Len(acc') <= IF relay' = "stream" THEN STREAM_HOLD ELSE HTML_BUF_CAP + MaxPage
    BY <1>2, <1>3
  <2>. QED  BY <2>1, <2>2, <2>3, RelayTypes DEF Typed
<1>5. (relay = "ok" /\ memory => Good(browser, page, broken))'
  BY DEF Good
<1>. QED  BY <1>1, <1>3, <1>4, <1>5 DEF RelayInv

LEMMA RelayRefused ==
  ASSUME Relay!RelayAssumption, RelayInv, relay \in {"stream", "buffer"},
         Relay!Refused, broken' \in BOOLEAN
  PROVE  RelayInv'
<1>1. /\ injected' \in BOOLEAN /\ memory' \in BOOLEAN /\ browser' \in Seq(Sym \union {Snippet})
  BY RelayTypes DEF RelayInv, Typed, Relay!Refused
<1>2. UNCHANGED <<page, radio, acc, bufcaps>> /\ relay' = "502"
  BY DEF Relay!Refused
<1>. QED  BY <1>1, <1>2, RelayStops

LEMMA RelayStreamCloses ==
  ASSUME Relay!RelayAssumption, RelayInv, relay = "stream", Relay!StreamCloses,
         broken' \in BOOLEAN, ~broken' => radio = <<>>
  PROVE  RelayInv'
<1>1. /\ page \in Text /\ radio \in Text /\ acc \in Text
      /\ browser \in Seq(Sym \union {Snippet})
      /\ injected \in BOOLEAN /\ memory \in BOOLEAN
  BY RelayTypes DEF RelayInv, Typed
<1>2. /\ browser' = browser \o IF injected THEN <<>> ELSE Append(acc, Snippet)
      /\ relay' = "ok" /\ UNCHANGED <<page, radio, acc, bufcaps, injected, memory>>
  BY DEF Relay!StreamCloses
<1>3. <<>> \in Text
  BY DEF Text
<1>4. CASE injected
  <2>1. PICK u, v \in Text : /\ browser = u \o <<Snippet>> \o v
                            /\ page = (u \o v) \o radio /\ Starts(v)
    BY <1>4 DEF RelayInv, Streaming, Found
  <2>2. browser' = browser
    BY <1>1, <1>2, <1>4, ConcatEmptySeq
  <2>3. Good(u \o <<Snippet>> \o v, (u \o v) \o radio, broken')
    <3>. PICK brk : brk = broken'
      OBVIOUS
    <3>. QED  BY <1>1, <2>1, IsGood
  <2>4. Good(browser', page, broken')
    BY <2>1, <2>2, <2>3
  <2>. QED  BY <1>1, <1>2, <2>2, <2>4, RelayStops
<1>5. CASE ~injected
  <2>1. browser \in Text /\ page = (browser \o acc) \o radio /\ Tagless(browser \o acc)
    BY <1>5 DEF RelayInv, Streaming, Searching
  <2>2. PICK u : u = browser \o acc
    OBVIOUS
  <2>3. u \in Text /\ u \o <<>> = u
    BY <1>1, <2>1, <2>2, Joins, ConcatEmptySeq DEF Text
  <2>4. PICK A : A = Sym \union {Snippet}
    OBVIOUS
  <2>5. browser \in Seq(A) /\ acc \in Seq(A) /\ u \in Seq(A) /\ <<Snippet>> \in Seq(A) /\ Snippet \in A
    BY <1>1, <2>3, <2>4, SeqMonotonic DEF Text
  <2>6. browser' = u \o <<Snippet>> \o <<>> /\ browser' \in Seq(A)
    <3>1. browser' = browser \o (acc \o <<Snippet>>)
      BY <1>2, <1>5, <2>5, AppendIsConcat
    <3>2. browser \o (acc \o <<Snippet>>) = u \o <<Snippet>>
      BY <2>2, <2>5, ConcatAssociative
    <3>3. u \o <<Snippet>> \in Seq(A) /\ (u \o <<Snippet>>) \o <<>> = u \o <<Snippet>>
      BY <2>5, ConcatProperties, ConcatEmptySeq
    <3>. QED  BY <3>1, <3>2, <3>3
  <2>7. Good(u \o <<Snippet>> \o <<>>, (u \o <<>>) \o radio, broken')
    <3>. PICK brk : brk = broken'
      OBVIOUS
    <3>. QED  BY <1>1, <1>3, <2>1, <2>2, <2>3, IsGood
  <2>8. Good(browser', page, broken')
    BY <2>1, <2>2, <2>3, <2>6, <2>7
  <2>. QED  BY <1>1, <1>2, <2>4, <2>6, <2>8, RelayStops
<1>. QED  BY <1>4, <1>5

LEMMA RelayStreamStops ==
  ASSUME Relay!RelayAssumption, RelayInv, Relay!StreamEnds \/ Relay!StreamFails
  PROVE  RelayInv'
<1>1. broken \in BOOLEAN
  BY RelayTypes DEF RelayInv, Typed
<1>2. CASE Relay!StreamEnds
  BY <1>1, <1>2, RelayStreamCloses DEF Relay!StreamEnds
<1>3. CASE Relay!StreamFails
  <2>1. relay = "stream" /\ broken' = TRUE /\ (Relay!StreamCloses \/ Relay!Refused)
    BY <1>3 DEF Relay!StreamFails, Relay!Refused
  <2>2. broken' \in BOOLEAN
    BY <2>1, Zenon
  <2>. QED  BY <2>1, <2>2, RelayStreamCloses, RelayRefused
<1>. QED  BY <1>2, <1>3

LEMMA RelayBufferGrows ==
  ASSUME Relay!RelayAssumption, RelayInv, Relay!BufferGrows
  PROVE  RelayInv'
<1>1. broken \in BOOLEAN /\ bufcaps \in Nat /\ relay = "buffer"
  BY RelayTypes DEF RelayInv, Typed, Relay!BufferGrows
<1>2. CASE Relay!Refused /\ UNCHANGED broken
  BY <1>1, <1>2, RelayRefused
<1>3. CASE /\ bufcaps' = 2 * bufcaps
           /\ UNCHANGED <<page, relay, radio, acc, injected, browser, broken, memory>>
  <2>1. Relay!TypeOK'
    BY <1>3, RelayTypes DEF RelayInv, Typed
  <2>2. bufcaps' \in Nat
    BY <1>1, <1>3
  <2>. QED  BY <1>1, <1>3, <2>1, <2>2 DEF RelayInv, Buffering
<1>. QED  BY <1>2, <1>3 DEF Relay!BufferGrows

LEMMA RelayBufferRead ==
  ASSUME Relay!RelayAssumption, RelayInv, Relay!BufferRead
  PROVE  RelayInv'
<1>1. /\ page \in Text /\ radio \in Text /\ acc \in Text /\ browser = <<>>
      /\ injected \in BOOLEAN /\ broken \in BOOLEAN /\ memory \in BOOLEAN
      /\ browser \in Seq(Sym \union {Snippet})
      /\ page = acc \o radio /\ relay = "buffer" /\ bufcaps \in Nat /\ Len(page) <= MaxPage
      /\ HTML_BUF_CAP \in Nat /\ MaxPage \in Nat /\ PROXY_CHUNK_SZ \in Nat \ {0}
  BY RelayTypes DEF RelayInv, Typed, Relay!BufferRead, Buffering, Relay!RelayAssumption
<1>2. PICK n \in Relay!Reads(bufcaps - Len(acc)) :
       acc' = acc \o Relay!Upto(radio, n) /\ radio' = Relay!From(radio, n + 1)
  BY DEF Relay!BufferRead
<1>3. n \in 1..Len(radio)
  <2>. PICK m : m = Relay!Least(bufcaps - Len(acc), PROXY_CHUNK_SZ)
    OBVIOUS
  <2>1. m \in Int
    BY <1>1 DEF Text, Relay!Least
  <2>. QED  BY <1>1, <2>1 DEF Relay!Reads, Text
<1>4. PICK h, r \in Text : /\ h = Relay!Upto(radio, n) /\ r = Relay!From(radio, n + 1)
                          /\ radio = h \o r /\ h # <<>> /\ Len(h) = n
  BY <1>3, APiece
<1>5. acc' = acc \o h /\ radio' = r /\ UNCHANGED <<page, relay, bufcaps, injected, browser, broken, memory>>
  BY <1>2, <1>4 DEF Relay!BufferRead
<1>6. acc' \in Text /\ page' = acc' \o radio'
  <2>1. acc \o (h \o r) = (acc \o h) \o r
    BY <1>1, Assoc, SMTT(60)
  <2>2. acc \o h \in Text
    BY <1>1, Joins
  <2>. QED  BY <1>1, <1>4, <1>5, <2>1, <2>2
<1>7. Len(acc') <= HTML_BUF_CAP + MaxPage
  <2>1. Len(page) = Len(acc') + Len(r) /\ Len(acc') \in Nat /\ Len(r) \in Nat
    BY <1>5, <1>6, ConcatProperties DEF Text
  <2>. QED  BY <1>1, <2>1
<1>8. Relay!TypeOK'
  <2>1. injected' \in BOOLEAN /\ broken' \in BOOLEAN /\ memory' \in BOOLEAN
    BY <1>1, <1>5, Zenon
  <2>2. Len(acc') <= IF relay' = "stream" THEN STREAM_HOLD ELSE HTML_BUF_CAP + MaxPage
    BY <1>1, <1>5, <1>7
  <2>3. /\ page' \in Text /\ radio' \in Text /\ relay' \in {"stream", "buffer", "ok", "502"}
        /\ browser' \in Seq(Sym \union {Snippet})
    BY <1>1, <1>5
  <2>. QED  BY <1>6, <2>1, <2>2, <2>3, RelayTypes DEF Typed
<1>. QED  BY <1>1, <1>5, <1>6, <1>8 DEF RelayInv, Buffering

(* A page that was read whole, with the snippet.                            *)
LEMMA Whole ==
  ASSUME Relay!RelayAssumption, NEW b \in Text, NEW r \in Text, NEW brk, ~brk => r = <<>>
  PROVE  /\ Good(Relay!WithSnippet(b), b \o r, brk)
         /\ Relay!WithSnippet(b) \in Seq(Sym \union {Snippet})
<1>1. PICK t, l, i : t = Relay!TagIn(b) /\ l = Len(b) /\ i = IF t = 0 THEN l ELSE t - 1
  OBVIOUS
<1>2. PICK u, v : u = Relay!Upto(b, i) /\ v = Relay!From(b, i + 1)
  OBVIOUS
<1>3. Relay!WithSnippet(b) = u \o <<Snippet>> \o v
  BY <1>1, <1>2 DEF Relay!WithSnippet
<1>4. l \in Nat /\ Len(Tag) \in Nat \ {0}
  BY <1>1 DEF Text, Relay!RelayAssumption
<1>5. i \in 0..l /\ (t # 0 => t = i + 1 /\ i + 1 \in 1..(l + 1 - Len(Tag)) /\ TagAt(b, i + 1))
  <2>1. t # 0 => t \in 1..(l + 1 - Len(Tag)) /\ TagAt(b, t)
    BY <1>1, TagFound
  <2>2. t # 0 => i \in 0..l /\ i + 1 \in 1..(l + 1 - Len(Tag)) /\ t = i + 1
    BY <1>1, <1>4, <2>1, InRoom
  <2>. QED  BY <1>1, <1>4, <2>1, <2>2
<1>6. u \in Text /\ v \in Text /\ Len(u) = i /\ Len(v) = l - i /\ b = u \o v
  <2>1. i \in 0..Len(b) /\ l = Len(b)
    BY <1>1, <1>5
  <2>2. u \in Text /\ v \in Text /\ Len(u) = i /\ Len(v) = Len(b) - i /\ b = u \o v
    BY <1>2, <2>1, Parted
  <2>. QED  BY <2>1, <2>2
<1>7. Starts(v) \/ (v = <<>> /\ Tagless(u))
  <2>1. CASE t = 0
    <3>1. Len(v) = 0 /\ Tagless(b)
      <4>1. Tagless(b)
        BY <1>1, <2>1, TagFound
      <4>2. i = l
        BY <1>1, <2>1
      <4>. QED  BY <1>4, <1>6, <4>1, <4>2
    <3>2. v = <<>>
      BY <1>6, <3>1, EmptySeq DEF Text
    <3>3. u = b
      BY <1>6, <3>2, ConcatEmptySeq DEF Text
    <3>. QED  BY <3>1, <3>2, <3>3
  <2>2. CASE t # 0
    <3>1. 1 \in 1..(Len(v) + 1 - Len(Tag)) /\ Len(Tag) <= Len(v)
      BY <1>4, <1>5, <1>6, <2>2
    <3>2. TagAt(u \o v, Len(u) + 1) <=> TagAt(v, 1)
      BY <1>6, <3>1, TagBehind
    <3>. QED  BY <1>5, <1>6, <2>2, <3>1, <3>2 DEF Starts
  <2>. QED  BY <2>1, <2>2
<1>8. Good(u \o <<Snippet>> \o v, (u \o v) \o r, brk)
  BY <1>6, <1>7, IsGood
<1>9. u \o <<Snippet>> \o v \in Seq(Sym \union {Snippet})
  <2>1. PICK A : A = Sym \union {Snippet}
    OBVIOUS
  <2>2. u \in Seq(A) /\ v \in Seq(A) /\ Snippet \in A
    BY <1>6, <2>1, SeqMonotonic DEF Text
  <2>. QED  BY <2>1, <2>2, Around
<1>. QED  BY <1>3, <1>6, <1>8, <1>9

LEMMA RelayBufferServed ==
  ASSUME Relay!RelayAssumption, RelayInv, relay = "buffer", Relay!BufferServed,
         broken' \in BOOLEAN, ~broken' => radio = <<>>
  PROVE  RelayInv'
<1>1. radio \in Text /\ acc \in Text /\ page = acc \o radio
  BY RelayTypes DEF RelayInv, Typed, Buffering
<1>2. /\ relay' = "ok" /\ memory' \in BOOLEAN /\ injected' = memory'
      /\ browser' = IF memory' THEN Relay!WithSnippet(acc) ELSE acc
      /\ UNCHANGED <<page, radio, acc, bufcaps>>
  BY DEF Relay!BufferServed
<1>3. Good(Relay!WithSnippet(acc), page, broken') /\ Relay!WithSnippet(acc) \in Seq(Sym \union {Snippet})
  <2>1. PICK brk : brk = broken'
    OBVIOUS
  <2>. QED  BY <1>1, <2>1, Whole
<1>4. browser' \in Seq(Sym \union {Snippet})
  BY <1>1, <1>2, <1>3, SeqMonotonic DEF Text
<1>5. injected' \in BOOLEAN
  BY <1>2, Zenon
<1>. QED  BY <1>2, <1>3, <1>4, <1>5, RelayStops

LEMMA RelayBufferStops ==
  ASSUME Relay!RelayAssumption, RelayInv, Relay!BufferEnds \/ Relay!BufferFails
  PROVE  RelayInv'
<1>1. broken \in BOOLEAN
  BY RelayTypes DEF RelayInv, Typed
<1>2. CASE Relay!BufferEnds
  BY <1>1, <1>2, RelayBufferServed DEF Relay!BufferEnds
<1>3. CASE Relay!BufferFails
  <2>1. relay = "buffer" /\ broken' = TRUE /\ (Relay!BufferServed \/ Relay!Refused)
    BY <1>3 DEF Relay!BufferFails
  <2>2. broken' \in BOOLEAN
    BY <2>1, Zenon
  <2>. QED  BY <2>1, <2>2, RelayBufferServed, RelayRefused
<1>. QED  BY <1>2, <1>3

LEMMA RelayInvariant ==
  ASSUME Relay!RelayAssumption, RelayInv, [Relay!Next]_Relay!vars
  PROVE  RelayInv'
<1>1. CASE Relay!Stream
  BY <1>1, RelayStreamRead, RelayStreamStops DEF Relay!Stream
<1>2. CASE Relay!Buffer
  BY <1>2, RelayBufferGrows, RelayBufferRead, RelayBufferStops DEF Relay!Buffer
<1>3. CASE UNCHANGED Relay!vars
  <2>1. Relay!TypeOK'
    BY <1>3, RelayTypes DEF RelayInv, Typed, Relay!vars
  <2>. QED  BY <1>3, <2>1 DEF RelayInv, Relay!vars, Streaming, Searching, Found, Buffering
<1>. QED  BY <1>1, <1>2, <1>3 DEF Relay!Next

LEMMA RelayMeansIt ==
  RelayInv => Relay!TypeOK /\ Relay!SnippetOnce
<1>1. RelayInv => Relay!SnippetOnce
  BY DEF RelayInv, Good, Relay!SnippetOnce
<1>. QED  BY <1>1 DEF RelayInv

(* The browser gets the page whole, with the snippet once, in front of a tag *)
(* or at its end: for all tags, pages and cuts into chunks, of the stream   *)
(* and of the buffer, and of a page that broke off its beginning            *)
(* (web_proxy.c, handle_proxy, STREAM_HOLD and rfind_body_tag).             *)
THEOREM PageGetsTheSnippet ==
  ASSUME Relay!RelayAssumption
  PROVE  /\ Relay!Spec => [](Relay!TypeOK /\ Relay!SnippetOnce)
         /\ PagesSpec => []SnippetOnce
<1>1. Relay!Init => RelayInv
  BY RelayInit
<1>2. RelayInv /\ [Relay!Next]_Relay!vars => RelayInv'
  BY RelayInvariant
<1>3. RelayInv => Relay!TypeOK /\ Relay!SnippetOnce
  BY RelayMeansIt
<1>4. Relay!Spec => [](Relay!TypeOK /\ Relay!SnippetOnce)
  BY <1>1, <1>2, <1>3, PTL DEF Relay!Spec
<1>5. PagesInit /\ Runs("relay") => Relay!Init
  BY DEF PagesInit, Runs
<1>6. [PagesNext]_<<part, pageVars>> =>
        /\ Runs("relay")' <=> Runs("relay")
        /\ Runs("relay") => [Relay!Next]_(Relay!vars)
  BY DEF Runs, PagesNext, pageVars, relayVars, Relay!vars
<1>7. Runs("relay") => (Relay!SnippetOnce => SnippetOnce)
  BY DEF SnippetOnce
<1>8. ~Runs("relay") => SnippetOnce
  BY DEF Runs, SnippetOnce
<1>9. PagesSpec => []SnippetOnce
  BY <1>4, <1>5, <1>6, <1>7, <1>8, PTL DEF PagesSpec, Relay!Spec
<1>. QED  BY <1>4, <1>9
-----------------------------------------------------------------------------
(* The question of a message.  What NameEnd does at a place of q, when f is *)
(* what it does behind it.                                                  *)
NameStep(q, f, x) ==
  IF x >= Len(q) THEN x
  ELSE LET len == q[x + 1] IN
       CASE len = 0 -> x + 1
         [] len >= POINTER -> x + 2
         [] OTHER -> f[x + len + 1]

(* What holds from some place on, and then before it, holds everywhere.     *)
LEMMA Backwards ==
  ASSUME NEW S \in SUBSET Nat, NEW k \in S, \A m \in Nat : m + 1 \in S => m \in S
  PROVE  0 \in S
<1>1. PICK x \in S : \A y \in S : x <= y
  BY Least
<1>2. x # 0 => x - 1 \in Nat /\ (x - 1) + 1 \in S
  OBVIOUS
<1>. QED  BY <1>1, <1>2

(* A step does not look at what stands before it.                           *)
LEMMA LooksAhead ==
  ASSUME Portal!PortalAssumption, NEW q \in Seq(Nat), NEW x \in Nat
  PROVE  /\ \A f \in [Nat -> Nat] : NameStep(q, f, x) \in Nat
         /\ \A f, g : (\A y \in Nat : y > x => f[y] = g[y]) => NameStep(q, f, x) = NameStep(q, g, x)
<1>1. CASE x >= Len(q)
  BY <1>1 DEF NameStep
<1>2. CASE ~(x >= Len(q))
  <2>1. PICK len : len = q[x + 1]
    OBVIOUS
  <2>2. len \in Nat /\ ~(x >= Len(q))
    BY <1>2, <2>1
  <2>3. \A f : NameStep(q, f, x) = IF len = 0 THEN x + 1 ELSE IF len >= POINTER THEN x + 2
                                  ELSE f[x + len + 1]
    <3>1. POINTER \in Nat /\ POINTER # 0
      BY DEF Portal!PortalAssumption
    <3>. QED  BY <2>1, <2>2, <3>1 DEF NameStep
  <2>4. x + 1 \in Nat /\ x + 2 \in Nat /\ x + len + 1 \in Nat /\ x + len + 1 > x
    BY <2>2
  <2>. QED  BY <2>3, <2>4
<1>. QED  BY <1>1, <1>2

LEMMA EndExists ==
  ASSUME Portal!PortalAssumption, NEW q \in Seq(Nat)
  PROVE  \E f \in [Nat -> Nat] : \A x \in Nat : f[x] = NameStep(q, f, x)
<1>. DEFINE S == {k \in Nat : \E f \in [Nat -> Nat] : \A x \in Nat : x >= k => f[x] = NameStep(q, f, x)}
<1>1. Len(q) \in S
  <2>1. PICK f : f = [x \in Nat |-> x]
    OBVIOUS
  <2>2. f \in [Nat -> Nat] /\ \A x \in Nat : x >= Len(q) => f[x] = NameStep(q, f, x)
    BY <2>1 DEF NameStep
  <2>. QED  BY <2>2
<1>2. ASSUME NEW m \in Nat, m + 1 \in S
      PROVE  m \in S
  <2>1. PICK f \in [Nat -> Nat] : \A x \in Nat : x >= m + 1 => f[x] = NameStep(q, f, x)
    BY <1>2
  <2>2. PICK g : g = [f EXCEPT ![m] = NameStep(q, f, m)]
    OBVIOUS
  <2>3. g \in [Nat -> Nat] /\ g[m] = NameStep(q, f, m) /\ \A y \in Nat : y # m => g[y] = f[y]
    BY <2>2, LooksAhead
  <2>4. ASSUME NEW x \in Nat, x >= m
        PROVE  g[x] = NameStep(q, g, x)
    <3>1. NameStep(q, f, x) = NameStep(q, g, x)
      <4>1. \A y \in Nat : y > x => f[y] = g[y]
        BY <2>3, <2>4
      <4>. QED  BY <4>1, LooksAhead
    <3>2. CASE x = m
      BY <2>3, <3>1, <3>2
    <3>3. CASE x # m
      <4>1. x >= m + 1 /\ g[x] = f[x]
        BY <2>3, <2>4, <3>3
      <4>2. f[x] = NameStep(q, f, x)
        BY <2>1, <4>1
      <4>. QED  BY <3>1, <4>1, <4>2
    <3>. QED  BY <3>2, <3>3
  <2>. QED  BY <2>3, <2>4
<1>3. 0 \in S
  <2>1. S \in SUBSET Nat
    OBVIOUS
  <2>. HIDE DEF S
  <2>. QED  BY <1>1, <1>2, <2>1, Backwards
<1>. QED  BY <1>3

LEMMA NameEnds ==
  ASSUME Portal!PortalAssumption, NEW q \in Seq(Nat)
  PROVE  \E f : /\ Portal!NameEnd(q) = f[0]
                /\ \A x \in Nat : f[x] \in Nat /\ f[x] = NameStep(q, f, x)
<1>. DEFINE Solves(f) == f = [x \in Nat |-> NameStep(q, f, x)]
           h == CHOOSE f : Solves(f)
<1>1. Portal!NameEnd(q) = h[0]
  BY DEF Portal!NameEnd, NameStep
<1>2. \E f : Solves(f)
  <2>1. PICK f \in [Nat -> Nat] : \A x \in Nat : f[x] = NameStep(q, f, x)
    BY EndExists
  <2>2. f = [x \in Nat |-> NameStep(q, f, x)]
    BY <2>1
  <2>. QED  BY <2>2
<1>3. Solves(h)
  <2>. HIDE DEF Solves
  <2>. QED  BY <1>2
<1>4. \A x \in Nat : h[x] = NameStep(q, h, x)
  <2>1. PICK f : f = h
    OBVIOUS
  <2>. HIDE DEF h
  <2>. QED  BY <1>3
<1>5. \A x \in Nat : h[x] \in Nat
  <2>. HIDE DEF h, Solves
  <2>. DEFINE S == {k \in Nat : \A x \in Nat : x >= k => h[x] \in Nat}
  <2>1. Len(q) \in S
    BY <1>4 DEF NameStep
  <2>2. ASSUME NEW m \in Nat, m + 1 \in S
        PROVE  m \in S
    <3>1. PICK g : g = [y \in Nat |-> IF y > m THEN h[y] ELSE 0]
      OBVIOUS
    <3>2. g \in [Nat -> Nat] /\ \A y \in Nat : y > m => h[y] = g[y]
      BY <2>2, <3>1
    <3>3. NameStep(q, h, m) = NameStep(q, g, m) /\ NameStep(q, g, m) \in Nat
      BY <3>2, LooksAhead
    <3>4. h[m] \in Nat
      BY <1>4, <3>3
    <3>5. ASSUME NEW x \in Nat, x >= m
          PROVE  h[x] \in Nat
      BY <2>2, <3>4, <3>5
    <3>. QED  BY <3>5
  <2>3. 0 \in S
    <3>1. S \in SUBSET Nat
      OBVIOUS
    <3>. HIDE DEF S
    <3>. QED  BY <2>1, <2>2, <3>1, Backwards
  <2>. QED  BY <2>3
<1>. HIDE DEF h
<1>. QED  BY <1>1, <1>4, <1>5

(* From place x + 1 on, the length bytes at cuts lead to the last, m, and   *)
(* what they are the name of ends n - 4 bytes into q.                       *)
Leads(q, x, n, cuts, m) ==
  /\ cuts \subseteq (x + 1)..(n - 4) /\ x + 1 \in cuts
  /\ m \in cuts /\ \A c \in cuts : c <= m
  /\ \A c \in cuts \ {m} : /\ q[c] \in 1..(POINTER - 1)
                           /\ c + q[c] + 1 \in cuts
                           /\ \A d \in cuts : d > c => d >= c + q[c] + 1
  /\ \/ q[m] = 0 /\ n = m + 4
     \/ q[m] >= POINTER /\ n = m + 5

LEMMA Ahead ==
  ASSUME NEW x \in Nat, NEW len \in Nat, len >= 1, NEW y, y = x + len + 1
  PROVE  y \in Nat /\ y > x /\ x + 1 + len + 1 = y + 1
OBVIOUS

LEMMA LeadsOn ==
  ASSUME NEW q \in Seq(Nat), NEW x \in Nat, NEW n \in 1..Len(q), NEW m,
         NEW cuts, Leads(q, x, n, cuts, m), q[x + 1] \in 1..(POINTER - 1), POINTER \in Nat
  PROVE  Leads(q, x + q[x + 1] + 1, n, cuts \ {x + 1}, m)
<1>1. PICK y : y = x + q[x + 1] + 1
  OBVIOUS
<1>2. /\ cuts \subseteq (x + 1)..(n - 4) /\ x + 1 \in cuts
      /\ m \in cuts /\ \A c \in cuts : c <= m
  BY DEF Leads
<1>3. m # x + 1
  BY DEF Leads
<1>4. y + 1 \in cuts /\ (\A d \in cuts : d > x + 1 => d >= y + 1) /\ y \in Nat /\ y > x
  <2>1. x + 1 \in cuts \ {m}
    BY <1>2, <1>3
  <2>2. x + 1 + q[x + 1] + 1 = y + 1 /\ y \in Nat /\ y > x
    <3>1. PICK len : len = q[x + 1]
      OBVIOUS
    <3>2. len \in 1..(POINTER - 1) /\ len \in Nat
      BY <3>1
    <3>3. y = x + len + 1
      BY <1>1, <3>1, Zenon
    <3>4. y \in Nat /\ y > x /\ x + 1 + len + 1 = y + 1
      BY <3>2, <3>3, Ahead
    <3>. QED  BY <3>1, <3>4, Zenon
  <2>3. /\ x + 1 + q[x + 1] + 1 \in cuts
        /\ \A d \in cuts : d > x + 1 => d >= x + 1 + q[x + 1] + 1
    BY <2>1 DEF Leads
  <2>. QED  BY <2>2, <2>3
<1>5. cuts \ {x + 1} \subseteq (y + 1)..(n - 4)
  BY <1>2, <1>4
<1>6. ASSUME NEW c \in (cuts \ {x + 1}) \ {m}
      PROVE  /\ q[c] \in 1..(POINTER - 1)
             /\ c + q[c] + 1 \in cuts \ {x + 1}
             /\ \A d \in cuts \ {x + 1} : d > c => d >= c + q[c] + 1
  <2>1. c \in cuts \ {m} /\ c > x + 1 /\ c \in Nat
    BY <1>2
  <2>2. /\ q[c] \in 1..(POINTER - 1)
        /\ c + q[c] + 1 \in cuts
        /\ \A d \in cuts : d > c => d >= c + q[c] + 1
    BY <2>1 DEF Leads
  <2>3. c + q[c] + 1 # x + 1
    BY <2>1, <2>2
  <2>. QED  BY <2>2, <2>3
<1>7. y + 1 \in cuts \ {x + 1} /\ m \in cuts \ {x + 1}
  BY <1>2, <1>3, <1>4
<1>8. \/ q[m] = 0 /\ n = m + 4
      \/ q[m] >= POINTER /\ n = m + 5
  BY DEF Leads
<1>. QED  BY <1>1, <1>2, <1>5, <1>6, <1>7, <1>8 DEF Leads

LEMMA LeadsBack ==
  ASSUME NEW q \in Seq(Nat), NEW x \in Nat, NEW n \in 1..Len(q), NEW m,
         q[x + 1] \in 1..(POINTER - 1), POINTER \in Nat,
         NEW cuts, Leads(q, x + q[x + 1] + 1, n, cuts, m)
  PROVE  Leads(q, x, n, cuts \union {x + 1}, m)
<1>1. PICK y : y = x + q[x + 1] + 1
  OBVIOUS
<1>2. /\ cuts \subseteq (y + 1)..(n - 4) /\ y + 1 \in cuts
      /\ m \in cuts /\ \A c \in cuts : c <= m
  BY <1>1 DEF Leads
<1>3. y \in Nat /\ y > x /\ x + 1 + q[x + 1] + 1 = y + 1 /\ n \in Nat
  <2>1. PICK len : len = q[x + 1]
    OBVIOUS
  <2>2. len \in 1..(POINTER - 1) /\ len \in Nat
    BY <2>1
  <2>3. y = x + len + 1
    BY <1>1, <2>1, Zenon
  <2>4. y \in Nat /\ y > x /\ x + 1 + len + 1 = y + 1
    BY <2>2, <2>3, Ahead
  <2>5. n \in Nat
    <3>1. Len(q) \in Nat
      OBVIOUS
    <3>. QED  BY <3>1
  <2>. QED  BY <2>1, <2>4, <2>5, Zenon
<1>4. /\ cuts \union {x + 1} \subseteq (x + 1)..(n - 4) /\ \A c \in cuts \union {x + 1} : c <= m
  <2>1. x + 1 \in (x + 1)..(n - 4) /\ x + 1 <= m
    <3>1. y + 1 <= n - 4 /\ y + 1 <= m /\ m \in Int
      BY <1>2, <1>3
    <3>. QED  BY <1>3, <3>1
  <2>2. cuts \subseteq (x + 1)..(n - 4)
    BY <1>2, <1>3
  <2>. QED  BY <1>2, <2>1, <2>2
<1>5. ASSUME NEW c \in (cuts \union {x + 1}) \ {m}
      PROVE  /\ q[c] \in 1..(POINTER - 1)
             /\ c + q[c] + 1 \in cuts \union {x + 1}
             /\ \A d \in cuts \union {x + 1} : d > c => d >= c + q[c] + 1
  <2>1. CASE c = x + 1
    <3>1. \A d \in cuts : d >= y + 1
      BY <1>2, <1>3
    <3>. QED  BY <1>2, <1>3, <2>1, <3>1
  <2>2. CASE c # x + 1
    <3>1. c \in cuts \ {m} /\ c > x + 1 /\ c \in Int
      BY <1>2, <1>3, <2>2
    <3>2. /\ q[c] \in 1..(POINTER - 1)
          /\ c + q[c] + 1 \in cuts
          /\ \A d \in cuts : d > c => d >= c + q[c] + 1
      BY <3>1 DEF Leads
    <3>3. c + q[c] + 1 \in cuts \union {x + 1} /\ ~(x + 1 > c)
      BY <3>1, <3>2
    <3>. QED  BY <3>2, <3>3
  <2>. QED  BY <2>1, <2>2
<1>6. \/ q[m] = 0 /\ n = m + 4
      \/ q[m] >= POINTER /\ n = m + 5
  BY DEF Leads
<1>. QED  BY <1>2, <1>4, <1>5, <1>6 DEF Leads

(* There are such places exactly if the name ends there.                    *)
LEMMA LeadsToEnd ==
  ASSUME Portal!PortalAssumption, NEW q \in Seq(Nat), NEW n \in 1..Len(q), NEW f,
         \A x \in Nat : f[x] \in Nat /\ f[x] = NameStep(q, f, x)
  PROVE  (\E cuts, m : Leads(q, 0, n, cuts, m)) <=> n = f[0] + 4
<1>. DEFINE Reaches(x) == \E cuts, m : Leads(q, x, n, cuts, m)
           S == {k \in Nat : \A x \in Nat : x >= k => (Reaches(x) <=> n = f[x] + 4)}
<1>0. POINTER \in Nat \ {0} /\ Len(q) \in Nat /\ n \in Nat /\ n <= Len(q)
  BY DEF Portal!PortalAssumption
<1>1. Len(q) \in S
  <2>1. ASSUME NEW x \in Nat, x >= Len(q)
        PROVE  ~Reaches(x) /\ n # f[x] + 4
    <3>1. f[x] = x
      BY <2>1 DEF NameStep
    <3>2. ASSUME NEW cuts, NEW m, Leads(q, x, n, cuts, m)
          PROVE  FALSE
      <4>1. x + 1 \in (x + 1)..(n - 4)
        BY <3>2 DEF Leads
      <4>. QED  BY <1>0, <2>1, <4>1
    <3>. QED  BY <1>0, <2>1, <3>1, <3>2
  <2>. QED  BY <1>0, <2>1
<1>2. ASSUME NEW k \in Nat, k + 1 \in S
      PROVE  k \in S
  <2>1. Reaches(k) <=> n = f[k] + 4
    <3>1. CASE k >= Len(q)
      <4>1. k >= k
        OBVIOUS
      <4>. QED  BY <1>1, <3>1
    <3>2. CASE k < Len(q) /\ q[k + 1] \in 1..(POINTER - 1)
      <4>1. PICK y : y = k + q[k + 1] + 1
        OBVIOUS
      <4>2. y \in Nat /\ y >= k + 1
        BY <3>2, <4>1
      <4>3. f[k] = f[y]
        <5>1. f[k] = NameStep(q, f, k)
          OBVIOUS
        <5>2. ~(k >= Len(q)) /\ q[k + 1] # 0 /\ ~(q[k + 1] >= POINTER)
          BY <1>0, <3>2
        <5>. QED  BY <4>1, <5>1, <5>2 DEF NameStep
      <4>4. Reaches(y) <=> n = f[y] + 4
        BY <1>2, <4>2
      <4>5. Reaches(k) => Reaches(y)
        BY <1>0, <3>2, <4>1, LeadsOn
      <4>6. Reaches(y) => Reaches(k)
        BY <1>0, <3>2, <4>1, LeadsBack
      <4>. QED  BY <4>3, <4>4, <4>5, <4>6
    <3>3. CASE k < Len(q) /\ q[k + 1] \notin 1..(POINTER - 1)
      <4>1. q[k + 1] \in Nat /\ (q[k + 1] = 0 \/ q[k + 1] >= POINTER)
        BY <1>0, <3>3
      <4>2. f[k] = IF q[k + 1] = 0 THEN k + 1 ELSE k + 2
        <5>1. f[k] = NameStep(q, f, k) /\ ~(k >= Len(q))
          BY <1>0, <3>3
        <5>. QED  BY <1>0, <4>1, <5>1 DEF NameStep
      <4>3. ASSUME NEW cuts, NEW m, Leads(q, k, n, cuts, m)
            PROVE  n = f[k] + 4
        <5>1. k + 1 = m
          <6>1. k + 1 \in cuts /\ \A c \in cuts \ {m} : q[c] \in 1..(POINTER - 1)
            BY <4>3 DEF Leads
          <6>. QED  BY <3>3, <6>1
        <5>2. \/ q[m] = 0 /\ n = m + 4
              \/ q[m] >= POINTER /\ n = m + 5
          BY <4>3 DEF Leads
        <5>. QED  BY <1>0, <4>1, <4>2, <5>1, <5>2
      <4>4. ASSUME n = f[k] + 4
            PROVE  Leads(q, k, n, {k + 1}, k + 1)
        <5>1. \/ q[k + 1] = 0 /\ n = k + 1 + 4
              \/ q[k + 1] >= POINTER /\ n = k + 1 + 5
          BY <4>1, <4>2, <4>4
        <5>2. {k + 1} \subseteq (k + 1)..(n - 4) /\ k + 1 <= k + 1
          BY <5>1
        <5>. QED  BY <5>1, <5>2 DEF Leads
      <4>. QED  BY <4>3, <4>4
    <3>. QED  BY <1>0, <3>1, <3>2, <3>3
  <2>2. ASSUME NEW x \in Nat, x >= k
        PROVE  Reaches(x) <=> n = f[x] + 4
    <3>1. CASE x = k
      BY <2>1, <3>1
    <3>2. CASE x # k
      <4>1. x >= k + 1
        BY <2>2, <3>2
      <4>. HIDE DEF Reaches
      <4>. QED  BY <1>2, <4>1
    <3>. QED  BY <3>1, <3>2
  <2>. HIDE DEF Reaches
  <2>. QED  BY <2>2
<1>3. 0 \in S
  <2>1. S \in SUBSET Nat
    OBVIOUS
  <2>. HIDE DEF S
  <2>. QED  BY <1>0, <1>1, <1>2, <2>1, Backwards
<1>. HIDE DEF Reaches
<1>4. Reaches(0) <=> n = f[0] + 4
  BY <1>3
<1>. QED  BY <1>4 DEF Reaches
(* The DNS task's answer, and what it should be.                            *)
LEMMA AnswersRight ==
  ASSUME Portal!PortalAssumption, NEW q \in Seq(Nat)
  PROVE  LET whole == {n \in 1..Len(q) : Portal!IsQuestion(q, n) /\ n <= RESP_ROOM}
         IN  Portal!DnsAnswer(q) = IF whole = {} THEN <<>> ELSE SubSeq(q, 1, Portal!Min(whole))
<1>. DEFINE whole == {n \in 1..Len(q) : Portal!IsQuestion(q, n) /\ n <= RESP_ROOM}
<1>. SUFFICES Portal!DnsAnswer(q) = IF whole = {} THEN <<>> ELSE SubSeq(q, 1, Portal!Min(whole))
  OBVIOUS
<1>1. ASSUME NEW n \in 1..Len(q)
      PROVE  Portal!IsQuestion(q, n) <=> \E cuts, m : Leads(q, 0, n, cuts, m)
  <2>0. n \in Nat /\ 0 + 1 = 1
    OBVIOUS
  <2>1. ASSUME NEW cuts, NEW m, Leads(q, 0, n, cuts, m)
        PROVE  Portal!IsQuestion(q, n)
    <3>1. cuts \in SUBSET (1..(n - 4)) /\ 1 \in cuts /\ m \in cuts /\ \A c \in cuts : c <= m
      BY <2>0, <2>1 DEF Leads
    <3>2. Portal!Max(cuts) = m
      <4>1. \A c \in cuts : c \in Int
        BY <2>0, <3>1
      <4>2. m \in cuts /\ \A y \in cuts : m >= y
        BY <3>1, <4>1
      <4>3. \A x \in cuts : (\A y \in cuts : x >= y) => x = m
        BY <3>1, <4>1
      <4>. QED  BY <4>2, <4>3 DEF Portal!Max
    <3>. QED  BY <2>1, <3>1, <3>2 DEF Leads, Portal!IsQuestion
  <2>2. ASSUME Portal!IsQuestion(q, n)
        PROVE  \E cuts, m : Leads(q, 0, n, cuts, m)
    <3>1. PICK cuts \in SUBSET (1..(n - 4)) :
            /\ 1 \in cuts
            /\ LET final == Portal!Max(cuts) IN
               /\ \A c \in cuts \ {final} : /\ q[c] \in 1..(POINTER - 1)
                                            /\ c + q[c] + 1 \in cuts
                                            /\ \A d \in cuts : d > c => d >= c + q[c] + 1
               /\ \/ q[final] = 0 /\ n = final + 4
                  \/ q[final] >= POINTER /\ n = final + 5
      BY <2>2 DEF Portal!IsQuestion
    <3>2. PICK m : m = Portal!Max(cuts)
      OBVIOUS
    <3>3. m \in cuts /\ \A c \in cuts : c <= m
      <4>1. n - 4 \in Nat /\ cuts # {}
        BY <2>0, <3>1
      <4>2. \E x \in cuts : \A y \in cuts : x >= y
        BY <4>1, Greatest
      <4>3. m \in cuts /\ \A y \in cuts : m >= y
        BY <3>2, <4>2 DEF Portal!Max
      <4>. QED  BY <2>0, <4>3
    <3>4. Leads(q, 0, n, cuts, m)
      BY <2>0, <3>1, <3>2, <3>3 DEF Leads
    <3>. QED  BY <3>4
  <2>. QED  BY <2>1, <2>2
<1>2. PICK f : /\ Portal!NameEnd(q) = f[0]
               /\ \A x \in Nat : f[x] \in Nat /\ f[x] = NameStep(q, f, x)
  BY NameEnds
<1>3. PICK e : e = f[0] + 4
  OBVIOUS
<1>4. e \in Nat /\ e >= 4 /\ Len(q) \in Nat /\ RESP_ROOM \in Nat
  BY <1>2, <1>3 DEF Portal!PortalAssumption
<1>5. \A n \in 1..Len(q) : Portal!IsQuestion(q, n) <=> n = e
  BY <1>1, <1>2, <1>3, LeadsToEnd
<1>6. Portal!DnsAnswer(q) = IF e > Len(q) \/ e > RESP_ROOM THEN <<>> ELSE SubSeq(q, 1, e)
  BY <1>2, <1>3 DEF Portal!DnsAnswer
<1>7. CASE e > Len(q) \/ e > RESP_ROOM
  <2>1. whole = {}
    BY <1>4, <1>5, <1>7
  <2>. QED  BY <1>6, <1>7, <2>1
<1>8. CASE e <= Len(q) /\ e <= RESP_ROOM
  <2>1. whole = {e}
    BY <1>4, <1>5, <1>8
  <2>2. Portal!Min(whole) = e
    BY <1>4, <2>1 DEF Portal!Min
  <2>3. ~(e > Len(q) \/ e > RESP_ROOM)
    BY <1>4, <1>8
  <2>. HIDE DEF whole
  <2>. QED  BY <1>6, <2>1, <2>2, <2>3
<1>. QED  BY <1>4, <1>7, <1>8
-----------------------------------------------------------------------------
(* The captive portal: until a browser is sent on it asks for what the user *)
(* asked for, and then for an address of the access point; an address is    *)
(* resolved to itself.                                                      *)
Browsing ==
  /\ hops \in {0, 1}
  /\ hops = 0 => url = asked
  /\ hops = 1 => url.host \in ApAddr /\ url.path = "other"
  /\ browsing = "connect" /\ url.host \in ApAddr \union StaAddr => peer = url.host

AskedOfDns == dns.query \in Seq(Nat) /\ dns.answer = Portal!DnsAnswer(dns.query)

PortalInv ==
  /\ Portal!TypeOK
  /\ ap_enabled => ap_ip # NoAddr
  /\ Browsing /\ Portal!PortalReached /\ AskedOfDns

Located ==
  /\ ap_enabled \in BOOLEAN /\ ap_ip \in ApAddr \union {NoAddr}
  /\ sta_ip \in StaAddr \union {NoAddr} /\ changes \in 0..MaxChanges
  /\ side \in {"ap", "lan"}
  /\ browsing \in {"idle", "resolve", "connect", "done", "lost", "stranger"}
  /\ asked \in Portal!Url /\ url \in Portal!Url /\ peer \in ApAddr \union StaAddr \union {NoAddr}
  /\ reply \in {"none", "page", "refresh", "found"} /\ hops \in Nat

LEMMA PortalTypes ==
  (Portal!TypeOK <=> Located) /\ (Portal!TypeOK' <=> Located')
<1>1. Portal!TypeOK <=> Located
  BY DEF Portal!TypeOK, Located
<1>2. Portal!TypeOK' <=> Located'
  BY DEF Portal!TypeOK, Located
<1>. QED  BY <1>1, <1>2

LEMMA NothingAsked ==
  ASSUME Portal!PortalAssumption
  PROVE  <<>> \in Seq(Nat) /\ Portal!DnsAnswer(<<>>) = <<>>
<1>1. PICK q \in Seq(Nat) : q = <<>>
  BY EmptySeq
<1>2. PICK f : /\ Portal!NameEnd(q) = f[0]
               /\ \A x \in Nat : f[x] \in Nat /\ f[x] = NameStep(q, f, x)
  BY NameEnds
<1>3. f[0] = 0 /\ Len(q) = 0
  BY <1>1, <1>2 DEF NameStep
<1>4. Portal!NameEnd(q) + 4 > Len(q)
  BY <1>2, <1>3
<1>. QED  BY <1>1, <1>4 DEF Portal!DnsAnswer

LEMMA PortalInit ==
  ASSUME Portal!PortalAssumption, Portal!Init
  PROVE  PortalInv
<1>1. MaxChanges \in Nat /\ WIFI_AP_IP \in ApAddr
  BY DEF Portal!PortalAssumption
<1>2. asked \in Portal!Url
  BY DEF Portal!Init, Portal!Url, Portal!Host
<1>3. ap_enabled \in BOOLEAN
  BY Zenon DEF Portal!Init
<1>4. Portal!TypeOK
  BY <1>1, <1>2, <1>3, PortalTypes DEF Portal!Init, Located
<1>5. AskedOfDns
  BY NothingAsked DEF AskedOfDns, Portal!Init, Portal!NoMessage
<1>6. hops = 0 /\ reply = "none" /\ browsing = "idle" /\ url = asked /\ (ap_enabled => ap_ip # NoAddr)
  BY DEF Portal!Init
<1>. QED  BY <1>4, <1>5, <1>6 DEF PortalInv, Browsing, Portal!PortalReached

(* What moves addresses leaves the browser alone.                           *)
LEMMA PortalMoves ==
  ASSUME Portal!PortalAssumption, PortalInv, Portal!ApChanges \/ Portal!StaChanges
  PROVE  PortalInv'
<1>1. Located
  BY PortalTypes DEF PortalInv
<1>2. UNCHANGED <<side, browsing, asked, url, peer, reply, hops, dns>>
  BY DEF Portal!ApChanges, Portal!StaChanges, Portal!browser
<1>3. changes' \in 0..MaxChanges
  BY <1>1 DEF Located, Portal!ApChanges, Portal!StaChanges, Portal!Changes, Portal!PortalAssumption
<1>4. /\ ap_ip' \in ApAddr \union {NoAddr} /\ sta_ip' \in StaAddr \union {NoAddr}
      /\ ap_enabled' => ap_ip' # NoAddr
  BY <1>1 DEF Located, PortalInv, Portal!ApChanges, Portal!StaChanges, Portal!PortalAssumption
<1>5. ap_enabled' \in BOOLEAN
  BY <1>1, Zenon DEF Located, Portal!ApChanges, Portal!StaChanges
<1>6. Portal!TypeOK'
  BY <1>1, <1>2, <1>3, <1>4, <1>5, PortalTypes DEF Located
<1>. QED  BY <1>2, <1>4, <1>6 DEF PortalInv, Browsing, Portal!PortalReached, AskedOfDns

LEMMA PortalStranger ==
  ASSUME Portal!PortalAssumption, PortalInv, Portal!StrangerAsks
  PROVE  PortalInv'
<1>1. Located
  BY PortalTypes DEF PortalInv
<1>2. PICK q \in Portal!Message : dns' = [query |-> q, answer |-> Portal!DnsAnswer(q)]
  BY DEF Portal!StrangerAsks
<1>3. q \in Seq(Nat)
  <2>1. PICK name \in UNION {[1..n -> 0..POINTER] : n \in 0..MaxName},
             rest \in {[i \in 1..j |-> 0] : j \in 0..4} : q = name \o rest
    BY DEF Portal!Message
  <2>2. name \in Seq(Nat)
    <3>1. PICK n \in 0..MaxName : name \in [1..n -> 0..POINTER]
      OBVIOUS
    <3>2. n \in Nat /\ POINTER \in Nat
      BY DEF Portal!PortalAssumption
    <3>3. name \in [1..n -> Nat]
      BY <3>1, <3>2
    <3>. QED  BY <3>2, <3>3, SeqDef
  <2>3. rest \in Seq(Nat)
    <3>1. PICK k \in 0..4 : rest = [i \in 1..k |-> 0]
      OBVIOUS
    <3>2. rest \in [1..k -> Nat]
      BY <3>1
    <3>. QED  BY <3>2, SeqDef
  <2>. QED  BY <2>1, <2>2, <2>3, ConcatProperties
<1>4. AskedOfDns'
  BY <1>2, <1>3 DEF AskedOfDns, Portal!DnsAnswer, Portal!NameEnd
<1>5. /\ UNCHANGED <<ap_enabled, ap_ip, sta_ip, changes, side, asked, url, peer, reply, hops>>
      /\ browsing' = "stranger"
  BY DEF Portal!StrangerAsks, Portal!network
<1>6. Portal!TypeOK'
  BY <1>1, <1>5, PortalTypes DEF Located
<1>. QED  BY <1>4, <1>5, <1>6 DEF PortalInv, Browsing, Portal!PortalReached

LEMMA PortalBrowses ==
  ASSUME Portal!PortalAssumption, PortalInv,
         Portal!Navigate \/ Portal!Resolve \/ Portal!Unreachable
  PROVE  PortalInv'
<1>1. Located
  BY PortalTypes DEF PortalInv
<1>2. CASE Portal!Navigate
  <2>1. UNCHANGED <<ap_enabled, ap_ip, sta_ip, changes, side, dns>>
    BY <1>2 DEF Portal!Navigate, Portal!network
  <2>2. /\ asked' \in Portal!Url /\ url' = asked' /\ peer' = NoAddr /\ reply' = "none" /\ hops' = 0
        /\ browsing' = "resolve"
    BY <1>2 DEF Portal!Navigate
  <2>3. Portal!TypeOK'
    BY <1>1, <2>1, <2>2, PortalTypes DEF Located
  <2>. QED  BY <2>1, <2>2, <2>3 DEF PortalInv, Browsing, Portal!PortalReached, AskedOfDns
<1>3. CASE Portal!Resolve
  <2>1. /\ UNCHANGED <<ap_enabled, ap_ip, sta_ip, changes, side, asked, url, reply, hops, dns>>
        /\ browsing' = "connect" /\ peer' \in Portal!Addresses
    BY <1>3 DEF Portal!Resolve, Portal!network
  <2>2. url.host \in ApAddr \union StaAddr => peer' = url.host
    BY <2>1 DEF Portal!Addresses
  <2>3. peer' \in ApAddr \union StaAddr \union {NoAddr}
    BY <1>1, <2>1 DEF Portal!Addresses, Portal!Reached, Portal!Own, Portal!ApAddress, Located,
                      Portal!PortalAssumption
  <2>4. Portal!TypeOK'
    BY <1>1, <2>1, <2>3, PortalTypes DEF Located
  <2>. QED  BY <2>1, <2>2, <2>4 DEF PortalInv, Browsing, Portal!PortalReached, AskedOfDns
<1>4. CASE Portal!Unreachable
  <2>1. /\ UNCHANGED <<ap_enabled, ap_ip, sta_ip, changes, side, asked, url, peer, reply, hops, dns>>
        /\ browsing' = "lost"
    BY <1>4 DEF Portal!Unreachable, Portal!network
  <2>2. Portal!TypeOK'
    BY <1>1, <2>1, PortalTypes DEF Located
  <2>. QED  BY <2>1, <2>2 DEF PortalInv, Browsing, Portal!PortalReached, AskedOfDns
<1>. QED  BY <1>2, <1>3, <1>4

(* A request that arrived for an address came to that address, which is the *)
(* device's own.                                                            *)
LEMMA OwnAddress ==
  ASSUME Portal!PortalAssumption, PortalInv, Portal!Arrives, url.host \in ApAddr \union StaAddr
  PROVE  /\ url.host \in Portal!Own
         /\ side = "lan" => url.host \in StaAddr
<1>1. Located /\ peer = url.host /\ peer \in Portal!Reached
  BY PortalTypes DEF PortalInv, Browsing, Portal!Arrives
<1>. QED  BY <1>1 DEF Located, Portal!Reached, Portal!Own, Portal!PortalAssumption

LEMMA PortalSendsOn ==
  ASSUME Portal!PortalAssumption, PortalInv, NEW how \in {"refresh", "found"},
         Portal!Arrives, Portal!captive_portal_is_active, Portal!SentOn(how),
         \/ Portal!captive_portal_match /\ how = "refresh"
         \/ ~Portal!captive_portal_match
            /\ (Portal!captive_portal_is_landing \/ Portal!captive_portal_is_foreign_host)
  PROVE  PortalInv'
<1>1. Located /\ Browsing
  BY PortalTypes DEF PortalInv
<1>2. url.host \notin ApAddr \union StaAddr /\ url.host # hostname
  <2>1. url.host = ProbeHost \/ url.host \notin Portal!Own \union {hostname}
    BY DEF Portal!captive_portal_match, Portal!captive_portal_is_landing,
           Portal!captive_portal_is_foreign_host
  <2>2. ProbeHost \notin ApAddr \union StaAddr /\ ProbeHost # hostname
    BY DEF Portal!PortalAssumption
  <2>. QED  BY <2>1, <2>2, OwnAddress
<1>3. hops = 0 /\ url = asked
  BY <1>1, <1>2 DEF Browsing
<1>4. /\ reply' = how /\ url' = [host |-> Portal!ApAddress, path |-> "other"] /\ hops' = hops + 1
      /\ browsing' = "resolve"
      /\ UNCHANGED <<ap_enabled, ap_ip, sta_ip, changes, side, asked, peer, dns>>
  BY DEF Portal!SentOn, Portal!network
<1>5. Portal!ApAddress \in ApAddr
  BY <1>1 DEF Portal!ApAddress, Located, Portal!PortalAssumption
<1>6. url' \in Portal!Url /\ url'.host \in ApAddr /\ url'.path = "other"
  BY <1>4, <1>5 DEF Portal!Url, Portal!Host
<1>7. Portal!TypeOK'
  BY <1>1, <1>3, <1>4, <1>6, PortalTypes DEF Located
<1>8. hops' = 1
  BY <1>3, <1>4
<1>9. Portal!PortalReached'
  <2>1. reply' = "found" => ~(asked.host = ProbeHost /\ asked.path = "probe")
    BY <1>3, <1>4 DEF Portal!captive_portal_match
  <2>2. ~(side = "lan" /\ asked.host \in StaAddr \union {hostname})
    BY <1>2, <1>3
  <2>3. reply' # "page"
    BY <1>4
  <2>. QED  BY <1>4, <1>8, <2>1, <2>2, <2>3 DEF Portal!PortalReached
<1>10. Browsing' /\ AskedOfDns' /\ (ap_enabled' => ap_ip' # NoAddr)
  BY <1>4, <1>6, <1>8 DEF Browsing, PortalInv, AskedOfDns
<1>. QED  BY <1>7, <1>9, <1>10 DEF PortalInv

LEMMA PortalServesPage ==
  ASSUME Portal!PortalAssumption, PortalInv, Portal!ServePage
  PROVE  PortalInv'
<1>1. Located
  BY PortalTypes DEF PortalInv
<1>2. /\ reply' = "page" /\ browsing' = "done"
      /\ UNCHANGED <<ap_enabled, ap_ip, sta_ip, changes, side, asked, url, peer, hops, dns>>
  BY DEF Portal!ServePage, Portal!network
<1>3. Portal!TypeOK'
  BY <1>1, <1>2, PortalTypes DEF Located
<1>4. side = "ap" => url.host \notin {ProbeHost, OtherHost}
  <2>1. side = "ap" => Portal!captive_portal_is_active
    BY DEF Portal!ServePage, Portal!Arrives, Portal!Reached, PortalInv, Portal!captive_portal_is_active
  <2>2. Portal!captive_portal_is_active => url.host \in Portal!Own \union {hostname, NoHost}
    BY DEF Portal!ServePage, Portal!captive_portal_is_foreign_host
  <2>3. Portal!Own \subseteq ApAddr \union StaAddr
    BY <1>1 DEF Located, Portal!Own
  <2>4. {ProbeHost, OtherHost} \intersect (ApAddr \union StaAddr \union {hostname, NoHost}) = {}
    BY DEF Portal!PortalAssumption
  <2>. QED  BY <2>1, <2>2, <2>3, <2>4
<1>5. Portal!PortalReached'
  BY <1>2, <1>4 DEF PortalInv, Portal!PortalReached
<1>. QED  BY <1>2, <1>3, <1>5 DEF PortalInv, Browsing, AskedOfDns

LEMMA PortalInvariant ==
  ASSUME Portal!PortalAssumption, PortalInv, [Portal!Next]_Portal!vars
  PROVE  PortalInv'
<1>1. CASE UNCHANGED Portal!vars
  <2>1. UNCHANGED <<ap_enabled, ap_ip, sta_ip, changes, side, browsing, asked, url, peer, reply, hops, dns>>
    BY <1>1 DEF Portal!vars, Portal!network, Portal!browser
  <2>2. Portal!TypeOK'
    BY <2>1, PortalTypes DEF PortalInv, Located
  <2>. QED  BY <2>1, <2>2 DEF PortalInv, Browsing, Portal!PortalReached, AskedOfDns
<1>2. CASE Portal!ApChanges \/ Portal!StaChanges
  BY <1>2, PortalMoves
<1>3. CASE Portal!StrangerAsks
  BY <1>3, PortalStranger
<1>4. CASE Portal!Navigate \/ Portal!Resolve \/ Portal!Unreachable
  BY <1>4, PortalBrowses
<1>5. CASE Portal!ServeProbe
  <2>1. /\ Portal!Arrives /\ Portal!captive_portal_is_active /\ Portal!captive_portal_match
        /\ Portal!SentOn("refresh")
    BY <1>5 DEF Portal!ServeProbe
  <2>. QED  BY <2>1, PortalSendsOn
<1>6. CASE Portal!ServeLanding
  <2>1. /\ Portal!Arrives /\ Portal!captive_portal_is_active /\ Portal!captive_portal_is_landing
        /\ Portal!SentOn("found")
    BY <1>6 DEF Portal!ServeLanding
  <2>2. ~Portal!captive_portal_match
    BY <2>1 DEF Portal!captive_portal_match, Portal!captive_portal_is_landing
  <2>. QED  BY <2>1, <2>2, PortalSendsOn
<1>7. CASE Portal!ServeForeign
  <2>1. /\ Portal!Arrives /\ Portal!captive_portal_is_active /\ ~Portal!captive_portal_match
        /\ Portal!captive_portal_is_foreign_host /\ Portal!SentOn("found")
    BY <1>7 DEF Portal!ServeForeign
  <2>. QED  BY <2>1, PortalSendsOn
<1>8. CASE Portal!ServePage
  BY <1>8, PortalServesPage
<1>. QED  BY <1>1, <1>2, <1>3, <1>4, <1>5, <1>6, <1>7, <1>8 DEF Portal!Next

LEMMA PortalMeansIt ==
  ASSUME Portal!PortalAssumption, PortalInv
  PROVE  Portal!TypeOK /\ Portal!PortalReached /\ Portal!AnswersWholeQuestions
<1>1. Portal!AnswersWholeQuestions
  <2>1. PICK q \in Seq(Nat) : dns.query = q /\ dns.answer = Portal!DnsAnswer(q)
    BY DEF PortalInv, AskedOfDns
  <2>. QED  BY <2>1, AnswersRight DEF Portal!AnswersWholeQuestions
<1>. QED  BY <1>1 DEF PortalInv

(* Wherever the addresses move, a browser is sent on at most once and ends  *)
(* at the page it should see, and the DNS task answers whole questions and  *)
(* nothing else: for all addresses, names and messages (captive_portal.c,   *)
(* dns_task and captive_portal_intercept; web_proxy.c, handle_proxy).       *)
THEOREM BrowserReachesThePortal ==
  ASSUME Portal!PortalAssumption
  PROVE  /\ Portal!Spec => [](Portal!TypeOK /\ Portal!PortalReached /\ Portal!AnswersWholeQuestions)
         /\ PagesSpec => []Captive
<1>1. Portal!Init => PortalInv
  BY PortalInit
<1>2. PortalInv /\ [Portal!Next]_Portal!vars => PortalInv'
  BY PortalInvariant
<1>3. PortalInv => Portal!TypeOK /\ Portal!PortalReached /\ Portal!AnswersWholeQuestions
  BY PortalMeansIt
<1>4. Portal!Spec => [](Portal!TypeOK /\ Portal!PortalReached /\ Portal!AnswersWholeQuestions)
  BY <1>1, <1>2, <1>3, PTL DEF Portal!Spec
<1>5. PagesInit /\ Runs("portal") => Portal!Init
  BY DEF PagesInit, Runs
<1>6. [PagesNext]_<<part, pageVars>> =>
        /\ Runs("portal")' <=> Runs("portal")
        /\ Runs("portal") => [Portal!Next]_(Portal!vars)
  BY DEF Runs, PagesNext, pageVars, portalVars, Portal!vars, Portal!network, Portal!browser
<1>7. Runs("portal") => ((Portal!PortalReached /\ Portal!AnswersWholeQuestions) => Captive)
  BY DEF Captive
<1>8. ~Runs("portal") => Captive
  BY DEF Runs, Captive
<1>9. PagesSpec => []Captive
  BY <1>4, <1>5, <1>6, <1>7, <1>8, PTL DEF PagesSpec, Portal!Spec
<1>. QED  BY <1>4, <1>9
=============================================================================
