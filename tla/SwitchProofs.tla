---------------------------- MODULE SwitchProofs ----------------------------
(***************************************************************************)
(* Safety of the packet switch for any set of interface tasks, any ring    *)
(* size and any number of packets.  The rings are arrays with wrapping     *)
(* indices; two lemmas say what a write and a pop do to their contents as  *)
(* sequences, and the rest of the argument is about sequences.             *)
(***************************************************************************)
EXTENDS Switch, SequenceTheorems, TLAPS

Index == 0..(SW_RING_SIZE - 1)

Ring == [slots : [Index -> Packet \union {NoPkt}],
         head  : Index,
         tail  : Index,
         count : 0..SW_RING_SIZE]

\* The index of entry i of a ring, the oldest being entry 1.
At(r, i) == (r.tail + i - 1) % SW_RING_SIZE

\* The three indices agree and every entry is a packet.
Sound(r) ==
  /\ r \in Ring
  /\ r.head = (r.tail + r.count) % SW_RING_SIZE
  /\ \A i \in 1..r.count : r.slots[At(r, i)] \in Packet

(* Below twice the ring size a remainder is one subtraction at most, and    *)
(* that is all the ring ever needs.                                         *)
LEMMA Wrap ==
  ASSUME NEW n \in Nat \ {0}, NEW x \in 0..(2 * n - 1)
  PROVE  /\ x % n = IF x < n THEN x ELSE x - n
         /\ x % n \in 0..(n - 1)
<1>1. CASE x < n
  BY <1>1
<1>2. CASE x >= n
  BY <1>2
<1>. QED  BY <1>1, <1>2

(* The slot ring_push writes is not one of those that hold an entry.        *)
LEMMA HeadIsFree ==
  ASSUME NEW n \in Nat \ {0}, NEW t \in 0..(n - 1), NEW c \in 0..(n - 1),
         NEW i \in 1..c
  PROVE  (t + i - 1) % n # (t + c) % n
<1>1. PICK a \in Nat : a = t + i - 1
  OBVIOUS
<1>2. PICK b \in Nat : b = t + c
  OBVIOUS
<1>3. a < b /\ b < a + n /\ a \in 0..(2 * n - 1) /\ b \in 0..(2 * n - 1)
  BY <1>1, <1>2
<1>4. a % n = IF a < n THEN a ELSE a - n
  BY <1>3, Wrap
<1>5. b % n = IF b < n THEN b ELSE b - n
  BY <1>3, Wrap
<1>6. a % n # b % n
  BY <1>3, <1>4, <1>5
<1>. QED  BY <1>1, <1>2, <1>6

(* Advancing a wrapped index by one and then counting on is counting on     *)
(* from where it was.                                                       *)
LEMMA Advance ==
  ASSUME NEW n \in Nat \ {0}, NEW t \in 0..(n - 1), NEW k \in 0..n
  PROVE  (((t + 1) % n) + k) % n = (t + 1 + k) % n
<1>1. CASE t + 1 < n
  <2>1. (t + 1) % n = t + 1
    BY <1>1
  <2>. QED  BY <2>1
<1>2. CASE t + 1 = n
  <2>1. (t + 1) % n = 0
    BY <1>2
  <2>2. CASE k < n
    <3>1. (n + k) % n = k /\ k % n = k
      BY <2>2
    <3>. QED  BY <1>2, <2>1, <3>1
  <2>3. CASE k = n
    <3>1. (n + n) % n = n % n
      OBVIOUS
    <3>. QED  BY <1>2, <2>1, <2>3, <3>1
  <2>. QED  BY <2>2, <2>3
<1>. QED  BY <1>1, <1>2

(* Adding one before or after wrapping makes no difference.                 *)
LEMMA WrapNext ==
  ASSUME NEW n \in Nat \ {0}, NEW x \in 0..(2 * n - 2)
  PROVE  ((x % n) + 1) % n = (x + 1) % n
<1>1. CASE x < n
  <2>1. x % n = x
    BY <1>1
  <2>. QED  BY <2>1
<1>2. CASE x >= n
  <2>1. PICK y \in 0..(n - 2) : x = n + y
    BY <1>2
  <2>2. x % n = y
    BY <2>1
  <2>3. (y + 1) % n = y + 1 /\ (n + (y + 1)) % n = y + 1
    BY <2>1
  <2>4. x + 1 = n + (y + 1)
    BY <2>1
  <2>. QED  BY <2>2, <2>3, <2>4
<1>. QED  BY <1>1, <1>2

(* One step back from a wrapped index and one forward is where it was.      *)
LEMMA StepBack ==
  ASSUME NEW n \in Nat \ {0}, NEW x \in 0..(n - 1)
  PROVE  /\ (x + n - 1) % n \in 0..(n - 1)
         /\ (((x + n - 1) % n) + 1) % n = x
<1>1. CASE x = 0
  <2>1. n - 1 \in Nat /\ n - 1 < n
    OBVIOUS
  <2>2. (x + n - 1) % n = n - 1
    BY <1>1, <2>1
  <2>. QED  BY <1>1, <2>1, <2>2
<1>2. CASE x # 0
  <2>1. PICK k \in Nat : x = k + 1 /\ k < n - 1
    BY <1>2
  <2>2. x + n - 1 = n + k
    BY <2>1
  <2>3. (n + k) % n = k /\ (k + 1) % n = k + 1
    BY <2>1
  <2>. QED  BY <2>1, <2>2, <2>3
<1>. QED  BY <1>1, <1>2

(* The contents of a sound ring are a sequence of packets.                  *)
LEMMA ContentsType ==
  ASSUME SwitchAssumption, NEW r, Sound(r)
  PROVE  /\ Contents(r) \in Seq(Packet)
         /\ Len(Contents(r)) = r.count
         /\ \A i \in 1..r.count : Contents(r)[i] = r.slots[At(r, i)]
<1>1. r.count \in Nat
  BY DEF Sound, Ring, SwitchAssumption
<1>2. Contents(r) = [i \in 1..r.count |-> r.slots[At(r, i)]]
  BY DEF Contents, At
<1>3. \A i \in 1..r.count : r.slots[At(r, i)] \in Packet
  BY DEF Sound
<1>4. Contents(r) \in Seq(Packet)
  BY <1>1, <1>2, <1>3, IsASeq
<1>. QED  BY <1>1, <1>2, <1>4, LenProperties

(* Writing to a ring that is not full appends to its contents.              *)
LEMMA WriteAppends ==
  ASSUME SwitchAssumption, NEW r, Sound(r), ~RingFull(r), NEW pkt \in Packet
  PROVE  /\ Sound(Write(r, pkt))
         /\ Contents(Write(r, pkt)) = Append(Contents(r), pkt)
<1>. DEFINE w == Write(r, pkt)
<1>1. r.head \in Index /\ r.tail \in Index /\ r.count \in 0..(SW_RING_SIZE - 1)
  BY DEF Sound, Ring, RingFull, SwitchAssumption
<1>2. /\ w.slots = [r.slots EXCEPT ![r.head] = pkt]
      /\ w.head = (r.head + 1) % SW_RING_SIZE
      /\ w.tail = r.tail
      /\ w.count = r.count + 1
  BY DEF Sound, Ring, Write
<1>3. w \in Ring
  <2>1. w.head \in Index
    BY <1>1, <1>2, Wrap DEF Index, SwitchAssumption
  <2>2. w.slots \in [Index -> Packet \union {NoPkt}]
    BY <1>2 DEF Sound, Ring
  <2>3. w.count \in 0..SW_RING_SIZE
    BY <1>1, <1>2 DEF SwitchAssumption
  <2>. QED  BY <1>1, <1>2, <2>1, <2>2, <2>3 DEF Ring, Sound, Write
<1>4. w.head = (w.tail + w.count) % SW_RING_SIZE
  <2>1. r.head = (r.tail + r.count) % SW_RING_SIZE
    BY DEF Sound
  <2>2. (((r.tail + r.count) % SW_RING_SIZE) + 1) % SW_RING_SIZE
          = (r.tail + r.count + 1) % SW_RING_SIZE
    <3>1. r.tail + r.count \in 0..(2 * SW_RING_SIZE - 2)
      BY <1>1 DEF Index, SwitchAssumption
    <3>. QED  BY <3>1, WrapNext DEF SwitchAssumption
  <2>. QED  BY <1>1, <1>2, <2>1, <2>2 DEF Index, SwitchAssumption
<1>5. \A i \in 1..r.count : w.slots[At(w, i)] = r.slots[At(r, i)]
  <2>. SUFFICES ASSUME NEW i \in 1..r.count
                PROVE  w.slots[At(w, i)] = r.slots[At(r, i)]
    OBVIOUS
  <2>1. At(w, i) = At(r, i)
    BY <1>2 DEF At
  <2>2. At(r, i) # r.head
    BY <1>1, HeadIsFree DEF At, Sound, Index, SwitchAssumption
  <2>. QED  BY <1>2, <2>1, <2>2 DEF Sound, Ring
<1>6. w.slots[At(w, r.count + 1)] = pkt
  <2>1. At(w, r.count + 1) = r.head
    BY <1>1, <1>2 DEF At, Sound, Index, SwitchAssumption
  <2>. QED  BY <1>1, <1>2, <2>1 DEF Sound, Ring
<1>7. Sound(w)
  BY <1>1, <1>2, <1>3, <1>4, <1>5, <1>6 DEF Sound, SwitchAssumption
<1>8. Contents(w) = Append(Contents(r), pkt)
  <2>1. /\ Contents(w) \in Seq(Packet)
        /\ Len(Contents(w)) = r.count + 1
        /\ \A i \in 1..(r.count + 1) : Contents(w)[i] = w.slots[At(w, i)]
    BY <1>2, <1>7, ContentsType
  <2>2. /\ Contents(r) \in Seq(Packet)
        /\ Len(Contents(r)) = r.count
        /\ \A i \in 1..r.count : Contents(r)[i] = r.slots[At(r, i)]
    BY ContentsType
  <2>3. /\ Append(Contents(r), pkt) \in Seq(Packet)
        /\ Len(Append(Contents(r), pkt)) = r.count + 1
        /\ \A i \in 1..r.count : Append(Contents(r), pkt)[i] = Contents(r)[i]
        /\ Append(Contents(r), pkt)[r.count + 1] = pkt
    BY <2>2, AppendProperties
  <2>4. \A i \in 1..(r.count + 1) : Contents(w)[i] = Append(Contents(r), pkt)[i]
    BY <1>1, <1>5, <1>6, <2>1, <2>2, <2>3
  <2>. QED  BY <2>1, <2>3, <2>4, SeqEqual
<1>. QED  BY <1>7, <1>8

(* Removing the oldest entry takes the first packet off the contents.       *)
LEMMA RemoveTakesFirst ==
  ASSUME SwitchAssumption, NEW r, Sound(r), ~RingEmpty(r)
  PROVE  /\ Sound(RemoveOldest(r))
         /\ Oldest(r) \in Packet
         /\ ~RingFull(RemoveOldest(r))
         /\ Contents(r) = <<Oldest(r)>> \o Contents(RemoveOldest(r))
<1>. DEFINE w == RemoveOldest(r)
<1>1. r.head \in Index /\ r.tail \in Index /\ r.count \in 1..SW_RING_SIZE
  BY DEF Sound, Ring, RingEmpty, SwitchAssumption
<1>2. /\ w.slots = r.slots
      /\ w.head = r.head
      /\ w.tail = (r.tail + 1) % SW_RING_SIZE
      /\ w.count = r.count - 1
  BY DEF Sound, Ring, RemoveOldest
<1>3. w \in Ring
  <2>1. w.tail \in Index
    BY <1>1, <1>2, Wrap DEF Index, SwitchAssumption
  <2>2. w.count \in 0..SW_RING_SIZE
    BY <1>1, <1>2 DEF SwitchAssumption
  <2>. QED  BY <2>1, <2>2, <1>2 DEF Ring, Sound, RemoveOldest
<1>4. \A k \in 0..SW_RING_SIZE :
        (w.tail + k) % SW_RING_SIZE = (r.tail + 1 + k) % SW_RING_SIZE
  BY <1>1, <1>2, Advance DEF Index, SwitchAssumption
<1>5. w.head = (w.tail + w.count) % SW_RING_SIZE
  <2>1. (w.tail + w.count) % SW_RING_SIZE = (r.tail + 1 + w.count) % SW_RING_SIZE
    BY <1>1, <1>2, <1>4 DEF SwitchAssumption
  <2>2. r.tail + 1 + w.count = r.tail + r.count
    BY <1>1, <1>2 DEF Index, SwitchAssumption
  <2>. QED  BY <1>2, <2>1, <2>2 DEF Sound
<1>6. \A i \in 1..w.count : w.slots[At(w, i)] = r.slots[At(r, i + 1)]
  <2>. SUFFICES ASSUME NEW i \in 1..w.count
                PROVE  At(w, i) = At(r, i + 1)
    BY <1>2
  <2>1. i - 1 \in 0..SW_RING_SIZE
    BY <1>1, <1>2 DEF SwitchAssumption
  <2>. QED  BY <1>1, <1>2, <1>4, <2>1 DEF At, Index, SwitchAssumption
<1>7. Sound(w)
  BY <1>1, <1>2, <1>3, <1>5, <1>6 DEF Sound, SwitchAssumption
<1>8. Oldest(r) = r.slots[At(r, 1)] /\ Oldest(r) \in Packet
  <2>1. At(r, 1) = r.tail
    <3>1. r.tail + 1 - 1 = r.tail /\ r.tail % SW_RING_SIZE = r.tail
      BY <1>1 DEF Index, SwitchAssumption
    <3>. QED  BY <3>1 DEF At
  <2>. QED  BY <1>1, <2>1 DEF Oldest, Sound
<1>9. Contents(r) = <<Oldest(r)>> \o Contents(w)
  <2>1. /\ Contents(w) \in Seq(Packet)
        /\ Len(Contents(w)) = r.count - 1
        /\ \A i \in 1..(r.count - 1) : Contents(w)[i] = w.slots[At(w, i)]
    BY <1>2, <1>7, ContentsType
  <2>2. /\ Contents(r) \in Seq(Packet)
        /\ Len(Contents(r)) = r.count
        /\ \A i \in 1..r.count : Contents(r)[i] = r.slots[At(r, i)]
    BY ContentsType
  <2>. DEFINE one == <<Oldest(r)>>
              both == one \o Contents(w)
  <2>3. one \in Seq(Packet) /\ Len(one) = 1 /\ one[1] = Oldest(r)
    BY <1>8
  <2>4. /\ both \in Seq(Packet)
        /\ Len(both) = r.count
        /\ \A i \in 1..r.count : both[i] = IF i <= 1 THEN one[i]
                                           ELSE Contents(w)[i - 1]
    <3>. HIDE DEF one
    <3>1. /\ Len(both) = Len(one) + Len(Contents(w))
          /\ both \in Seq(Packet)
          /\ \A i \in 1..Len(both) : both[i] = IF i <= Len(one) THEN one[i]
                                               ELSE Contents(w)[i - Len(one)]
      BY <2>1, <2>3, ConcatProperties
    <3>. QED  BY <1>1, <2>1, <2>3, <3>1 DEF SwitchAssumption
  <2>5. ASSUME NEW i \in 1..r.count
        PROVE  Contents(r)[i] = both[i]
    <3>1. CASE i = 1
      BY <1>8, <2>2, <2>3, <2>4, <3>1
    <3>2. CASE i # 1
      <4>1. i - 1 \in 1..(r.count - 1) /\ (i - 1) + 1 = i
        BY <1>1, <3>2
      <4>2. Contents(w)[i - 1] = r.slots[At(r, i)]
        BY <1>2, <1>6, <2>1, <4>1
      <4>. QED  BY <1>1, <2>2, <2>4, <3>2, <4>2
    <3>. QED  BY <3>1, <3>2
  <2>. QED  BY <2>2, <2>4, <2>5, SeqEqual
<1>. QED  BY <1>1, <1>2, <1>7, <1>8, <1>9 DEF RingFull, SwitchAssumption

(* ring_push on a ring that takes the packet: nothing is lost unless the    *)
(* ring was full, and then the oldest entry.                                *)
LEMMA PushSound ==
  ASSUME SwitchAssumption, NEW r, Sound(r), NEW pkt \in Packet
  PROVE  /\ Sound(RingPush(r, pkt))
         /\ ~RingFull(r) =>
              Contents(RingPush(r, pkt)) = Append(Contents(r), pkt)
         /\ RingFull(r) =>
              Contents(RingPush(r, pkt)) = Append(Contents(RemoveOldest(r)), pkt)
<1>1. CASE RingFull(r)
  <2>1. ~RingEmpty(r)
    BY <1>1 DEF RingFull, RingEmpty, SwitchAssumption
  <2>2. Sound(RemoveOldest(r)) /\ ~RingFull(RemoveOldest(r))
    BY <2>1, RemoveTakesFirst
  <2>. QED  BY <1>1, <2>2, WriteAppends DEF RingPush
<1>2. CASE ~RingFull(r)
  BY <1>2, WriteAppends DEF RingPush
<1>. QED  BY <1>1, <1>2

(* Putting a refused packet back in front keeps the ring sound.             *)
LEMMA FrontSound ==
  ASSUME SwitchAssumption, NEW r, Sound(r), NEW pkt \in Packet
  PROVE  Sound(RingPushFrontDrop(r, pkt))
<1>1. CASE RingFull(r)
  BY <1>1 DEF RingPushFrontDrop
<1>2. CASE ~RingFull(r)
  <2>. DEFINE t == (r.tail + SW_RING_SIZE - 1) % SW_RING_SIZE
              w == RingPushFrontDrop(r, pkt)
  <2>1. r.head \in Index /\ r.tail \in Index /\ r.count \in 0..(SW_RING_SIZE - 1)
    BY <1>2 DEF Sound, Ring, RingFull, SwitchAssumption
  <2>2. t \in Index /\ (t + 1) % SW_RING_SIZE = r.tail
    BY <2>1, StepBack DEF Index, SwitchAssumption
  <2>. HIDE DEF t
  <2>3. /\ w.slots = [r.slots EXCEPT ![t] = pkt]
        /\ w.head = r.head
        /\ w.tail = t
        /\ w.count = r.count + 1
        /\ w \in Ring
    <3>1. w = [r EXCEPT !.slots = [@ EXCEPT ![t] = pkt],
                        !.tail  = t,
                        !.count = @ + 1]
      BY <1>2 DEF RingPushFrontDrop, t
    <3>2. [r.slots EXCEPT ![t] = pkt] \in [Index -> Packet \union {NoPkt}]
      BY <2>2 DEF Sound, Ring
    <3>3. r.count + 1 \in 0..SW_RING_SIZE
      BY <2>1 DEF SwitchAssumption
    <3>. HIDE DEF w
    <3>. QED  BY <2>1, <2>2, <3>1, <3>2, <3>3 DEF Sound, Ring
  <2>. HIDE DEF w
  <2>4. \A k \in 0..SW_RING_SIZE :
          (r.tail + k) % SW_RING_SIZE = (t + 1 + k) % SW_RING_SIZE
    BY <2>2, Advance DEF Index, SwitchAssumption
  <2>5. w.head = (w.tail + w.count) % SW_RING_SIZE
    <3>1. r.head = (t + 1 + r.count) % SW_RING_SIZE
      BY <2>1, <2>4 DEF Sound, SwitchAssumption
    <3>2. t + 1 + r.count = t + (r.count + 1)
      BY <2>1, <2>2 DEF Index, SwitchAssumption
    <3>. QED  BY <2>3, <3>1, <3>2
  <2>6. ASSUME NEW i \in 1..w.count
        PROVE  w.slots[At(w, i)] \in Packet
    <3>1. CASE i = 1
      <4>1. t + 1 - 1 = t /\ t % SW_RING_SIZE = t
        BY <2>2 DEF Index, SwitchAssumption
      <4>2. At(w, i) = t
        BY <2>3, <3>1, <4>1 DEF At
      <4>. QED  BY <2>2, <2>3, <4>2 DEF Sound, Ring
    <3>2. CASE i # 1
      <4>1. PICK j \in 1..r.count : i = j + 1
        BY <2>1, <2>3, <3>2 DEF SwitchAssumption
      <4>2. j - 1 \in 0..SW_RING_SIZE
        BY <2>1 DEF SwitchAssumption
      <4>3. r.tail + (j - 1) = r.tail + j - 1 /\ t + 1 + (j - 1) = t + i - 1
        BY <2>1, <2>2, <4>1 DEF Index, SwitchAssumption
      <4>4. At(w, i) = At(r, j)
        BY <2>3, <2>4, <4>2, <4>3 DEF At
      <4>5. r.slots[At(w, i)] \in Packet
        BY <4>4 DEF Sound
      <4>6. At(w, i) \in Index
        <5>1. r.tail + j - 1 \in 0..(2 * SW_RING_SIZE - 1)
          BY <2>1 DEF Index, SwitchAssumption
        <5>. QED  BY <4>4, <5>1, Wrap DEF At, Index, SwitchAssumption
      <4>. QED  BY <2>2, <2>3, <4>5, <4>6 DEF Sound, Ring
    <3>. QED  BY <3>1, <3>2
  <2>. QED  BY <2>3, <2>5, <2>6 DEF Sound, w
<1>. QED  BY <1>1, <1>2

(* A refused packet that finds room becomes the oldest entry.               *)
LEMMA FrontPuts ==
  ASSUME SwitchAssumption, NEW r, Sound(r), ~RingFull(r), NEW pkt \in Packet
  PROVE  Contents(RingPushFrontDrop(r, pkt)) = <<pkt>> \o Contents(r)
<1>. DEFINE t == (r.tail + SW_RING_SIZE - 1) % SW_RING_SIZE
            w == RingPushFrontDrop(r, pkt)
            back == RemoveOldest(w)
<1>1. r.tail \in Index /\ r.count \in 0..(SW_RING_SIZE - 1)
  BY DEF Sound, Ring, RingFull, SwitchAssumption
<1>2. t \in Index /\ (t + 1) % SW_RING_SIZE = r.tail
  BY <1>1, StepBack DEF Index, SwitchAssumption
<1>3. w = [r EXCEPT !.slots = [@ EXCEPT ![t] = pkt], !.tail = t, !.count = @ + 1]
  BY DEF RingPushFrontDrop
<1>. HIDE DEF t
<1>4. w.slots = [r.slots EXCEPT ![t] = pkt] /\ w.tail = t /\ w.count = r.count + 1
  BY <1>3 DEF Sound, Ring
<1>5. Sound(w)
  BY FrontSound
<1>. HIDE DEF w
<1>6. Oldest(w) = pkt
  BY <1>2, <1>4 DEF Oldest, Sound, Ring
<1>7. ~RingEmpty(w)
  BY <1>1, <1>4 DEF RingEmpty, SwitchAssumption
<1>8. Sound(back) /\ Contents(w) = <<pkt>> \o Contents(back)
  BY <1>5, <1>6, <1>7, RemoveTakesFirst
<1>9. back.slots = w.slots /\ back.tail = r.tail /\ back.count = r.count
  BY <1>1, <1>2, <1>4, <1>5 DEF RemoveOldest, Sound, Ring, SwitchAssumption
<1>10. \A i \in 1..r.count : back.slots[At(back, i)] = r.slots[At(r, i)]
  <2>. SUFFICES ASSUME NEW i \in 1..r.count
                PROVE  back.slots[At(back, i)] = r.slots[At(r, i)]
    OBVIOUS
  <2>1. At(back, i) = At(r, i)
    BY <1>9 DEF At
  <2>2. At(r, i) # t
    <3>1. i \in 1..(SW_RING_SIZE - 1) /\ SW_RING_SIZE - 1 \in 0..(SW_RING_SIZE - 1)
      BY <1>1 DEF SwitchAssumption
    <3>2. (r.tail + i - 1) % SW_RING_SIZE # (r.tail + (SW_RING_SIZE - 1)) % SW_RING_SIZE
      BY <1>1, <3>1, HeadIsFree DEF Index, SwitchAssumption
    <3>3. r.tail + (SW_RING_SIZE - 1) = r.tail + SW_RING_SIZE - 1
      BY <1>1 DEF Index, SwitchAssumption
    <3>. QED  BY <3>2, <3>3 DEF At, t
  <2>. QED  BY <1>4, <1>9, <2>1, <2>2 DEF Sound, Ring
<1>11. Contents(back) = Contents(r)
  <2>1. \A i \in 1..r.count : Contents(back)[i] = Contents(r)[i]
    BY <1>8, <1>9, <1>10, ContentsType
  <2>. QED  BY <1>8, <1>9, <2>1, ContentsType, SeqEqual
<1>. QED  BY <1>8, <1>11 DEF w
-----------------------------------------------------------------------------
(* What every step preserves.  The dispatch task is inside a sink only with *)
(* a packet in hand, and a task is inside switch_rx only with a packet:     *)
(* without the two the histories could not be sequences of packets.         *)
Inv ==
  /\ TypeOK
  /\ \A p \in Port : Sound(ring[p])
  /\ dispatch.calling => hand[dispatch.port] \in Packet
  /\ \A t \in Task : rx[t].at # Idle => rx[t].pkt \in Packet
  /\ HalowLossless

LEMMA InitInv ==
  ASSUME SwitchAssumption, Init
  PROVE  Inv
<1>1. \A p \in Port : Sound(ring[p])
  <2>. SUFFICES ASSUME NEW p \in Port PROVE Sound(ring[p])
    OBVIOUS
  <2>1. 0 \in Index /\ 0 % SW_RING_SIZE = 0 /\ 0 \in 0..SW_RING_SIZE
    BY DEF Index, SwitchAssumption
  <2>2. ring[p] = [slots |-> [i \in Index |-> NoPkt],
                   head |-> 0, tail |-> 0, count |-> 0]
    BY DEF Init, Index
  <2>. QED  BY <2>1, <2>2 DEF Sound, Ring
<1>2. TypeOK
  <2>1. ring \in [Port -> Ring]
    BY <1>1 DEF Init, Sound
  <2>2. /\ sink \in [Port -> BOOLEAN]
        /\ hand \in [Port -> Packet \union {NoPkt}]
        /\ dispatch \in [port : Port, calling : BOOLEAN]
        /\ rx \in [Task -> [at : Port \union {Idle}, pkt : Packet \union {NoPkt}]]
    BY DEF Init, Port, SW_SRC_HALOW
  <2>3. /\ received \in [Task -> Seq(Packet)]
        /\ accepted \in [Port -> Seq(Packet)]
        /\ delivered \in [Port -> Seq(Packet)]
    BY DEF Init
  <2>. QED  BY <2>1, <2>2, <2>3 DEF TypeOK, Ring, Index
<1>3. HalowLossless
  <2>1. SW_SRC_HALOW \in Port
    BY DEF SW_SRC_HALOW, Port
  <2>2. Sound(ring[SW_SRC_HALOW]) /\ ring[SW_SRC_HALOW].count = 0
    BY <1>1, <2>1 DEF Init
  <2>3. Contents(ring[SW_SRC_HALOW]) = <<>>
    BY <2>2, ContentsType, EmptySeq
  <2>4. /\ accepted[SW_SRC_HALOW] = <<>>
        /\ delivered[SW_SRC_HALOW] = <<>>
        /\ InHand(SW_SRC_HALOW) = <<>>
    BY <2>1 DEF Init, InHand
  <2>. QED  BY <2>3, <2>4, ConcatEmptySeq, EmptySeq DEF HalowLossless, Path
<1>. QED  BY <1>1, <1>2, <1>3 DEF Init, Inv

(* A history grows by the one packet an action adds.                        *)
LEMMA HistoryGrows ==
  ASSUME NEW D, NEW h \in [D -> Seq(Packet)], NEW d \in D, NEW pkt \in Packet
  PROVE  [h EXCEPT ![d] = Append(@, pkt)] \in [D -> Seq(Packet)]
<1>1. Append(h[d], pkt) \in Seq(Packet)
  BY AppendProperties
<1>. QED  BY <1>1

(* What the histories and the paths look like in a good state.              *)
LEMMA PathTypes ==
  ASSUME SwitchAssumption, Inv, NEW p \in Port
  PROVE  /\ Sound(ring[p])
         /\ accepted[p] \in Seq(Packet)
         /\ delivered[p] \in Seq(Packet)
         /\ InHand(p) \in Seq(Packet)
         /\ Contents(ring[p]) \in Seq(Packet)
<1>1. hand[p] \in Packet \union {NoPkt}
  BY DEF Inv, TypeOK
<1>2. InHand(p) \in Seq(Packet)
  <2>1. CASE hand[p] = NoPkt
    BY <2>1, EmptySeq DEF InHand
  <2>2. CASE hand[p] # NoPkt
    BY <1>1, <2>2 DEF InHand
  <2>. QED  BY <2>1, <2>2
<1>. QED  BY <1>2, ContentsType DEF Inv, TypeOK

(* A producer's ring_push: only the HaLow ring is never full here.          *)
LEMMA PushRingInv ==
  ASSUME SwitchAssumption, Inv, NEW t \in Task, PushRing(t)
  PROVE  Inv'
<1>1. PICK p \in Port, pkt \in Packet :
      /\ p = rx[t].at
      /\ pkt = rx[t].pkt
      /\ RingFull(ring[p]) => DropOk(p)
      /\ ring' = [ring EXCEPT ![p] = RingPush(@, pkt)]
      /\ accepted' = [accepted EXCEPT ![p] = Append(@, pkt)]
      /\ rx' = [rx EXCEPT ![t].at = @ + 1]
      /\ UNCHANGED <<sink, hand, dispatch, received, delivered>>
  <2>1. rx[t].at \in Port /\ rx[t].at # Idle
    BY DEF PushRing, Port, Idle
  <2>2. rx[t].pkt \in Packet
    BY <2>1 DEF Inv
  <2>. QED  BY <2>1, <2>2 DEF PushRing, NextRing
<1>2. /\ ring \in [Port -> Ring]
      /\ accepted \in [Port -> Seq(Packet)]
      /\ rx \in [Task -> [at : Port \union {Idle}, pkt : Packet \union {NoPkt}]]
  BY DEF Inv, TypeOK, Ring, Index
<1>3. Sound(RingPush(ring[p], pkt))
  BY <1>1, PushSound DEF Inv
<1>4. \A q \in Port : Sound(ring'[q])
  BY <1>1, <1>2, <1>3 DEF Inv
<1>5. ring' \in [Port -> Ring]
  BY <1>1, <1>2, <1>3 DEF Sound
<1>6. accepted' \in [Port -> Seq(Packet)]
  BY <1>1, <1>2, HistoryGrows
<1>7. /\ rx' \in [Task -> [at : Port \union {Idle}, pkt : Packet \union {NoPkt}]]
      /\ \A u \in Task : rx'[u].at # Idle => rx'[u].pkt \in Packet
  <2>1. rx[t].at + 1 \in Port \union {Idle}
    BY <1>1 DEF Port, Idle
  <2>2. \A u \in Task : rx[u].at # Idle => rx[u].pkt \in Packet
    BY DEF Inv
  <2>3. rx[t].pkt \in Packet
    BY <1>1
  <2>. QED  BY <1>1, <1>2, <2>1, <2>2, <2>3
<1>8. TypeOK'
  BY <1>1, <1>5, <1>6, <1>7 DEF Inv, TypeOK, Ring, Index
<1>9. HalowLossless'
  <2>1. CASE p = SW_SRC_HALOW
    <3>1. ~RingFull(ring[p])
      BY <1>1, <2>1 DEF DropOk
    <3>2. Contents(ring'[p]) = Append(Contents(ring[p]), pkt)
      BY <1>1, <1>2, <3>1, PushSound DEF Inv
    <3>3. accepted'[p] = Append(accepted[p], pkt)
      BY <1>1, <1>2
    <3>4. Path(p)' = delivered[p] \o InHand(p) \o Append(Contents(ring[p]), pkt)
      BY <1>1, <3>2 DEF Path, InHand
    <3>5. delivered[p] \o InHand(p) \o Append(Contents(ring[p]), pkt)
            = Append(Path(p), pkt)
      <4>. DEFINE d == delivered[p]
                  h == InHand(p)
                  c == Contents(ring[p])
      <4>1. d \in Seq(Packet) /\ h \in Seq(Packet) /\ c \in Seq(Packet)
        BY <1>1, PathTypes
      <4>2. Path(p) = (d \o h) \o c
        BY DEF Path
      <4>. HIDE DEF d, h, c
      <4>3. <<pkt>> \in Seq(Packet)
        BY <1>1
      <4>4. d \o h \in Seq(Packet)
        BY <4>1, ConcatProperties
      <4>5. Append(c, pkt) = c \o <<pkt>>
        BY <1>1, <4>1, AppendIsConcat
      <4>6. (d \o h) \o (c \o <<pkt>>) = ((d \o h) \o c) \o <<pkt>>
        BY <4>1, <4>3, <4>4, ConcatAssociative
      <4>7. (d \o h) \o c \in Seq(Packet)
        BY <4>1, <4>4, ConcatProperties
      <4>8. Append((d \o h) \o c, pkt) = ((d \o h) \o c) \o <<pkt>>
        BY <1>1, <4>7, AppendIsConcat
      <4>. QED  BY <4>2, <4>5, <4>6, <4>8 DEF d, h, c
    <3>. QED  BY <2>1, <3>3, <3>4, <3>5 DEF HalowLossless, Inv
  <2>2. CASE p # SW_SRC_HALOW
    <3>1. /\ accepted'[SW_SRC_HALOW] = accepted[SW_SRC_HALOW]
          /\ ring'[SW_SRC_HALOW] = ring[SW_SRC_HALOW]
      BY <1>1, <1>2, <2>2 DEF Port, SW_SRC_HALOW
    <3>. QED  BY <1>1, <3>1 DEF HalowLossless, Inv, Path, InHand
  <2>. QED  BY <2>1, <2>2
<1>. QED  BY <1>1, <1>4, <1>7, <1>8, <1>9 DEF Inv

(* ring_pop: what leaves the ring is in the hand.                           *)
LEMMA DispatchPopInv ==
  ASSUME SwitchAssumption, Inv, DispatchPop
  PROVE  Inv'
<1>1. PICK p \in Port :
      /\ p = dispatch.port
      /\ hand[p] = NoPkt
      /\ ~RingEmpty(ring[p])
      /\ hand' = [hand EXCEPT ![p] = Oldest(ring[p])]
      /\ ring' = [ring EXCEPT ![p] = RemoveOldest(@)]
      /\ dispatch' = [dispatch EXCEPT !.calling = TRUE]
      /\ UNCHANGED <<sink, rx, received, accepted, delivered>>
  BY DEF DispatchPop, CallSink, Inv, TypeOK
<1>2. /\ ring \in [Port -> Ring]
      /\ hand \in [Port -> Packet \union {NoPkt}]
      /\ dispatch \in [port : Port, calling : BOOLEAN]
  BY DEF Inv, TypeOK, Ring, Index
<1>3. dispatch' \in [port : Port, calling : BOOLEAN] /\ dispatch'.port = p
  BY <1>1, <1>2
<1>4. /\ Sound(RemoveOldest(ring[p]))
      /\ Oldest(ring[p]) \in Packet
      /\ Contents(ring[p]) = <<Oldest(ring[p])>> \o Contents(RemoveOldest(ring[p]))
  BY <1>1, RemoveTakesFirst DEF Inv
<1>5. \A q \in Port : Sound(ring'[q])
  BY <1>1, <1>2, <1>4 DEF Inv
<1>6. ring' \in [Port -> Ring]
  BY <1>1, <1>2, <1>4 DEF Sound
<1>7. hand' \in [Port -> Packet \union {NoPkt}] /\ hand'[p] \in Packet
  BY <1>1, <1>2, <1>4
<1>8. TypeOK'
  BY <1>1, <1>3, <1>6, <1>7 DEF Inv, TypeOK, Ring, Index
<1>9. HalowLossless'
  <2>1. CASE p = SW_SRC_HALOW
    <3>1. InHand(p) = <<>> /\ InHand(p)' = <<Oldest(ring[p])>>
      BY <1>1, <1>2, <1>4 DEF InHand, SwitchAssumption
    <3>2. Contents(ring'[p]) = Contents(RemoveOldest(ring[p]))
      BY <1>1, <1>2
    <3>3. delivered[p] \in Seq(Packet)
      BY <1>1, PathTypes
    <3>4. delivered[p] \o <<>> \o Contents(ring[p])
            = delivered[p] \o <<Oldest(ring[p])>> \o Contents(RemoveOldest(ring[p]))
      <4>. DEFINE d == delivered[p]
                  o == <<Oldest(ring[p])>>
                  c == Contents(RemoveOldest(ring[p]))
      <4>1. o \in Seq(Packet)
        BY <1>4
      <4>2. c \in Seq(Packet)
        BY <1>4, ContentsType
      <4>3. Contents(ring[p]) = o \o c
        BY <1>4
      <4>4. d \in Seq(Packet) /\ d \o <<>> = d
        BY <3>3, ConcatEmptySeq
      <4>. HIDE DEF d, o, c
      <4>5. d \o (o \o c) = (d \o o) \o c
        BY <4>1, <4>2, <4>4, ConcatAssociative
      <4>. QED  BY <4>3, <4>4, <4>5 DEF d, o, c
    <3>5. Path(p)' = Path(p)
      BY <1>1, <3>1, <3>2, <3>4 DEF Path
    <3>. QED  BY <1>1, <2>1, <3>5 DEF HalowLossless, Inv
  <2>2. CASE p # SW_SRC_HALOW
    <3>1. /\ hand'[SW_SRC_HALOW] = hand[SW_SRC_HALOW]
          /\ ring'[SW_SRC_HALOW] = ring[SW_SRC_HALOW]
      BY <1>1, <1>2, <2>2 DEF Port, SW_SRC_HALOW
    <3>. QED  BY <1>1, <3>1 DEF HalowLossless, Inv, Path, InHand
  <2>. QED  BY <2>1, <2>2
<1>. QED  BY <1>1, <1>3, <1>5, <1>7, <1>8, <1>9 DEF Inv

(* A sink that takes the packet: what leaves the hand is delivered.         *)
LEMMA SinkAcceptsInv ==
  ASSUME SwitchAssumption, Inv, NEW p \in Port, SinkAccepts(p)
  PROVE  Inv'
<1>1. /\ dispatch.port = p /\ dispatch.calling
      /\ hand[p] \in Packet
      /\ delivered' = [delivered EXCEPT ![p] = Append(@, hand[p])]
      /\ hand' = [hand EXCEPT ![p] = NoPkt]
      /\ dispatch' = [port |-> (p + 1) % 3, calling |-> FALSE]
      /\ UNCHANGED <<ring, sink, rx, received, accepted>>
  BY DEF SinkAccepts, NextPort, Inv
<1>2. /\ hand \in [Port -> Packet \union {NoPkt}]
      /\ delivered \in [Port -> Seq(Packet)]
  BY DEF Inv, TypeOK
<1>3. dispatch' \in [port : Port, calling : BOOLEAN] /\ ~dispatch'.calling
  BY <1>1 DEF Port
<1>4. /\ hand' \in [Port -> Packet \union {NoPkt}]
      /\ delivered' \in [Port -> Seq(Packet)]
  BY <1>1, <1>2, HistoryGrows
<1>5. TypeOK'
  BY <1>1, <1>3, <1>4 DEF Inv, TypeOK
<1>6. HalowLossless'
  <2>1. CASE p = SW_SRC_HALOW
    <3>1. hand[p] # NoPkt
      BY <1>1 DEF SwitchAssumption
    <3>2. InHand(p) = <<hand[p]>> /\ InHand(p)' = <<>>
      BY <1>1, <1>2, <3>1 DEF InHand
    <3>3. delivered'[p] = Append(delivered[p], hand[p])
      BY <1>1, <1>2
    <3>4. delivered[p] \in Seq(Packet)
      BY PathTypes
    <3>5. Append(delivered[p], hand[p]) = delivered[p] \o <<hand[p]>>
      BY <1>1, <3>4, AppendIsConcat
    <3>6. Append(delivered[p], hand[p]) \o <<>> = Append(delivered[p], hand[p])
      BY <1>1, <3>4, AppendProperties, ConcatEmptySeq
    <3>7. Path(p)' = Path(p)
      BY <1>1, <3>2, <3>3, <3>5, <3>6 DEF Path
    <3>. QED  BY <1>1, <2>1, <3>7 DEF HalowLossless, Inv
  <2>2. CASE p # SW_SRC_HALOW
    <3>1. /\ hand'[SW_SRC_HALOW] = hand[SW_SRC_HALOW]
          /\ delivered'[SW_SRC_HALOW] = delivered[SW_SRC_HALOW]
      BY <1>1, <1>2, <2>2 DEF Port, SW_SRC_HALOW
    <3>. QED  BY <1>1, <3>1 DEF HalowLossless, Inv, Path, InHand
  <2>. QED  BY <2>1, <2>2
<1>. QED  BY <1>1, <1>3, <1>5, <1>6 DEF Inv

(* A sink that refuses: the HaLow packet stays in the hand, the others go   *)
(* back in front of their ring.                                             *)
LEMMA SinkRefusesInv ==
  ASSUME SwitchAssumption, Inv, NEW p \in Port, SinkRefuses(p)
  PROVE  Inv'
<1>1. /\ dispatch.port = p /\ dispatch.calling
      /\ hand[p] \in Packet
      /\ dispatch' = [port |-> (p + 1) % 3, calling |-> FALSE]
      /\ UNCHANGED <<sink, rx, received, accepted, delivered>>
  BY DEF SinkRefuses, NextPort, Inv
<1>2. /\ ring \in [Port -> Ring]
      /\ hand \in [Port -> Packet \union {NoPkt}]
  BY DEF Inv, TypeOK, Ring, Index
<1>3. dispatch' \in [port : Port, calling : BOOLEAN] /\ ~dispatch'.calling
  BY <1>1 DEF Port
<1>4. CASE DropOk(p)
  <2>1. /\ ring' = [ring EXCEPT ![p] = RingPushFrontDrop(@, hand[p])]
        /\ hand' = [hand EXCEPT ![p] = NoPkt]
        /\ p # SW_SRC_HALOW
    BY <1>4 DEF SinkRefuses, DropOk
  <2>2. Sound(RingPushFrontDrop(ring[p], hand[p]))
    BY <1>1, FrontSound DEF Inv
  <2>3. \A q \in Port : Sound(ring'[q])
    BY <1>2, <2>1, <2>2 DEF Inv
  <2>4. ring' \in [Port -> Ring]
    BY <1>2, <2>1, <2>2 DEF Sound
  <2>5. hand' \in [Port -> Packet \union {NoPkt}]
    BY <1>2, <2>1
  <2>6. TypeOK'
    BY <1>1, <1>3, <2>4, <2>5 DEF Inv, TypeOK, Ring, Index
  <2>7. HalowLossless'
    <3>1. /\ hand'[SW_SRC_HALOW] = hand[SW_SRC_HALOW]
          /\ ring'[SW_SRC_HALOW] = ring[SW_SRC_HALOW]
      BY <1>2, <2>1 DEF Port, SW_SRC_HALOW
    <3>. QED  BY <1>1, <3>1 DEF HalowLossless, Inv, Path, InHand
  <2>. QED  BY <1>1, <1>3, <2>3, <2>6, <2>7 DEF Inv
<1>5. CASE ~DropOk(p)
  <2>1. UNCHANGED <<ring, hand>>
    BY <1>5 DEF SinkRefuses
  <2>2. TypeOK'
    BY <1>1, <1>3, <2>1 DEF Inv, TypeOK
  <2>3. HalowLossless'
    BY <1>1, <2>1 DEF HalowLossless, Inv, Path, InHand
  <2>. QED  BY <1>1, <1>3, <2>1, <2>2, <2>3 DEF Inv
<1>. QED  BY <1>4, <1>5

(* An interface task enters switch_rx with a fresh packet.                  *)
LEMMA SwitchRxInv ==
  ASSUME SwitchAssumption, Inv, NEW t \in Task, SwitchRx(t)
  PROVE  Inv'
<1>1. PICK len \in Lens :
        LET pkt == [task |-> t, n |-> Len(received[t]) + 1, len |-> len]
        IN  /\ rx' = [rx EXCEPT ![t] = [at |-> SW_SRC_BLE, pkt |-> pkt]]
            /\ received' = [received EXCEPT ![t] = Append(@, pkt)]
  BY DEF SwitchRx
<1>2. /\ Len(received[t]) < MaxRx[t]
      /\ UNCHANGED <<ring, sink, hand, dispatch, accepted, delivered>>
  BY DEF SwitchRx
<1>3. received[t] \in Seq(Packet) /\ Len(received[t]) \in Nat
  <2>1. received[t] \in Seq(Packet)
    BY DEF Inv, TypeOK
  <2>. QED  BY <2>1, LenProperties
<1>4. PICK pkt \in Packet :
        /\ rx' = [rx EXCEPT ![t] = [at |-> SW_SRC_BLE, pkt |-> pkt]]
        /\ received' = [received EXCEPT ![t] = Append(@, pkt)]
  <2>1. Len(received[t]) + 1 \in 1..MaxRx[t]
    BY <1>2, <1>3 DEF SwitchAssumption
  <2>2. [task |-> t, n |-> Len(received[t]) + 1, len |-> len] \in Packet
    BY <2>1 DEF Packet
  <2>. QED  BY <1>1, <2>2
<1>5. /\ rx \in [Task -> [at : Port \union {Idle}, pkt : Packet \union {NoPkt}]]
      /\ received \in [Task -> Seq(Packet)]
      /\ \A u \in Task : rx[u].at # Idle => rx[u].pkt \in Packet
  BY DEF Inv, TypeOK
<1>6. /\ rx' \in [Task -> [at : Port \union {Idle}, pkt : Packet \union {NoPkt}]]
      /\ \A u \in Task : rx'[u].at # Idle => rx'[u].pkt \in Packet
  BY <1>4, <1>5 DEF Port, SW_SRC_BLE
<1>7. received' \in [Task -> Seq(Packet)]
  BY <1>4, <1>5, HistoryGrows
<1>8. TypeOK'
  BY <1>2, <1>6, <1>7 DEF Inv, TypeOK
<1>9. HalowLossless'
  BY <1>2 DEF HalowLossless, Inv, Path, InHand
<1>. QED  BY <1>2, <1>6, <1>8, <1>9 DEF Inv

(* The steps that move a loop counter or a flag and no packet.              *)
LEMMA SkipRingInv ==
  ASSUME SwitchAssumption, Inv, NEW t \in Task, SkipRing(t)
  PROVE  Inv'
<1>1. /\ rx[t].at \in Port
      /\ rx' = [rx EXCEPT ![t].at = @ + 1]
      /\ UNCHANGED <<ring, sink, hand, dispatch, received, accepted, delivered>>
  BY DEF SkipRing, NextRing
<1>2. /\ rx \in [Task -> [at : Port \union {Idle}, pkt : Packet \union {NoPkt}]]
      /\ \A u \in Task : rx[u].at # Idle => rx[u].pkt \in Packet
  BY DEF Inv, TypeOK
<1>3. rx[t].at + 1 \in Port \union {Idle} /\ rx[t].pkt \in Packet
  BY <1>1, <1>2 DEF Port, Idle
<1>4. /\ rx' \in [Task -> [at : Port \union {Idle}, pkt : Packet \union {NoPkt}]]
      /\ \A u \in Task : rx'[u].at # Idle => rx'[u].pkt \in Packet
  BY <1>1, <1>2, <1>3
<1>5. TypeOK'
  BY <1>1, <1>4 DEF Inv, TypeOK
<1>6. HalowLossless'
  BY <1>1 DEF HalowLossless, Inv, Path, InHand
<1>. QED  BY <1>1, <1>4, <1>5, <1>6 DEF Inv

LEMMA ControlInv ==
  ASSUME SwitchAssumption, Inv,
         \/ \E p \in Port : RegisterSink(p)
         \/ DispatchSkip
         \/ DispatchHeld
         \/ UNCHANGED vars
  PROVE  Inv'
<1>1. /\ UNCHANGED <<ring, hand, rx, received, accepted, delivered>>
      /\ sink' \in [Port -> BOOLEAN]
      /\ dispatch' \in [port : Port, calling : BOOLEAN]
      /\ dispatch'.calling => hand[dispatch'.port] \in Packet
  <2>1. /\ sink \in [Port -> BOOLEAN]
        /\ dispatch \in [port : Port, calling : BOOLEAN]
        /\ hand \in [Port -> Packet \union {NoPkt}]
        /\ dispatch.calling => hand[dispatch.port] \in Packet
    BY DEF Inv, TypeOK
  <2>2. CASE \E p \in Port : RegisterSink(p)
    BY <2>1, <2>2 DEF RegisterSink
  <2>3. CASE DispatchSkip
    BY <2>1, <2>3 DEF DispatchSkip, NextPort, Port
  <2>4. CASE DispatchHeld
    BY <2>1, <2>4 DEF DispatchHeld, CallSink
  <2>5. CASE UNCHANGED vars
    BY <2>1, <2>5 DEF vars
  <2>. QED  BY <2>2, <2>3, <2>4, <2>5
<1>2. TypeOK'
  BY <1>1 DEF Inv, TypeOK
<1>3. HalowLossless'
  BY <1>1 DEF HalowLossless, Inv, Path, InHand
<1>. QED  BY <1>1, <1>2, <1>3 DEF Inv

LEMMA NextInv ==
  ASSUME SwitchAssumption, Inv, [Next]_vars
  PROVE  Inv'
<1>1. ASSUME NEW t \in Task, Producer(t) PROVE Inv'
  BY <1>1, SwitchRxInv, SkipRingInv, PushRingInv DEF Producer
<1>2. CASE Dispatcher
  BY <1>2, ControlInv, DispatchPopInv, SinkAcceptsInv, SinkRefusesInv
     DEF Dispatcher
<1>. QED  BY <1>1, <1>2, ControlInv DEF Next

LEMMA Invariance == Spec => []Inv
<1>. USE SwitchAssumption
<1>1. Init => Inv
  BY InitInv
<1>2. Inv /\ [Next]_vars => Inv'
  BY NextInv
<1>. QED  BY <1>1, <1>2, PTL DEF Spec
-----------------------------------------------------------------------------
(* The histories, rings, hands and loop counters keep their types for any   *)
(* tasks, ring size and traffic (switch.c).                                 *)
THEOREM TypeCorrect == Spec => []TypeOK
<1>1. Inv => TypeOK
  BY DEF Inv
<1>. QED  BY <1>1, Invariance, PTL

(* head, tail and count of every ring agree in every reachable state, for   *)
(* every ring size, so no slot is read before it is written or twice.       *)
THEOREM RingsStaySound == Spec => []RingShape
<1>1. Inv => RingShape
  BY DEF Inv, RingShape, Sound
<1>. QED  BY <1>1, Invariance, PTL

(* "No HaLow packet is ever lost" (switch.h:35) inside the switch: whatever *)
(* the sinks answer and however the tasks interleave, the packets the HaLow *)
(* ring took are the ones sunk, held and queued, in order and once each.    *)
THEOREM HalowNeverLoses == Spec => []HalowLossless
<1>1. Inv => HalowLossless
  BY DEF Inv
<1>. QED  BY <1>1, Invariance, PTL
-----------------------------------------------------------------------------
(* What a step does to one port, without rings: the queue in the ring, the  *)
(* hand and the two histories.                                              *)
Queue(p) == Contents(ring[p])

Still(p) ==
  /\ Queue(p)' = Queue(p)
  /\ hand'[p] = hand[p]
  /\ accepted'[p] = accepted[p]
  /\ delivered'[p] = delivered[p]

Enters(p, pkt) ==
  /\ Len(Queue(p)) < SW_RING_SIZE
  /\ Queue(p)' = Append(Queue(p), pkt)
  /\ accepted'[p] = Append(accepted[p], pkt)
  /\ hand'[p] = hand[p]
  /\ delivered'[p] = delivered[p]

Displaces(p, pkt, old, rest) ==
  /\ p # SW_SRC_HALOW
  /\ Len(rest) + 1 = SW_RING_SIZE
  /\ Queue(p) = <<old>> \o rest
  /\ Queue(p)' = Append(rest, pkt)
  /\ accepted'[p] = Append(accepted[p], pkt)
  /\ hand'[p] = hand[p]
  /\ delivered'[p] = delivered[p]

Leaves(p) ==
  /\ hand[p] = NoPkt
  /\ hand'[p] \in Packet
  /\ Queue(p)' \in Seq(Packet)
  /\ Queue(p) = <<hand'[p]>> \o Queue(p)'
  /\ accepted'[p] = accepted[p]
  /\ delivered'[p] = delivered[p]

Sunk(p) ==
  /\ hand[p] \in Packet
  /\ hand'[p] = NoPkt
  /\ Queue(p)' = Queue(p)
  /\ accepted'[p] = accepted[p]
  /\ delivered'[p] = Append(delivered[p], hand[p])

ComesBack(p) ==
  /\ p # SW_SRC_HALOW
  /\ hand[p] \in Packet
  /\ hand'[p] = NoPkt
  /\ Len(Queue(p)) < SW_RING_SIZE
  /\ Queue(p)' = <<hand[p]>> \o Queue(p)
  /\ accepted'[p] = accepted[p]
  /\ delivered'[p] = delivered[p]

GivenUp(p) ==
  /\ p # SW_SRC_HALOW
  /\ hand[p] \in Packet
  /\ hand'[p] = NoPkt
  /\ Len(Queue(p)) = SW_RING_SIZE
  /\ Queue(p)' = Queue(p)
  /\ accepted'[p] = accepted[p]
  /\ delivered'[p] = delivered[p]

Moves(p) ==
  \/ Still(p)
  \/ \E pkt \in Packet : Enters(p, pkt)
  \/ \E pkt \in Packet, old \in Packet, rest \in Seq(Packet) : Displaces(p, pkt, old, rest)
  \/ Leaves(p)
  \/ Sunk(p)
  \/ ComesBack(p)
  \/ GivenUp(p)

OnePortMoves == \E p \in Port : Moves(p) /\ \A q \in Port \ {p} : Still(q)

(* What the state of one port is made of.                                   *)
LEMMA PortTypes ==
  ASSUME SwitchAssumption, Inv, NEW p \in Port
  PROVE  /\ Sound(ring[p])
         /\ Queue(p) \in Seq(Packet)
         /\ Len(Queue(p)) = ring[p].count
         /\ Len(Queue(p)) \in 0..SW_RING_SIZE
         /\ RingFull(ring[p]) <=> Len(Queue(p)) = SW_RING_SIZE
         /\ hand[p] \in Packet \union {NoPkt}
         /\ accepted[p] \in Seq(Packet)
         /\ delivered[p] \in Seq(Packet)
<1>1. Sound(ring[p]) /\ ring[p].count \in 0..SW_RING_SIZE
  BY DEF Inv, Sound, Ring
<1>2. Queue(p) \in Seq(Packet) /\ Len(Queue(p)) = ring[p].count
  BY <1>1, ContentsType DEF Queue
<1>3. RingFull(ring[p]) <=> ring[p].count = SW_RING_SIZE
  BY <1>1 DEF RingFull, SwitchAssumption
<1>. QED  BY <1>1, <1>2, <1>3 DEF Inv, TypeOK

LEMMA PushMoves ==
  ASSUME SwitchAssumption, Inv, NEW t \in Task, PushRing(t)
  PROVE  OnePortMoves
<1>1. PICK p \in Port, pkt \in Packet :
      /\ RingFull(ring[p]) => DropOk(p)
      /\ ring' = [ring EXCEPT ![p] = RingPush(@, pkt)]
      /\ accepted' = [accepted EXCEPT ![p] = Append(@, pkt)]
      /\ UNCHANGED <<hand, delivered>>
  <2>1. rx[t].at \in Port /\ rx[t].at # Idle
    BY DEF PushRing, Port, Idle
  <2>2. rx[t].pkt \in Packet
    BY <2>1 DEF Inv
  <2>. QED  BY <2>1, <2>2 DEF PushRing, NextRing
<1>2. /\ ring'[p] = RingPush(ring[p], pkt)
      /\ accepted'[p] = Append(accepted[p], pkt)
      /\ \A q \in Port \ {p} : ring'[q] = ring[q] /\ accepted'[q] = accepted[q]
  BY <1>1 DEF Inv, TypeOK
<1>3. \A q \in Port \ {p} : Still(q)
  BY <1>1, <1>2 DEF Still, Queue
<1>4. CASE RingFull(ring[p])
  <2>1. p # SW_SRC_HALOW
    BY <1>1, <1>4 DEF DropOk
  <2>. DEFINE rest == Contents(RemoveOldest(ring[p]))
  <2>2. ~RingEmpty(ring[p])
    BY <1>4 DEF RingFull, RingEmpty, SwitchAssumption
  <2>3. /\ Sound(RemoveOldest(ring[p])) /\ Oldest(ring[p]) \in Packet
        /\ Queue(p) = <<Oldest(ring[p])>> \o rest
    BY <2>2, PortTypes, RemoveTakesFirst DEF Queue
  <2>4. rest \in Seq(Packet)
    BY <2>3, ContentsType
  <2>5. Queue(p)' = Append(rest, pkt)
    BY <1>2, <1>4, PortTypes, PushSound DEF Queue
  <2>. HIDE DEF rest
  <2>6. Len(rest) + 1 = SW_RING_SIZE
    <3>1. Len(Queue(p)) = SW_RING_SIZE
      BY <1>4, PortTypes
    <3>2. Len(<<Oldest(ring[p])>> \o rest) = Len(rest) + 1
      BY <2>3, <2>4
    <3>. QED  BY <2>3, <3>1, <3>2
  <2>7. Displaces(p, pkt, Oldest(ring[p]), rest)
    BY <1>1, <1>2, <2>1, <2>3, <2>5, <2>6 DEF Displaces
  <2>. QED  BY <1>3, <2>3, <2>4, <2>7 DEF OnePortMoves, Moves
<1>5. CASE ~RingFull(ring[p])
  <2>1. Queue(p)' = Append(Queue(p), pkt)
    BY <1>2, <1>5, PortTypes, PushSound DEF Queue
  <2>2. Len(Queue(p)) < SW_RING_SIZE
    BY <1>5, PortTypes DEF SwitchAssumption
  <2>3. Enters(p, pkt)
    BY <1>1, <1>2, <2>1, <2>2 DEF Enters
  <2>. QED  BY <1>3, <2>3 DEF OnePortMoves, Moves
<1>. QED  BY <1>4, <1>5

LEMMA PopMoves ==
  ASSUME SwitchAssumption, Inv, DispatchPop
  PROVE  OnePortMoves
<1>1. PICK p \in Port :
      /\ hand[p] = NoPkt
      /\ ~RingEmpty(ring[p])
      /\ hand' = [hand EXCEPT ![p] = Oldest(ring[p])]
      /\ ring' = [ring EXCEPT ![p] = RemoveOldest(@)]
      /\ UNCHANGED <<accepted, delivered>>
  BY DEF DispatchPop, Inv, TypeOK
<1>2. /\ ring'[p] = RemoveOldest(ring[p])
      /\ hand'[p] = Oldest(ring[p])
      /\ \A q \in Port \ {p} : ring'[q] = ring[q] /\ hand'[q] = hand[q]
  BY <1>1 DEF Inv, TypeOK
<1>3. \A q \in Port \ {p} : Still(q)
  BY <1>1, <1>2 DEF Still, Queue
<1>4. Oldest(ring[p]) \in Packet /\ Queue(p) = <<Oldest(ring[p])>> \o Queue(p)'
  BY <1>1, <1>2, PortTypes, RemoveTakesFirst DEF Queue
<1>5. Queue(p)' \in Seq(Packet)
  BY <1>1, <1>2, PortTypes, RemoveTakesFirst, ContentsType DEF Queue
<1>6. Leaves(p)
  BY <1>1, <1>2, <1>4, <1>5 DEF Leaves
<1>. QED  BY <1>3, <1>6 DEF OnePortMoves, Moves

LEMMA SinkMoves ==
  ASSUME SwitchAssumption, Inv, NEW p \in Port, SinkAccepts(p) \/ SinkRefuses(p)
  PROVE  OnePortMoves
<1>1. hand[p] \in Packet /\ UNCHANGED accepted
  BY DEF SinkAccepts, SinkRefuses, Inv
<1>2. CASE SinkAccepts(p)
  <2>1. /\ UNCHANGED ring
        /\ hand'[p] = NoPkt
        /\ delivered'[p] = Append(delivered[p], hand[p])
        /\ \A q \in Port \ {p} : hand'[q] = hand[q] /\ delivered'[q] = delivered[q]
    BY <1>2 DEF SinkAccepts, Inv, TypeOK
  <2>2. Sunk(p) /\ \A q \in Port \ {p} : Still(q)
    BY <1>1, <2>1 DEF Sunk, Still, Queue
  <2>. QED  BY <2>2 DEF OnePortMoves, Moves
<1>3. CASE SinkRefuses(p) /\ DropOk(p)
  <2>1. /\ ring'[p] = RingPushFrontDrop(ring[p], hand[p])
        /\ hand'[p] = NoPkt
        /\ UNCHANGED delivered
        /\ p # SW_SRC_HALOW
        /\ \A q \in Port \ {p} : hand'[q] = hand[q] /\ ring'[q] = ring[q]
    BY <1>3 DEF SinkRefuses, DropOk, Inv, TypeOK
  <2>2. \A q \in Port \ {p} : Still(q)
    BY <1>1, <2>1 DEF Still, Queue
  <2>3. CASE RingFull(ring[p])
    <3>1. ring'[p] = ring[p]
      BY <2>1, <2>3 DEF RingPushFrontDrop
    <3>2. GivenUp(p)
      BY <1>1, <2>1, <2>3, <3>1, PortTypes DEF GivenUp, Queue
    <3>. QED  BY <2>2, <3>2 DEF OnePortMoves, Moves
  <2>4. CASE ~RingFull(ring[p])
    <3>1. Queue(p)' = <<hand[p]>> \o Queue(p)
      BY <1>1, <2>1, <2>4, PortTypes, FrontPuts DEF Queue
    <3>2. Len(Queue(p)) < SW_RING_SIZE
      BY <2>4, PortTypes DEF SwitchAssumption
    <3>3. ComesBack(p)
      BY <1>1, <2>1, <3>1, <3>2 DEF ComesBack
    <3>. QED  BY <2>2, <3>3 DEF OnePortMoves, Moves
  <2>. QED  BY <2>3, <2>4
<1>4. CASE SinkRefuses(p) /\ ~DropOk(p)
  <2>1. UNCHANGED <<ring, hand, delivered>>
    BY <1>4 DEF SinkRefuses
  <2>2. \A q \in Port : Still(q)
    BY <1>1, <2>1 DEF Still, Queue
  <2>. QED  BY <2>2 DEF OnePortMoves, Moves
<1>. QED  BY <1>2, <1>3, <1>4

(* Every step of the switch is a move of one port.                          *)
LEMMA StepMoves ==
  ASSUME SwitchAssumption, Inv, [Next]_vars
  PROVE  OnePortMoves
<1>1. CASE UNCHANGED <<ring, hand, accepted, delivered>>
  <2>1. \A q \in Port : Still(q)
    BY <1>1 DEF Still, Queue
  <2>2. SW_SRC_HALOW \in Port
    BY DEF SW_SRC_HALOW, Port
  <2>. QED  BY <2>1, <2>2 DEF OnePortMoves, Moves
<1>2. ASSUME NEW t \in Task, Producer(t) PROVE OnePortMoves
  <2>1. CASE SwitchRx(t)
    BY <1>1, <2>1 DEF SwitchRx
  <2>2. CASE SkipRing(t)
    BY <1>1, <2>2 DEF SkipRing
  <2>. QED  BY <1>2, <2>1, <2>2, PushMoves DEF Producer
<1>3. CASE Dispatcher
  <2>1. CASE DispatchSkip \/ DispatchHeld
    BY <1>1, <2>1 DEF DispatchSkip, DispatchHeld
  <2>. QED  BY <1>3, <2>1, PopMoves, SinkMoves DEF Dispatcher
<1>4. CASE \E p \in Port : RegisterSink(p)
  BY <1>1, <1>4 DEF RegisterSink
<1>5. CASE UNCHANGED vars
  BY <1>1, <1>5 DEF vars
<1>. QED  BY <1>2, <1>3, <1>4, <1>5 DEF Next
-----------------------------------------------------------------------------
(* Where the packets a ring took are.                                       *)

\* The ring holds the packets accepted last, the one in hand came just before
\* them unless the ring filled up meanwhile, and of the SW_RING_SIZE accepted
\* last those that are neither were delivered.
Trail(c, held, taken, sunk) ==
  LET l == Len(taken)
      n == Len(c)
  IN  /\ n <= l
      /\ \A i \in 1..n : c[i] = taken[l - n + i]
      /\ held # NoPkt /\ n < SW_RING_SIZE => n < l /\ held = taken[l - n]
      /\ \A i \in 1..l : i + SW_RING_SIZE > l =>
           \/ i > l - n
           \/ i = l - n /\ held # NoPkt
           \/ \E j \in DOMAIN sunk : sunk[j] = taken[i]

(* A packet is added behind those in the ring.                              *)
LEMMA TrailAppend ==
  ASSUME SwitchAssumption, NEW c \in Seq(Packet), NEW held, NEW taken \in Seq(Packet),
         NEW sunk, NEW pkt \in Packet, Len(c) < SW_RING_SIZE, Trail(c, held, taken, sunk)
  PROVE  Trail(Append(c, pkt), held, Append(taken, pkt), sunk)
<1>. DEFINE l == Len(taken)
            n == Len(c)
            c1 == Append(c, pkt)
            t1 == Append(taken, pkt)
<1>1. l \in Nat /\ n \in Nat /\ Len(c1) = n + 1 /\ Len(t1) = l + 1 /\ n < SW_RING_SIZE
  OBVIOUS
<1>2. /\ \A i \in 1..n + 1 : c1[i] = IF i <= n THEN c[i] ELSE pkt
      /\ \A i \in 1..l + 1 : t1[i] = IF i <= l THEN taken[i] ELSE pkt
  OBVIOUS
<1>3. /\ n <= l
      /\ \A i \in 1..n : c[i] = taken[l - n + i]
      /\ held # NoPkt => n < l /\ held = taken[l - n]
      /\ \A i \in 1..l : i + SW_RING_SIZE > l =>
           \/ i > l - n
           \/ i = l - n /\ held # NoPkt
           \/ \E j \in DOMAIN sunk : sunk[j] = taken[i]
  BY <1>1 DEF Trail
<1>. HIDE DEF l, n, c1, t1
<1>4. Len(c1) <= Len(t1) /\ \A i \in 1..Len(c1) : c1[i] = t1[Len(t1) - Len(c1) + i]
  <2>1. ASSUME NEW i \in 1..n + 1 PROVE c1[i] = t1[l - n + i]
    <3>1. CASE i <= n
      <4>1. l - n + i \in 1..l /\ l - n + i \in 1..l + 1 /\ i \in 1..n
        BY <1>1, <1>3, <3>1
      <4>2. c1[i] = c[i] /\ t1[l - n + i] = taken[l - n + i]
        BY <1>1, <1>2, <3>1, <4>1
      <4>. QED  BY <1>3, <4>1, <4>2
    <3>2. CASE i = n + 1
      <4>1. l - n + i = l + 1 /\ l + 1 \in 1..l + 1 /\ ~(l + 1 <= l) /\ ~(n + 1 <= n)
        BY <1>1, <3>2
      <4>. QED  BY <1>2, <3>2, <4>1
    <3>. QED  BY <1>1, <3>1, <3>2
  <2>2. Len(t1) - Len(c1) = l - n /\ n + 1 <= l + 1
    BY <1>1, <1>3
  <2>. QED  BY <1>1, <2>1, <2>2
<1>5. held # NoPkt => Len(c1) < Len(t1) /\ held = t1[Len(t1) - Len(c1)]
  <2>1. Len(t1) - Len(c1) = l - n
    BY <1>1
  <2>2. n < l => l - n \in 1..l /\ t1[l - n] = taken[l - n]
    BY <1>1, <1>2
  <2>. QED  BY <1>1, <1>3, <2>1, <2>2
<1>6. \A i \in 1..Len(t1) : i + SW_RING_SIZE > Len(t1) =>
           \/ i > Len(t1) - Len(c1)
           \/ i = Len(t1) - Len(c1) /\ held # NoPkt
           \/ \E j \in DOMAIN sunk : sunk[j] = t1[i]
  <2>. SUFFICES ASSUME NEW i \in 1..l + 1, i + SW_RING_SIZE > l + 1, ~(i > l - n),
                       ~(i = l - n /\ held # NoPkt)
                PROVE  \E j \in DOMAIN sunk : sunk[j] = t1[i]
    BY <1>1
  <2>1. SW_RING_SIZE \in Nat
    BY DEF SwitchAssumption
  <2>2. i \in 1..l /\ i + SW_RING_SIZE > l
    BY <1>1, <2>1
  <2>3. t1[i] = taken[i]
    BY <1>2, <2>2
  <2>. QED  BY <1>3, <2>2, <2>3
<1>7. Trail(c1, held, t1, sunk)
  BY <1>4, <1>5, <1>6 DEF Trail
<1>. QED  BY <1>7 DEF c1, t1

(* A packet is added to a full ring, which loses its oldest.                *)
LEMMA TrailShift ==
  ASSUME SwitchAssumption, NEW c \in Seq(Packet), NEW o \in Packet, NEW held,
         NEW taken \in Seq(Packet), NEW sunk, NEW pkt \in Packet,
         Len(c) + 1 = SW_RING_SIZE, Trail(<<o>> \o c, held, taken, sunk)
  PROVE  Trail(Append(c, pkt), held, Append(taken, pkt), sunk)
<1>. DEFINE l == Len(taken)
            n == Len(c)
            b == <<o>> \o c
            c1 == Append(c, pkt)
            t1 == Append(taken, pkt)
<1>1. /\ l \in Nat /\ n \in Nat /\ Len(c1) = n + 1 /\ Len(t1) = l + 1 /\ Len(b) = n + 1
      /\ n + 1 = SW_RING_SIZE
  OBVIOUS
<1>2. /\ \A i \in 1..n + 1 : c1[i] = IF i <= n THEN b[i + 1] ELSE pkt
      /\ \A i \in 1..l + 1 : t1[i] = IF i <= l THEN taken[i] ELSE pkt
  OBVIOUS
<1>3. n + 1 <= l /\ \A i \in 1..n + 1 : b[i] = taken[l - (n + 1) + i]
  BY <1>1 DEF Trail
<1>. HIDE DEF l, n, b, c1, t1
<1>4. \A i \in 1..Len(c1) : c1[i] = t1[Len(t1) - Len(c1) + i]
  <2>1. ASSUME NEW i \in 1..n + 1 PROVE c1[i] = t1[l - n + i]
    <3>1. CASE i <= n
      <4>1. /\ l - n + i \in 1..l /\ l - n + i \in 1..l + 1 /\ i + 1 \in 1..n + 1
            /\ l - (n + 1) + (i + 1) = l - n + i
        BY <1>1, <1>3, <3>1
      <4>2. c1[i] = b[i + 1] /\ t1[l - n + i] = taken[l - n + i]
        BY <1>1, <1>2, <3>1, <4>1
      <4>3. b[i + 1] = taken[l - (n + 1) + (i + 1)]
        BY <1>3, <4>1
      <4>. QED  BY <4>1, <4>2, <4>3
    <3>2. CASE i = n + 1
      <4>1. l - n + i = l + 1 /\ l + 1 \in 1..l + 1 /\ ~(l + 1 <= l) /\ ~(n + 1 <= n)
        BY <1>1, <3>2
      <4>. QED  BY <1>2, <3>2, <4>1
    <3>. QED  BY <1>1, <3>1, <3>2
  <2>2. Len(t1) - Len(c1) = l - n
    BY <1>1
  <2>. QED  BY <1>1, <2>1, <2>2
<1>5. Len(c1) <= Len(t1) /\ Len(c1) = SW_RING_SIZE
  BY <1>1, <1>3
<1>6. Trail(c1, held, t1, sunk)
  BY <1>1, <1>4, <1>5 DEF Trail
<1>. QED  BY <1>6 DEF c1, t1

(* The dispatch task takes the oldest entry into its hand.                  *)
LEMMA TrailPop ==
  ASSUME SwitchAssumption, NEW c \in Seq(Packet), NEW o \in Packet,
         NEW taken \in Seq(Packet), NEW sunk, Trail(<<o>> \o c, NoPkt, taken, sunk)
  PROVE  Trail(c, o, taken, sunk)
<1>. DEFINE l == Len(taken)
            n == Len(c)
            b == <<o>> \o c
<1>1. l \in Nat /\ n \in Nat /\ Len(b) = n + 1 /\ o # NoPkt
  BY DEF SwitchAssumption
<1>2. b[1] = o /\ \A i \in 1..n : c[i] = b[i + 1]
  OBVIOUS
<1>3. /\ n + 1 <= l /\ \A i \in 1..n + 1 : b[i] = taken[l - (n + 1) + i]
      /\ \A i \in 1..l : i + SW_RING_SIZE > l =>
           \/ i > l - (n + 1)
           \/ \E j \in DOMAIN sunk : sunk[j] = taken[i]
  BY <1>1 DEF Trail
<1>. HIDE DEF l, n, b
<1>4. \A i \in 1..n : c[i] = taken[l - n + i]
  BY <1>1, <1>2, <1>3
<1>5. n < l /\ o = taken[l - n]
  <2>1. l - (n + 1) + 1 = l - n /\ 1 \in 1..n + 1
    BY <1>1
  <2>. QED  BY <1>1, <1>2, <1>3, <2>1
<1>6. \A i \in 1..l : i + SW_RING_SIZE > l =>
           \/ i > l - n
           \/ i = l - n
           \/ \E j \in DOMAIN sunk : sunk[j] = taken[i]
  <2>1. ASSUME NEW i \in 1..l PROVE i > l - (n + 1) <=> (i > l - n \/ i = l - n)
    BY <1>1
  <2>. QED  BY <1>3, <2>1
<1>. QED  BY <1>1, <1>4, <1>5, <1>6 DEF Trail, l, n

(* The sink takes the packet in hand.                                       *)
LEMMA TrailAccept ==
  ASSUME SwitchAssumption, NEW c \in Seq(Packet), NEW held \in Packet,
         NEW taken \in Seq(Packet), NEW sunk \in Seq(Packet), Len(c) <= SW_RING_SIZE,
         Trail(c, held, taken, sunk)
  PROVE  Trail(c, NoPkt, taken, Append(sunk, held))
<1>. DEFINE l == Len(taken)
            n == Len(c)
            s1 == Append(sunk, held)
<1>1. l \in Nat /\ n \in Nat /\ held # NoPkt /\ n <= SW_RING_SIZE
  BY DEF SwitchAssumption
<1>2. /\ \A j \in DOMAIN sunk : j \in DOMAIN s1 /\ s1[j] = sunk[j]
      /\ \E j \in DOMAIN s1 : s1[j] = held
  <2>1. Len(sunk) + 1 \in DOMAIN s1 /\ s1[Len(sunk) + 1] = held
    OBVIOUS
  <2>. QED  BY <2>1
<1>3. /\ n <= l
      /\ \A i \in 1..n : c[i] = taken[l - n + i]
      /\ n < SW_RING_SIZE => n < l /\ held = taken[l - n]
      /\ \A i \in 1..l : i + SW_RING_SIZE > l =>
           \/ i > l - n
           \/ i = l - n
           \/ \E j \in DOMAIN sunk : sunk[j] = taken[i]
  BY <1>1 DEF Trail
<1>. HIDE DEF l, n, s1
<1>4. ASSUME NEW i \in 1..l, i + SW_RING_SIZE > l, ~(i > l - n)
      PROVE  \E j \in DOMAIN s1 : s1[j] = taken[i]
  <2>1. n < SW_RING_SIZE
    BY <1>1, <1>4 DEF SwitchAssumption
  <2>2. CASE i = l - n
    BY <1>2, <1>3, <2>1, <2>2
  <2>3. CASE i # l - n
    BY <1>2, <1>3, <1>4, <2>3
  <2>. QED  BY <2>2, <2>3
<1>. QED  BY <1>1, <1>3, <1>4 DEF Trail, l, n, s1

(* A refused packet goes back in front of a ring with room.                 *)
LEMMA TrailFront ==
  ASSUME SwitchAssumption, NEW c \in Seq(Packet), NEW held \in Packet,
         NEW taken \in Seq(Packet), NEW sunk, Len(c) < SW_RING_SIZE,
         Trail(c, held, taken, sunk)
  PROVE  Trail(<<held>> \o c, NoPkt, taken, sunk)
<1>. DEFINE l == Len(taken)
            n == Len(c)
            b == <<held>> \o c
<1>1. l \in Nat /\ n \in Nat /\ Len(b) = n + 1 /\ held # NoPkt /\ n < SW_RING_SIZE
  BY DEF SwitchAssumption
<1>2. b[1] = held /\ \A i \in 1..n : c[i] = b[i + 1]
  OBVIOUS
<1>3. /\ n < l /\ held = taken[l - n]
      /\ \A i \in 1..n : c[i] = taken[l - n + i]
      /\ \A i \in 1..l : i + SW_RING_SIZE > l =>
           \/ i > l - n
           \/ i = l - n
           \/ \E j \in DOMAIN sunk : sunk[j] = taken[i]
  BY <1>1 DEF Trail
<1>. HIDE DEF l, n, b
<1>4. ASSUME NEW i \in 1..n + 1 PROVE b[i] = taken[l - (n + 1) + i]
  <2>1. CASE i = 1
    <3>1. l - (n + 1) + 1 = l - n
      BY <1>1
    <3>. QED  BY <1>2, <1>3, <2>1, <3>1
  <2>2. CASE i # 1
    <3>1. i - 1 \in 1..n /\ l - n + (i - 1) = l - (n + 1) + i /\ (i - 1) + 1 = i
      BY <1>1, <2>2
    <3>2. c[i - 1] = b[i]
      BY <1>2, <3>1
    <3>. QED  BY <1>3, <3>1, <3>2
  <2>. QED  BY <2>1, <2>2
<1>5. \A i \in 1..l : i + SW_RING_SIZE > l =>
           \/ i > l - (n + 1)
           \/ \E j \in DOMAIN sunk : sunk[j] = taken[i]
  <2>1. ASSUME NEW i \in 1..l PROVE i > l - (n + 1) <=> (i > l - n \/ i = l - n)
    BY <1>1
  <2>. QED  BY <1>3, <2>1
<1>6. Len(b) <= l /\ Len(b) = n + 1
  BY <1>1, <1>3
<1>7. Trail(b, NoPkt, taken, sunk)
  BY <1>1, <1>4, <1>5, <1>6 DEF Trail, l
<1>. QED  BY <1>7 DEF b

(* A refused packet that finds the ring full is given up.                   *)
LEMMA TrailGiveUp ==
  ASSUME SwitchAssumption, NEW c \in Seq(Packet), NEW held,
         NEW taken \in Seq(Packet), NEW sunk, Len(c) = SW_RING_SIZE,
         Trail(c, held, taken, sunk)
  PROVE  Trail(c, NoPkt, taken, sunk)
<1>1. Len(taken) \in Nat
  OBVIOUS
<1>. QED  BY <1>1 DEF Trail, SwitchAssumption

Trails(p) == Trail(Queue(p), hand[p], accepted[p], delivered[p])

LEMMA TrailsStep ==
  ASSUME SwitchAssumption, Inv, NEW p \in Port, Moves(p), Trails(p)
  PROVE  Trails(p)'
<1>. DEFINE c == Queue(p)
            a == accepted[p]
            d == delivered[p]
            h == hand[p]
<1>1. /\ c \in Seq(Packet) /\ a \in Seq(Packet) /\ d \in Seq(Packet)
      /\ h \in Packet \union {NoPkt} /\ Len(c) \in 0..SW_RING_SIZE
  BY PortTypes
<1>2. Trail(c, h, a, d)
  BY DEF Trails
<1>3. Trails(p)' <=> Trail(Queue(p)', hand'[p], accepted'[p], delivered'[p])
  BY DEF Trails
<1>4. CASE Still(p)
  BY <1>2, <1>3, <1>4 DEF Still
<1>5. ASSUME NEW pkt \in Packet, Enters(p, pkt) PROVE Trails(p)'
  <2>1. Trail(Append(c, pkt), h, Append(a, pkt), d)
    BY <1>1, <1>2, <1>5, TrailAppend DEF Enters
  <2>. QED  BY <1>3, <1>5, <2>1 DEF Enters
<1>6. ASSUME NEW pkt \in Packet, NEW old \in Packet, NEW rest \in Seq(Packet),
             Displaces(p, pkt, old, rest)
      PROVE  Trails(p)'
  <2>1. Trail(Append(rest, pkt), h, Append(a, pkt), d)
    BY <1>1, <1>2, <1>6, TrailShift DEF Displaces
  <2>. QED  BY <1>3, <1>6, <2>1 DEF Displaces
<1>7. CASE Leaves(p)
  <2>1. Trail(Queue(p)', hand'[p], a, d)
    BY <1>1, <1>2, <1>7, TrailPop DEF Leaves
  <2>. QED  BY <1>3, <1>7, <2>1 DEF Leaves
<1>8. CASE Sunk(p)
  <2>1. Trail(c, NoPkt, a, Append(d, h))
    BY <1>1, <1>2, <1>8, TrailAccept DEF Sunk
  <2>. QED  BY <1>3, <1>8, <2>1 DEF Sunk
<1>9. CASE ComesBack(p)
  <2>1. Trail(<<h>> \o c, NoPkt, a, d)
    BY <1>1, <1>2, <1>9, TrailFront DEF ComesBack
  <2>. QED  BY <1>3, <1>9, <2>1 DEF ComesBack
<1>10. CASE GivenUp(p)
  <2>1. Trail(c, NoPkt, a, d)
    BY <1>1, <1>2, <1>10, TrailGiveUp DEF GivenUp
  <2>. QED  BY <1>3, <1>10, <2>1 DEF GivenUp
<1>. QED  BY <1>4, <1>5, <1>6, <1>7, <1>8, <1>9, <1>10 DEF Moves
-----------------------------------------------------------------------------
(* The invariant of the rings, with the trails.                             *)
Kept == \A p \in Port : Trails(p)

LEMMA KeptStep ==
  ASSUME SwitchAssumption, Inv, Kept, [Next]_vars
  PROVE  Kept'
<1>. SUFFICES ASSUME NEW q \in Port PROVE Trails(q)'
  BY DEF Kept
<1>1. PICK p \in Port : Moves(p) /\ \A r \in Port \ {p} : Still(r)
  BY StepMoves DEF OnePortMoves
<1>2. Moves(q)
  BY <1>1 DEF Moves
<1>. QED  BY <1>2, TrailsStep DEF Kept

LEMMA KeptInit ==
  ASSUME SwitchAssumption, Init
  PROVE  Kept
<1>. SUFFICES ASSUME NEW p \in Port PROVE Trails(p)
  BY DEF Kept
<1>1. Queue(p) \in Seq(Packet) /\ Len(Queue(p)) = 0
  BY InitInv, PortTypes DEF Init
<1>2. hand[p] = NoPkt /\ accepted[p] = <<>>
  BY DEF Init
<1>. QED  BY <1>1, <1>2 DEF Trails, Trail

LEMMA KeptAlways == Spec => []Kept
<1>. USE SwitchAssumption
<1>1. Init => Kept
  BY KeptInit
<1>2. Inv /\ Kept /\ [Next]_vars => Kept'
  BY KeptStep
<1>. QED  BY <1>1, <1>2, Invariance, PTL DEF Spec

(* Overwrite-oldest (switch.c:8-10): of every sink, what is lost is never   *)
(* one of the SW_RING_SIZE packets its ring accepted last.                  *)
THEOREM FreshestStayKept == Spec => []FreshestKept
<1>. USE SwitchAssumption
<1>1. ASSUME Inv, Kept PROVE FreshestKept
  <2>. SUFFICES ASSUME NEW p \in Port, NEW i \in DOMAIN accepted[p],
                       i + SW_RING_SIZE > Len(accepted[p])
                PROVE  \E j \in DOMAIN Path(p) : Path(p)[j] = accepted[p][i]
    BY DEF FreshestKept
  <2>. DEFINE d == delivered[p]
              h == InHand(p)
              c == Queue(p)
              a == accepted[p]
              n == Len(c)
              l == Len(a)
  <2>1. d \in Seq(Packet) /\ h \in Seq(Packet) /\ c \in Seq(Packet) /\ a \in Seq(Packet)
    BY <1>1, PathTypes DEF Queue
  <2>. HIDE DEF d, h, c, a
  <2>2. /\ n <= l
        /\ \A k \in 1..n : c[k] = a[l - n + k]
        /\ hand[p] # NoPkt /\ n < SW_RING_SIZE => n < l /\ hand[p] = a[l - n]
        /\ \/ i > l - n
           \/ i = l - n /\ hand[p] # NoPkt
           \/ \E j \in DOMAIN d : d[j] = a[i]
    <3>1. Trail(c, hand[p], a, d) /\ i \in 1..l /\ i + SW_RING_SIZE > l
      BY <1>1, <2>1 DEF Kept, Trails, c, a, d
    <3>. QED  BY <3>1 DEF Trail
  <2>3. /\ Path(p) = (d \o h) \o c
        /\ Len(h) = IF hand[p] = NoPkt THEN 0 ELSE 1
        /\ hand[p] # NoPkt => h[1] = hand[p]
        /\ n <= SW_RING_SIZE
    BY <1>1, PortTypes DEF Path, Queue, InHand, d, h, c
  <2>4. i \in 1..l /\ l \in Nat /\ n \in Nat
    BY <2>1 DEF a
  <2>5. CASE \E j \in DOMAIN d : d[j] = a[i]
    <3>1. PICK j \in DOMAIN d : d[j] = a[i]
      BY <2>5
    <3>2. j \in DOMAIN ((d \o h) \o c) /\ ((d \o h) \o c)[j] = d[j]
      BY <2>1
    <3>. QED  BY <2>3, <3>1, <3>2 DEF a
  <2>6. CASE i > l - n
    <3>1. PICK k \in 1..n : i = l - n + k
      <4>. HIDE DEF l, n
      <4>1. i - (l - n) \in 1..n /\ i = l - n + (i - (l - n))
        BY <2>2, <2>4, <2>6
      <4>. QED  BY <4>1
    <3>. DEFINE j == Len(d) + Len(h) + k
    <3>2. j \in DOMAIN ((d \o h) \o c) /\ ((d \o h) \o c)[j] = c[k]
      BY <2>1
    <3>. QED  BY <2>2, <2>3, <3>1, <3>2 DEF a
  <2>7. CASE i = l - n /\ hand[p] # NoPkt
    <3>1. n < SW_RING_SIZE
      BY <2>1, <2>3, <2>7 DEF SwitchAssumption, l, a
    <3>. DEFINE j == Len(d) + 1
    <3>2. j \in DOMAIN ((d \o h) \o c) /\ ((d \o h) \o c)[j] = h[1]
      <4>1. Len(h) = 1
        BY <2>3, <2>7
      <4>2. j \in DOMAIN (d \o h) /\ (d \o h)[j] = h[1]
        <5>1. /\ Len(d) \in Nat /\ Len(d \o h) = Len(d) + Len(h) /\ d \o h \in Seq(Packet)
              /\ \A k \in 1..Len(d) + Len(h) : (d \o h)[k] = IF k <= Len(d) THEN d[k] ELSE h[k - Len(d)]
          BY <2>1, ConcatProperties
        <5>2. j \in 1..Len(d) + Len(h) /\ ~(j <= Len(d)) /\ j - Len(d) = 1
          BY <4>1, <5>1
        <5>3. DOMAIN (d \o h) = 1..Len(d) + Len(h)
          BY <5>1, LenProperties
        <5>. QED  BY <5>1, <5>2, <5>3
      <4>3. d \o h \in Seq(Packet)
        BY <2>1, ConcatProperties
      <4>. HIDE DEF j
      <4>. DEFINE dh == d \o h
      <4>4. dh \in Seq(Packet) /\ j \in DOMAIN dh /\ dh[j] = h[1]
        BY <4>2, <4>3
      <4>. HIDE DEF dh
      <4>5. j \in DOMAIN (dh \o c) /\ (dh \o c)[j] = h[1]
        BY <2>1, <4>4
      <4>. QED  BY <4>5 DEF dh
    <3>. QED  BY <2>2, <2>3, <2>7, <3>1, <3>2 DEF a
  <2>. QED  BY <2>2, <2>5, <2>6, <2>7
<1>. QED  BY <1>1, Invariance, KeptAlways, PTL
-----------------------------------------------------------------------------
(* The switch implements the channel of each sink.                          *)

\* What is on its way to a sink, as the channel sees it.
Under(p) == InHand(p) \o Queue(p)

(* The hand is a queue of one packet at most.                               *)
LEMMA UnderTypes ==
  ASSUME SwitchAssumption, Inv, NEW p \in Port
  PROVE  /\ Under(p) \in Seq(Packet)
         /\ InHand(p) \in Seq(Packet)
         /\ Len(InHand(p)) \in 0..1
         /\ Len(Under(p)) = Len(InHand(p)) + Len(Queue(p))
<1>1. InHand(p) \in Seq(Packet) /\ Queue(p) \in Seq(Packet)
  BY PathTypes, PortTypes
<1>2. Len(InHand(p)) \in 0..1
  BY DEF InHand
<1>. QED  BY <1>1, <1>2, ConcatProperties DEF Under

(* Appending behind the second of two sequences.                            *)
LEMMA AppendBehind ==
  ASSUME NEW S, NEW h \in Seq(S), NEW c \in Seq(S), NEW x \in S
  PROVE  h \o Append(c, x) = Append(h \o c, x)
<1>1. <<x>> \in Seq(S) /\ h \o c \in Seq(S)
  BY ConcatProperties
<1>2. Append(c, x) = c \o <<x>> /\ Append(h \o c, x) = (h \o c) \o <<x>>
  BY <1>1, AppendIsConcat
<1>. QED  BY <1>1, <1>2, ConcatAssociative

LEMMA WithoutIs ==
  ASSUME NEW u, NEW k \in Nat
  PROVE  Channel!Without(u, k + 1) = SubSeq(u, 1, k) \o SubSeq(u, k + 2, Len(u))
<1>1. (k + 1) - 1 = k /\ (k + 1) + 1 = k + 2
  OBVIOUS
<1>2. Channel!Without(u, k + 1) = SubSeq(u, 1, (k + 1) - 1) \o SubSeq(u, (k + 1) + 1, Len(u))
  BY Zenon DEF Channel!Without
<1>. QED  BY <1>1, <1>2, Zenon

(* Taking the first entry of what waits out of what is underway.            *)
LEMMA WithoutWaiting ==
  ASSUME NEW h \in Seq(Packet), NEW o \in Packet, NEW c \in Seq(Packet)
  PROVE  Channel!Without(h \o (<<o>> \o c), Len(h) + 1) = h \o c
<1>. DEFINE u == h \o (<<o>> \o c)
            n == Len(h)
            a == SubSeq(u, 1, n)
            b == SubSeq(u, n + 2, Len(u))
<1>1. /\ u \in Seq(Packet) /\ Len(u) = n + 1 + Len(c) /\ n \in Nat /\ Len(c) \in Nat
      /\ \A i \in 1..n : u[i] = h[i]
      /\ \A i \in 1..Len(c) : u[n + 1 + i] = c[i]
  OBVIOUS
<1>2. \A i \in 1..Len(u) : u[i] \in Packet
  BY <1>1, ElementOfSeq
<1>. HIDE DEF u, n
<1>3. a = h
  <2>1. n - 1 + 1 = n /\ (1 <= n <=> n # 0) /\ \A i \in 1..n : i \in 1..Len(u) /\ 1 + i - 1 = i
    BY <1>1
  <2>2. a \in Seq(Packet) /\ Len(a) = n /\ \A i \in 1..n : a[i] = u[i]
    BY <1>1, <1>2, <2>1, SubSeqProperties
  <2>. HIDE DEF a
  <2>. QED  BY <1>1, <2>2, SeqEqual DEF n
<1>4. b = c
  <2>. DEFINE k == Len(c)
              l == Len(u)
  <2>. HIDE DEF k, l
  <2>1. /\ l = n + 1 + k /\ k \in Nat /\ n + 2 \in Int /\ l \in Int
        /\ l - (n + 2) + 1 = k /\ (n + 2 <= l <=> k # 0)
        /\ \A i \in 1..k : n + 2 + i - 1 = n + 1 + i
        /\ \A i \in n + 2..l : i \in 1..l
    BY <1>1 DEF k, l
  <2>2. \A i \in n + 2..l : u[i] \in Packet
    BY <1>2, <2>1 DEF l
  <2>3. b = SubSeq(u, n + 2, l)
    BY DEF l
  <2>. HIDE DEF b
  <2>4. /\ b \in Seq(Packet)
        /\ Len(b) = IF n + 2 <= l THEN l - (n + 2) + 1 ELSE 0
        /\ \A i \in 1..l - (n + 2) + 1 : b[i] = u[n + 2 + i - 1]
    BY <2>1, <2>2, <2>3, SubSeqProperties
  <2>5. Len(b) = k /\ \A i \in 1..k : b[i] = c[i]
    BY <1>1, <2>1, <2>4 DEF k
  <2>. QED  BY <2>4, <2>5, SeqEqual DEF k
<1>5. Channel!Without(u, n + 1) = SubSeq(u, 1, n) \o SubSeq(u, n + 2, Len(u))
  BY <1>1, WithoutIs
<1>. QED  BY <1>3, <1>4, <1>5 DEF u, n

LEMMA ChannelMoves ==
  ASSUME SwitchAssumption, Inv, Inv', NEW p \in Port, Moves(p)
  PROVE  \/ Under(p)' = Under(p) /\ delivered'[p] = delivered[p]
         \/ /\ Len(Under(p)) <= SW_RING_SIZE
            /\ \E pkt \in Packet : Under(p)' = Append(Under(p), pkt)
            /\ delivered'[p] = delivered[p]
         \/ /\ p # SW_SRC_HALOW
            /\ Len(Under(p)) >= SW_RING_SIZE
            /\ \E pkt \in Packet :
                 Under(p)' = Append(Channel!Without(Under(p), Len(Under(p)) - SW_RING_SIZE + 1), pkt)
            /\ delivered'[p] = delivered[p]
         \/ /\ p # SW_SRC_HALOW
            /\ Len(Under(p)) = SW_RING_SIZE + 1
            /\ Under(p)' = Tail(Under(p))
            /\ delivered'[p] = delivered[p]
         \/ /\ Under(p) # <<>>
            /\ Under(p)' = Tail(Under(p))
            /\ delivered'[p] = Append(delivered[p], Head(Under(p)))
<1>. DEFINE c == Queue(p)
            h == InHand(p)
<1>1. /\ c \in Seq(Packet) /\ h \in Seq(Packet) /\ Under(p) = h \o c /\ Len(h) \in 0..1
      /\ Len(Under(p)) = Len(h) + Len(c) /\ Len(c) \in 0..SW_RING_SIZE
      /\ hand[p] \in Packet => h = <<hand[p]>>
      /\ hand[p] = NoPkt => h = <<>>
  BY UnderTypes, PortTypes DEF Under, InHand, SwitchAssumption
<1>2. /\ Under(p)' = InHand(p)' \o Queue(p)'
      /\ hand'[p] = hand[p] => InHand(p)' = h
      /\ hand'[p] \in Packet => InHand(p)' = <<hand'[p]>>
      /\ hand'[p] = NoPkt => InHand(p)' = <<>>
  BY DEF Under, InHand, SwitchAssumption
<1>. HIDE DEF c, h
<1>3. CASE Still(p)
  BY <1>1, <1>2, <1>3 DEF Still, c
<1>4. ASSUME NEW pkt \in Packet, Enters(p, pkt)
      PROVE  /\ Len(Under(p)) <= SW_RING_SIZE
             /\ Under(p)' = Append(Under(p), pkt)
             /\ delivered'[p] = delivered[p]
  <2>1. Len(c) < SW_RING_SIZE /\ Under(p)' = h \o Append(c, pkt) /\ delivered'[p] = delivered[p]
    BY <1>2, <1>4 DEF Enters, c
  <2>2. h \o Append(c, pkt) = Append(h \o c, pkt)
    BY <1>1, AppendBehind
  <2>3. Len(h) + Len(c) <= SW_RING_SIZE
    <3>1. SW_RING_SIZE \in Nat /\ Len(h) \in 0..1 /\ Len(c) \in 0..SW_RING_SIZE /\ Len(c) < SW_RING_SIZE
      BY <1>1, <2>1 DEF SwitchAssumption
    <3>2. \A x \in 0..1, y, z \in Nat : y < z => x + y <= z
      OBVIOUS
    <3>3. Len(c) \in Nat
      BY <1>1
    <3>. QED  BY <3>1, <3>2, <3>3
  <2>. QED  BY <1>1, <2>1, <2>2, <2>3
<1>5. ASSUME NEW pkt \in Packet, NEW old \in Packet, NEW rest \in Seq(Packet),
             Displaces(p, pkt, old, rest)
      PROVE  /\ p # SW_SRC_HALOW
             /\ Len(Under(p)) >= SW_RING_SIZE
             /\ Under(p)' = Append(Channel!Without(Under(p), Len(Under(p)) - SW_RING_SIZE + 1), pkt)
             /\ delivered'[p] = delivered[p]
  <2>1. /\ p # SW_SRC_HALOW /\ Len(rest) + 1 = SW_RING_SIZE /\ c = <<old>> \o rest
        /\ Under(p)' = h \o Append(rest, pkt) /\ delivered'[p] = delivered[p]
    BY <1>2, <1>5 DEF Displaces, c
  <2>2. Len(c) = SW_RING_SIZE
    BY <2>1
  <2>3. Len(Under(p)) - SW_RING_SIZE + 1 = Len(h) + 1 /\ Len(Under(p)) >= SW_RING_SIZE
    BY <1>1, <2>2
  <2>4. Channel!Without(Under(p), Len(h) + 1) = h \o rest
    <3>1. Channel!Without(h \o (<<old>> \o rest), Len(h) + 1) = h \o rest
      BY <1>1, WithoutWaiting
    <3>. QED  BY <1>1, <2>1, <3>1
  <2>5. h \o Append(rest, pkt) = Append(h \o rest, pkt)
    BY <1>1, AppendBehind
  <2>. QED  BY <2>1, <2>3, <2>4, <2>5
<1>6. CASE Leaves(p)
  <2>1. /\ h = <<>> /\ hand'[p] \in Packet /\ Queue(p)' \in Seq(Packet)
        /\ c = <<hand'[p]>> \o Queue(p)' /\ delivered'[p] = delivered[p]
        /\ Under(p)' = <<hand'[p]>> \o Queue(p)'
    BY <1>1, <1>2, <1>6 DEF Leaves, c
  <2>2. Under(p) = c
    BY <1>1, <2>1, ConcatEmptySeq
  <2>. QED  BY <2>1, <2>2
<1>7. ASSUME hand[p] \in Packet
      PROVE  Under(p) # <<>> /\ Tail(Under(p)) = c /\ Head(Under(p)) = hand[p]
  <2>1. Under(p) = <<hand[p]>> \o c
    BY <1>1, <1>7
  <2>. QED  BY <1>1, <1>7, <2>1
<1>8. CASE Sunk(p)
  <2>1. /\ hand[p] \in Packet /\ Under(p)' = <<>> \o c
        /\ delivered'[p] = Append(delivered[p], hand[p])
    BY <1>2, <1>8 DEF Sunk, c
  <2>. QED  BY <1>1, <1>7, <2>1, ConcatEmptySeq
<1>9. CASE ComesBack(p)
  <2>1. /\ hand[p] \in Packet /\ Under(p)' = <<>> \o (<<hand[p]>> \o c)
        /\ delivered'[p] = delivered[p]
    BY <1>2, <1>9 DEF ComesBack, c
  <2>2. Under(p) = <<hand[p]>> \o c
    BY <1>1, <2>1
  <2>3. Under(p) \in Seq(Packet)
    BY UnderTypes
  <2>. QED  BY <2>1, <2>2, <2>3, ConcatEmptySeq
<1>10. CASE GivenUp(p)
  <2>1. /\ p # SW_SRC_HALOW /\ hand[p] \in Packet /\ Under(p)' = <<>> \o c
        /\ Len(c) = SW_RING_SIZE /\ delivered'[p] = delivered[p]
    BY <1>2, <1>10 DEF GivenUp, c
  <2>2. Len(h) = 1
    BY <1>1, <2>1
  <2>. QED  BY <1>1, <1>7, <2>1, <2>2, ConcatEmptySeq
<1>. QED  BY <1>3, <1>4, <1>5, <1>6, <1>8, <1>9, <1>10 DEF Moves

LEMMA ChannelStep ==
  ASSUME SwitchAssumption, Inv, [Next]_vars
  PROVE  [Channel!Next]_(Channel!vars)
<1>. DEFINE chan == [p \in Port |-> InHand(p) \o Contents(ring[p])]
<1>1. PICK p \in Port : Moves(p) /\ \A q \in Port \ {p} : Still(q)
  BY StepMoves DEF OnePortMoves
<1>2. Inv'
  BY NextInv
<1>3. \A q \in Port : chan[q] = Under(q) /\ chan'[q] = Under(q)'
  BY DEF Under, Queue
<1>4. \A q \in Port \ {p} : chan'[q] = chan[q] /\ delivered'[q] = delivered[q]
  BY <1>1, <1>3 DEF Still, Under, InHand
<1>5. DOMAIN delivered = Port /\ DOMAIN delivered' = Port
      /\ delivered = [q \in Port |-> delivered[q]] /\ delivered' = [q \in Port |-> delivered'[q]]
  BY <1>2 DEF Inv, TypeOK
<1>6. chan = [q \in Port |-> chan[q]] /\ chan' = [q \in Port |-> chan'[q]]
  OBVIOUS
<1>. HIDE DEF chan
<1>7. \A s : chan'[p] = s => chan' = [chan EXCEPT ![p] = s]
  BY <1>4, <1>6
<1>8. \A s : delivered'[p] = s => delivered' = [delivered EXCEPT ![p] = s]
  BY <1>4, <1>5
<1>9. delivered'[p] = delivered[p] => delivered' = delivered
  BY <1>4, <1>5
<1>10. chan'[p] = chan[p] => chan' = chan
  BY <1>4, <1>6
<1>11. \/ chan'[p] = chan[p] /\ delivered'[p] = delivered[p]
       \/ /\ Len(chan[p]) <= SW_RING_SIZE
          /\ \E pkt \in Packet : chan'[p] = Append(chan[p], pkt)
          /\ delivered'[p] = delivered[p]
       \/ /\ p # SW_SRC_HALOW
          /\ Len(chan[p]) >= SW_RING_SIZE
          /\ \E pkt \in Packet :
               chan'[p] = Append(Channel!Without(chan[p], Len(chan[p]) - SW_RING_SIZE + 1), pkt)
          /\ delivered'[p] = delivered[p]
       \/ /\ p # SW_SRC_HALOW
          /\ Len(chan[p]) = SW_RING_SIZE + 1
          /\ chan'[p] = Tail(chan[p])
          /\ delivered'[p] = delivered[p]
       \/ /\ chan[p] # <<>>
          /\ chan'[p] = Tail(chan[p])
          /\ delivered'[p] = Append(delivered[p], Head(chan[p]))
  BY <1>1, <1>2, <1>3, ChannelMoves
<1>12. \/ chan' = chan /\ delivered' = delivered
       \/ /\ Len(chan[p]) <= SW_RING_SIZE
          /\ \E pkt \in Packet : chan' = [chan EXCEPT ![p] = Append(chan[p], pkt)]
          /\ delivered' = delivered
       \/ /\ p # SW_SRC_HALOW
          /\ Len(chan[p]) >= SW_RING_SIZE
          /\ \E pkt \in Packet :
               chan' = [chan EXCEPT ![p] =
                 Append(Channel!Without(chan[p], Len(chan[p]) - SW_RING_SIZE + 1), pkt)]
          /\ delivered' = delivered
       \/ /\ p # SW_SRC_HALOW
          /\ Len(chan[p]) = SW_RING_SIZE + 1
          /\ chan' = [chan EXCEPT ![p] = Tail(chan[p])]
          /\ delivered' = delivered
       \/ /\ chan[p] # <<>>
          /\ chan' = [chan EXCEPT ![p] = Tail(chan[p])]
          /\ delivered' = [delivered EXCEPT ![p] = Append(delivered[p], Head(chan[p]))]
  BY <1>7, <1>8, <1>9, <1>10, <1>11
<1>. QED  BY <1>12 DEF chan, Channel!Next, Channel!vars, Channel!Put, Channel!PutOverOldest,
                       Channel!GiveUp, Channel!Take, Channel!OldestWaiting

(* Rings, hand and dispatch loop implement the abstract channel of each     *)
(* sink: HaLow's loses nothing, the others' only the oldest that waits.     *)
THEOREM SwitchImplementsChannel == Spec => ImplementsChannel
<1>. USE SwitchAssumption
<1>1. Init => Channel!Init
  <2>. SUFFICES ASSUME Init PROVE Channel!Init
    OBVIOUS
  <2>1. ASSUME NEW p \in Port PROVE InHand(p) \o Contents(ring[p]) = <<>>
    <3>1. InHand(p) = <<>> /\ Contents(ring[p]) \in Seq(Packet) /\ Len(Contents(ring[p])) = 0
      BY InitInv, PortTypes DEF Init, InHand, Queue
    <3>. QED  BY <3>1
  <2>. QED  BY <2>1 DEF Channel!Init, Init
<1>2. Inv /\ [Next]_vars => [Channel!Next]_(Channel!vars)
  BY ChannelStep
<1>. QED  BY <1>1, <1>2, Invariance, PTL DEF Spec, ImplementsChannel, Channel!Spec
-----------------------------------------------------------------------------
(* From the interface to the HaLow ring.                                    *)

\* How many of the packets of a task are past the HaLow ring.
PastCount(t) ==
  IF rx[t].at <= SW_SRC_HALOW THEN Len(received[t]) - 1 ELSE Len(received[t])

\* A task inside switch_rx is there with the packet it received last, and it
\* numbers what it receives.
Numbered(t) ==
  /\ rx[t].at # Idle =>
       received[t] # <<>> /\ rx[t].pkt = received[t][Len(received[t])]
  /\ received[t] # <<>> => sink[SW_SRC_HALOW]
  /\ \A n \in DOMAIN received[t] : received[t][n].task = t /\ received[t][n].n = n

\* Of a task's packets the HaLow ring took the valid ones, in order.
ArrivedIn(a, r, k, t) ==
  /\ \A j \in DOMAIN a : a[j].task = t =>
       a[j].n \in 1..k /\ a[j] = r[a[j].n] /\ Valid(a[j])
  /\ \A n \in 1..k : Valid(r[n]) => \E j \in DOMAIN a : a[j] = r[n]
  /\ \A i, j \in DOMAIN a : i < j /\ a[i].task = t /\ a[j].task = t => a[i].n < a[j].n

Arrived(t) == ArrivedIn(accepted[SW_SRC_HALOW], received[t], PastCount(t), t)

Numbers  == \A t \in Task : Numbered(t)
Arrivals == \A t \in Task : Src[t] # SW_SRC_HALOW => Arrived(t)

LEMMA NumbersStep ==
  ASSUME SwitchAssumption, Inv, Numbers, [Next]_vars
  PROVE  Numbers'
<1>. SUFFICES ASSUME NEW u \in Task PROVE Numbered(u)'
  BY DEF Numbers
<1>1. Numbered(u) /\ received[u] \in Seq(Packet) /\ Len(received[u]) \in Nat
  BY DEF Numbers, Inv, TypeOK
<1>2. ASSUME rx'[u] = rx[u], received'[u] = received[u],
             sink[SW_SRC_HALOW] => sink'[SW_SRC_HALOW]
      PROVE  Numbered(u)'
  BY <1>1, <1>2 DEF Numbered
<1>3. ASSUME NEW t \in Task, SwitchRx(t) PROVE Numbered(u)'
  <2>1. PICK len \in Lens :
          LET pkt == [task |-> t, n |-> Len(received[t]) + 1, len |-> len]
          IN  /\ rx' = [rx EXCEPT ![t] = [at |-> SW_SRC_BLE, pkt |-> pkt]]
              /\ received' = [received EXCEPT ![t] = Append(@, pkt)]
    BY <1>3 DEF SwitchRx
  <2>2. Started(t) /\ UNCHANGED sink
    BY <1>3 DEF SwitchRx
  <2>3. CASE t # u
    BY <1>2, <2>1, <2>2, <2>3 DEF Inv, TypeOK
  <2>4. CASE t = u
    <3>. DEFINE pkt == [task |-> u, n |-> Len(received[u]) + 1, len |-> len]
                r == received[u]
    <3>1. rx'[u].pkt = pkt /\ received'[u] = Append(r, pkt)
      BY <2>1, <2>4 DEF Inv, TypeOK
    <3>2. pkt.task = u /\ pkt.n = Len(r) + 1
      OBVIOUS
    <3>. HIDE DEF pkt, r
    <3>3. r \in Seq(Packet) /\ \A n \in DOMAIN r : r[n].task = u /\ r[n].n = n
      BY <1>1 DEF Numbered, r
    <3>4. /\ Len(Append(r, pkt)) = Len(r) + 1 /\ DOMAIN Append(r, pkt) = 1..Len(r) + 1
          /\ DOMAIN r = 1..Len(r) /\ Len(r) \in Nat
          /\ \A n \in 1..Len(r) : Append(r, pkt)[n] = r[n]
          /\ Append(r, pkt)[Len(r) + 1] = pkt
      BY <3>3
    <3>5. \A n \in DOMAIN Append(r, pkt) : Append(r, pkt)[n].task = u /\ Append(r, pkt)[n].n = n
      BY <3>2, <3>3, <3>4
    <3>6. Append(r, pkt) # <<>>
      <4>. DEFINE more == Append(r, pkt)
      <4>1. Len(more) # 0
        BY <3>4
      <4>. HIDE DEF more
      <4>. QED  BY <4>1, EmptySeq DEF more
    <3>. QED  BY <2>2, <3>1, <3>4, <3>5, <3>6 DEF Numbered, Started
  <2>. QED  BY <2>3, <2>4
<1>4. ASSUME NEW t \in Task, SkipRing(t) \/ PushRing(t) PROVE Numbered(u)'
  <2>1. /\ rx[t].at \in Port
        /\ rx' = [rx EXCEPT ![t].at = @ + 1]
        /\ UNCHANGED <<sink, received>>
    BY <1>4 DEF SkipRing, PushRing, NextRing, Port
  <2>2. CASE t # u
    BY <1>2, <2>1, <2>2 DEF Inv, TypeOK
  <2>3. CASE t = u
    <3>1. rx'[u].pkt = rx[u].pkt
      <4>1. rx \in [Task -> [at : Port \union {Idle}, pkt : Packet \union {NoPkt}]]
        BY DEF Inv, TypeOK
      <4>. QED  BY <2>1, <2>3, <4>1
    <3>2. rx[u].at # Idle
      BY <2>1, <2>3 DEF Port, Idle
    <3>. QED  BY <1>1, <2>1, <3>1, <3>2 DEF Numbered
  <2>. QED  BY <2>2, <2>3
<1>5. CASE Dispatcher
  <2>1. UNCHANGED <<rx, received, sink>>
    BY <1>5 DEF Dispatcher, DispatchSkip, DispatchPop, DispatchHeld, SinkAccepts, SinkRefuses
  <2>. QED  BY <1>2, <2>1
<1>6. ASSUME NEW p \in Port, RegisterSink(p) PROVE Numbered(u)'
  <2>1. UNCHANGED <<rx, received>> /\ (sink[SW_SRC_HALOW] => sink'[SW_SRC_HALOW])
    BY <1>6 DEF RegisterSink, Inv, TypeOK
  <2>. QED  BY <1>2, <2>1
<1>7. CASE UNCHANGED vars
  BY <1>2, <1>7 DEF vars
<1>. QED  BY <1>3, <1>4, <1>5, <1>6, <1>7 DEF Next, Producer

(* The HaLow ring takes a packet of another task.                           *)
LEMMA ArrivesOther ==
  ASSUME NEW a \in Seq(Packet), NEW r, NEW k, NEW t, NEW pkt \in Packet, pkt.task # t,
         ArrivedIn(a, r, k, t)
  PROVE  ArrivedIn(Append(a, pkt), r, k, t)
<1>. DEFINE b == Append(a, pkt)
            l == Len(a)
<1>1. /\ DOMAIN a = 1..l /\ DOMAIN b = 1..l + 1 /\ l \in Nat
      /\ \A j \in 1..l : b[j] = a[j]
      /\ b[l + 1] = pkt
  OBVIOUS
<1>. HIDE DEF b, l
<1>2. \A j \in DOMAIN b : b[j].task = t => j \in DOMAIN a /\ b[j] = a[j]
  BY <1>1
<1>3. \A j \in DOMAIN a : j \in DOMAIN b /\ b[j] = a[j]
  BY <1>1
<1>. QED  BY <1>2, <1>3 DEF ArrivedIn, b

(* The HaLow ring takes the packet a task came with.                        *)
LEMMA ArrivesOwn ==
  ASSUME NEW a \in Seq(Packet), NEW r, NEW k \in Nat, NEW t, NEW pkt \in Packet,
         pkt.n = k + 1, pkt = r[k + 1], Valid(pkt), ArrivedIn(a, r, k, t)
  PROVE  ArrivedIn(Append(a, pkt), r, k + 1, t)
<1>. DEFINE b == Append(a, pkt)
            l == Len(a)
<1>1. /\ DOMAIN a = 1..l /\ DOMAIN b = 1..l + 1 /\ l \in Nat
      /\ \A j \in 1..l : b[j] = a[j]
      /\ b[l + 1] = pkt
  OBVIOUS
<1>. HIDE DEF b, l
<1>2. ASSUME NEW j \in DOMAIN b, b[j].task = t
      PROVE  b[j].n \in 1..k + 1 /\ b[j] = r[b[j].n] /\ Valid(b[j])
  <2>1. CASE j = l + 1
    BY <1>1, <2>1
  <2>2. CASE j # l + 1
    <3>1. j \in DOMAIN a /\ b[j] = a[j]
      BY <1>1, <2>2
    <3>. QED  BY <1>2, <3>1 DEF ArrivedIn
  <2>. QED  BY <2>1, <2>2
<1>3. ASSUME NEW n \in 1..k + 1, Valid(r[n]) PROVE \E j \in DOMAIN b : b[j] = r[n]
  <2>1. CASE n = k + 1
    BY <1>1, <2>1
  <2>2. CASE n # k + 1
    <3>1. n \in 1..k
      BY <2>2
    <3>2. PICK j \in DOMAIN a : a[j] = r[n]
      BY <1>3, <3>1 DEF ArrivedIn
    <3>. QED  BY <1>1, <3>2
  <2>. QED  BY <2>1, <2>2
<1>4. ASSUME NEW i \in DOMAIN b, NEW j \in DOMAIN b, i < j, b[i].task = t, b[j].task = t
      PROVE  b[i].n < b[j].n
  <2>1. i \in DOMAIN a /\ b[i] = a[i]
    BY <1>1, <1>4
  <2>2. CASE j = l + 1
    <3>1. b[i].n \in 1..k
      BY <1>4, <2>1 DEF ArrivedIn
    <3>. QED  BY <1>1, <2>2, <3>1
  <2>3. CASE j # l + 1
    <3>1. j \in DOMAIN a /\ b[j] = a[j]
      BY <1>1, <2>3
    <3>. QED  BY <1>4, <2>1, <3>1 DEF ArrivedIn
  <2>. QED  BY <2>2, <2>3
<1>5. ArrivedIn(b, r, k + 1, t)
  BY <1>2, <1>3, <1>4 DEF ArrivedIn
<1>. QED  BY <1>5 DEF b

(* A packet that is not valid goes past the HaLow ring.                     *)
LEMMA ArrivesNot ==
  ASSUME NEW a, NEW r, NEW k \in Nat, NEW t, ~Valid(r[k + 1]), ArrivedIn(a, r, k, t)
  PROVE  ArrivedIn(a, r, k + 1, t)
<1>1. \A n \in 1..k : n \in 1..k + 1
  OBVIOUS
<1>2. \A n \in 1..k + 1 : Valid(r[n]) => n \in 1..k
  OBVIOUS
<1>. QED  BY <1>1, <1>2 DEF ArrivedIn

(* The interface hands over one more packet, which is before every ring.    *)
LEMMA ArrivesLater ==
  ASSUME NEW a, NEW r, NEW s, NEW k, NEW t, \A n \in 1..k : s[n] = r[n],
         ArrivedIn(a, r, k, t)
  PROVE  ArrivedIn(a, s, k, t)
BY DEF ArrivedIn

LEMMA ArrivalsStep ==
  ASSUME SwitchAssumption, Inv, Numbers, Arrivals, [Next]_vars
  PROVE  Arrivals'
<1>. SUFFICES ASSUME NEW u \in Task, Src[u] # SW_SRC_HALOW PROVE Arrived(u)'
  BY DEF Arrivals
<1>. DEFINE a == accepted[SW_SRC_HALOW]
            r == received[u]
            k == PastCount(u)
<1>1. /\ Arrived(u) /\ Numbered(u) /\ r \in Seq(Packet) /\ Len(r) \in Nat /\ DOMAIN r = 1..Len(r)
      /\ a \in Seq(Packet) /\ SW_SRC_HALOW \in Port
      /\ rx[u] \in [at : Port \union {Idle}, pkt : Packet \union {NoPkt}]
  BY DEF Arrivals, Numbers, Inv, TypeOK, Port, SW_SRC_HALOW
<1>2. ArrivedIn(a, r, k, u)
  BY <1>1 DEF Arrived
<1>3. Arrived(u)' <=> ArrivedIn(accepted'[SW_SRC_HALOW], received'[u], PastCount(u)', u)
  BY DEF Arrived
<1>4. ASSUME rx'[u] = rx[u], received'[u] = received[u],
             accepted'[SW_SRC_HALOW] = accepted[SW_SRC_HALOW]
      PROVE  Arrived(u)'
  BY <1>2, <1>3, <1>4 DEF PastCount
<1>5. ASSUME NEW t \in Task, SwitchRx(t) PROVE Arrived(u)'
  <2>1. PICK len \in Lens :
          LET pkt == [task |-> t, n |-> Len(received[t]) + 1, len |-> len]
          IN  /\ rx' = [rx EXCEPT ![t] = [at |-> SW_SRC_BLE, pkt |-> pkt]]
              /\ received' = [received EXCEPT ![t] = Append(@, pkt)]
    BY <1>5 DEF SwitchRx
  <2>2. rx[t].at = Idle /\ UNCHANGED accepted
    BY <1>5 DEF SwitchRx
  <2>3. CASE t # u
    BY <1>4, <2>1, <2>2, <2>3 DEF Inv, TypeOK
  <2>4. CASE t = u
    <3>1. PICK pkt : rx'[u].at = SW_SRC_BLE /\ received'[u] = Append(r, pkt)
      BY <2>1, <2>4 DEF Inv, TypeOK
    <3>2. Len(Append(r, pkt)) = Len(r) + 1 /\ \A n \in 1..Len(r) : Append(r, pkt)[n] = r[n]
      BY <1>1
    <3>3. k = Len(r) /\ PastCount(u)' = Len(r)
      BY <1>1, <2>2, <2>4, <3>1, <3>2 DEF PastCount, Idle, SW_SRC_HALOW, SW_SRC_BLE
    <3>. HIDE DEF a, r, k
    <3>4. ArrivedIn(a, Append(r, pkt), k, u)
      BY <1>2, <3>2, <3>3, ArrivesLater
    <3>. QED  BY <1>3, <2>2, <3>1, <3>3, <3>4 DEF a, r
  <2>. QED  BY <2>3, <2>4
<1>6. ASSUME rx[u].at \in Port, rx'[u].at = rx[u].at + 1, received'[u] = received[u],
             accepted'[SW_SRC_HALOW] = accepted[SW_SRC_HALOW],
             rx[u].at = SW_SRC_HALOW => ~Valid(rx[u].pkt)
      PROVE  Arrived(u)'
  <2>1. CASE rx[u].at = SW_SRC_HALOW
    <3>1. r # <<>> /\ rx[u].pkt = r[Len(r)]
      BY <1>1, <2>1 DEF Numbered, SW_SRC_HALOW, Idle
    <3>2. k \in Nat /\ k + 1 = Len(r) /\ PastCount(u)' = Len(r)
      BY <1>1, <1>6, <2>1, <3>1 DEF PastCount, SW_SRC_HALOW
    <3>. HIDE DEF a, r, k
    <3>3. ArrivedIn(a, r, k + 1, u)
      BY <1>2, <1>6, <2>1, <3>1, <3>2, ArrivesNot
    <3>. QED  BY <1>3, <1>6, <3>2, <3>3 DEF a, r
  <2>2. CASE rx[u].at # SW_SRC_HALOW
    <3>1. PastCount(u)' = k
      BY <1>6, <2>2 DEF PastCount, SW_SRC_HALOW, Port
    <3>. QED  BY <1>2, <1>3, <1>6, <3>1
  <2>. QED  BY <2>1, <2>2
<1>7. ASSUME NEW t \in Task, SkipRing(t) PROVE Arrived(u)'
  <2>1. /\ rx[t].at \in Port
        /\ \/ rx[t].at = Src[t]
           \/ ~sink[rx[t].at]
           \/ ~Valid(rx[t].pkt)
        /\ rx' = [rx EXCEPT ![t].at = @ + 1]
        /\ UNCHANGED <<received, accepted>>
    BY <1>7 DEF SkipRing, NextRing
  <2>2. CASE t # u
    BY <1>4, <2>1, <2>2 DEF Inv, TypeOK
  <2>3. CASE t = u
    <3>1. rx[u].at = SW_SRC_HALOW => ~Valid(rx[u].pkt)
      <4>1. rx[u].at = SW_SRC_HALOW => sink[SW_SRC_HALOW]
        BY <1>1 DEF Numbered, SW_SRC_HALOW, Idle
      <4>. QED  BY <2>1, <2>3, <4>1
    <3>2. rx'[u].at = rx[u].at + 1
      BY <2>1, <2>3 DEF Inv, TypeOK
    <3>. QED  BY <1>6, <2>1, <2>3, <3>1, <3>2
  <2>. QED  BY <2>2, <2>3
<1>8. ASSUME NEW t \in Task, PushRing(t) PROVE Arrived(u)'
  <2>. DEFINE p == rx[t].at
              pkt == rx[t].pkt
  <2>1. /\ p \in Port
        /\ Valid(pkt)
        /\ rx' = [rx EXCEPT ![t].at = @ + 1]
        /\ accepted' = [accepted EXCEPT ![p] = Append(@, pkt)]
        /\ UNCHANGED received
    BY <1>8 DEF PushRing, NextRing
  <2>2. rx'[t].at = p + 1 /\ \A q \in Port \ {p} : accepted'[q] = accepted[q]
    BY <2>1 DEF Inv, TypeOK
  <2>3. CASE p # SW_SRC_HALOW
    <3>1. accepted'[SW_SRC_HALOW] = accepted[SW_SRC_HALOW]
      BY <1>1, <2>2, <2>3
    <3>2. CASE t # u
      BY <1>4, <2>1, <3>1, <3>2 DEF Inv, TypeOK
    <3>3. CASE t = u
      BY <1>6, <2>1, <2>2, <2>3, <3>1, <3>3
    <3>. QED  BY <3>2, <3>3
  <2>4. CASE p = SW_SRC_HALOW
    <3>1. accepted'[SW_SRC_HALOW] = Append(a, pkt)
      BY <1>1, <2>1, <2>4 DEF Inv, TypeOK
    <3>2. /\ received[t] # <<>> /\ received[t] \in Seq(Packet) /\ pkt = received[t][Len(received[t])]
          /\ \A n \in DOMAIN received[t] : received[t][n].task = t /\ received[t][n].n = n
      <4>1. Numbered(t) /\ received[t] \in Seq(Packet) /\ rx[t].at # Idle
        BY <2>4 DEF Numbers, SW_SRC_HALOW, Idle, Inv, TypeOK
      <4>. QED  BY <4>1 DEF Numbered
    <3>3. pkt \in Packet /\ pkt.task = t /\ pkt.n = Len(received[t]) /\ Len(received[t]) \in Nat \ {0}
      <4>1. Len(received[t]) \in DOMAIN received[t] /\ Len(received[t]) \in Nat \ {0}
        BY <3>2
      <4>2. received[t][Len(received[t])] \in Packet
        BY <3>2, <4>1
      <4>. QED  BY <3>2, <4>1, <4>2
    <3>4. CASE t # u
      <4>1. rx'[u] = rx[u] /\ PastCount(u)' = k
        BY <2>1, <3>4 DEF Inv, TypeOK, PastCount
      <4>. HIDE DEF a, r, k, pkt
      <4>2. ArrivedIn(Append(a, pkt), r, k, u)
        BY <1>1, <1>2, <3>3, <3>4, ArrivesOther
      <4>. QED  BY <1>3, <2>1, <3>1, <4>1, <4>2 DEF r
    <3>5. CASE t = u
      <4>1. k \in Nat /\ k + 1 = Len(r) /\ PastCount(u)' = Len(r)
        BY <2>1, <2>2, <2>4, <3>3, <3>5 DEF PastCount, SW_SRC_HALOW
      <4>2. pkt.n = k + 1 /\ pkt = r[k + 1]
        BY <3>2, <3>3, <3>5, <4>1
      <4>. HIDE DEF a, r, k, pkt
      <4>3. ArrivedIn(Append(a, pkt), r, k + 1, u)
        BY <1>1, <1>2, <2>1, <3>3, <4>1, <4>2, ArrivesOwn
      <4>. QED  BY <1>3, <2>1, <3>1, <4>1, <4>3 DEF r
    <3>. QED  BY <3>4, <3>5
  <2>. QED  BY <2>3, <2>4
<1>9. CASE Dispatcher
  <2>1. UNCHANGED <<rx, received, accepted>>
    BY <1>9 DEF Dispatcher, DispatchSkip, DispatchPop, DispatchHeld, SinkAccepts, SinkRefuses
  <2>. QED  BY <1>4, <2>1
<1>10. CASE \E p \in Port : RegisterSink(p)
  BY <1>4, <1>10 DEF RegisterSink
<1>11. CASE UNCHANGED vars
  BY <1>4, <1>11 DEF vars
<1>. QED  BY <1>5, <1>7, <1>8, <1>9, <1>10, <1>11 DEF Next, Producer

LEMMA ArrivalsInit ==
  ASSUME SwitchAssumption, Init
  PROVE  Numbers /\ Arrivals
<1>1. ASSUME NEW t \in Task PROVE Numbered(t)
  BY DEF Init, Numbered
<1>2. ASSUME NEW t \in Task PROVE Arrived(t)
  <2>1. accepted[SW_SRC_HALOW] = <<>> /\ PastCount(t) = 0
    BY DEF Init, PastCount, Idle, SW_SRC_HALOW, Port
  <2>. QED  BY <2>1 DEF Arrived, ArrivedIn
<1>. QED  BY <1>1, <1>2 DEF Numbers, Arrivals

LEMMA ArrivalsAlways == Spec => [](Numbers /\ Arrivals)
<1>. USE SwitchAssumption
<1>1. Init => Numbers /\ Arrivals
  BY ArrivalsInit
<1>2. Inv /\ Numbers /\ Arrivals /\ [Next]_vars => (Numbers /\ Arrivals)'
  BY NumbersStep, ArrivalsStep
<1>. QED  BY <1>1, <1>2, Invariance, PTL DEF Spec

(* From an interface to the radio: every valid packet of BLE or TCP that is *)
(* past the HaLow ring is on the radio's path, and nothing else of its task *)
(* is, in the order it was received and once.                               *)
THEOREM HalowIsEndToEnd == Spec => []HalowEndToEnd
<1>. USE SwitchAssumption
<1>1. ASSUME Inv, Numbers, Arrivals PROVE HalowEndToEnd
  <2>. SUFFICES ASSUME NEW t \in Task, Src[t] # SW_SRC_HALOW
                PROVE  LET path == Path(SW_SRC_HALOW)
                           past == PastHalow(t)
                           mine == {i \in DOMAIN path : path[i].task = t}
                       IN  /\ {path[i] : i \in mine} = {past[n] : n \in {m \in DOMAIN past : Valid(past[m])}}
                           /\ \A i, j \in mine : i < j => path[i].n < path[j].n
    BY DEF HalowEndToEnd
  <2>. DEFINE path == Path(SW_SRC_HALOW)
              past == PastHalow(t)
              r == received[t]
              k == PastCount(t)
              mine == {i \in DOMAIN path : path[i].task = t}
  <2>1. path = accepted[SW_SRC_HALOW]
    BY <1>1 DEF Inv, HalowLossless
  <2>2. ArrivedIn(path, r, k, t)
    BY <1>1, <2>1 DEF Arrivals, Arrived
  <2>3. /\ r \in Seq(Packet) /\ Len(r) \in Nat
        /\ rx[t].at \in Port \union {Idle}
        /\ rx[t].at # Idle => r # <<>>
        /\ \A n \in DOMAIN r : r[n].task = t /\ r[n].n = n
    BY <1>1 DEF Inv, TypeOK, Numbers, Numbered
  <2>4. DOMAIN past = 1..k /\ \A n \in 1..k : past[n] = r[n]
    <3>1. CASE rx[t].at <= SW_SRC_HALOW
      <4>1. r # <<>>
        BY <2>3, <3>1 DEF Idle, SW_SRC_HALOW
      <4>2. Len(r) - 1 \in Nat /\ Len(r) - 1 <= Len(r)
        BY <2>3, <4>1
      <4>3. past = SubSeq(r, 1, Len(r) - 1) /\ k = Len(r) - 1
        BY <3>1 DEF PastHalow, PastCount
      <4>. QED  BY <2>3, <4>2, <4>3
    <3>2. CASE ~(rx[t].at <= SW_SRC_HALOW)
      BY <2>3, <3>2 DEF PastHalow, PastCount
    <3>. QED  BY <3>1, <3>2
  <2>5. \A n \in 1..k : n \in DOMAIN r
    BY <2>3 DEF PastCount
  <2>. HIDE DEF path, past, r, k
  <2>6. ASSUME NEW i \in mine
        PROVE  \E n \in {m \in DOMAIN past : Valid(past[m])} : past[n] = path[i]
    BY <2>2, <2>4, <2>6 DEF ArrivedIn
  <2>7. ASSUME NEW n \in {m \in DOMAIN past : Valid(past[m])}
        PROVE  \E i \in mine : path[i] = past[n]
    <3>1. n \in 1..k /\ Valid(r[n]) /\ past[n] = r[n] /\ r[n].task = t
      BY <2>3, <2>4, <2>5, <2>7
    <3>. QED  BY <2>2, <3>1 DEF ArrivedIn
  <2>8. \A i, j \in mine : i < j => path[i].n < path[j].n
    BY <2>2 DEF ArrivedIn
  <2>. QED  BY <2>6, <2>7, <2>8 DEF path, past
<1>. QED  BY <1>1, Invariance, ArrivalsAlways, PTL
=============================================================================
