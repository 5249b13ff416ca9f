--------------------------- MODULE NetPath_proofs ---------------------------
(***************************************************************************)
(* Proofs about NetPath, for every number of descriptors, pbufs and input    *)
(* messages, every size of the queue and every set of timers: the queue of    *)
(* uC/OS-II is a mailbox, the rings stay in order and awake, the pools are     *)
(* accounted for and no timer is early.                                      *)
(***************************************************************************)
EXTENDS NetPath, LwipTimers_proofs

-----------------------------------------------------------------------------
(* Indices of a ring.                                                        *)

LEMMA Modulo ==
    ASSUME NEW n \in Nat \ {0}, NEW a \in Nat, a < n + n
    PROVE  a % n = IF a < n THEN a ELSE a - n
<1>1. a % n \in 0 .. n - 1 /\ a = n * (a \div n) + (a % n)
  BY Z3
<1>2. a \div n \in Int
  OBVIOUS
<1> DEFINE d == a \div n
           r == a % n
<1>3. a = n * d + r /\ d \in Int /\ r \in Int /\ 0 <= r /\ r < n /\ 0 <= a /\ a < n + n
  BY <1>1, <1>2
<1> HIDE DEF d, r
<1>4. d < 2
  <2> SUFFICES ASSUME d >= 2 PROVE FALSE
    BY <1>3
  <2>1. n * d >= n * 2
    BY <1>3, Z3
  <2> QED
    BY <1>3, <2>1
<1>5. d >= 0
  <2> SUFFICES ASSUME d <= -1 PROVE FALSE
    BY <1>3
  <2>1. n * d <= n * (-1)
    BY <1>3, Z3
  <2> QED
    BY <1>3, <2>1
<1>6. d = 0 \/ d = 1
  BY <1>3, <1>4, <1>5
<1> QED
  BY <1>3, <1>6 DEF r

(* The slot at a distance. *)
At(n, f, i) == (f + i) % n

(* The descriptors of others: h of the n slots, from first on, up to next. *)
Ring(n, taken, first, next, h) ==
    /\ first \in 0 .. n - 1 /\ next \in 0 .. n - 1 /\ h \in 0 .. n
    /\ taken \subseteq 0 .. n - 1
    /\ next = At(n, first, h)
    /\ \A i \in 0 .. n - 1 : At(n, first, i) \in taken <=> i < h

LEMMA AtDistance ==
    ASSUME NEW n \in Nat \ {0}, NEW f \in 0 .. n - 1, NEW i \in 0 .. n
    PROVE  At(n, f, i) = IF f + i < n THEN f + i ELSE f + i - n
<1> DEFINE a == f + i
<1>1. a \in Nat /\ a < n + n
  OBVIOUS
<1>2. a % n = IF a < n THEN a ELSE a - n
  <2> HIDE DEF a
  <2> QED
    BY <1>1, Modulo
<1> QED
  BY <1>2 DEF At

LEMMA AtSlot ==
    ASSUME NEW n \in Nat \ {0}, NEW f \in 0 .. n - 1, NEW i \in 0 .. n
    PROVE  At(n, f, i) \in 0 .. n - 1
BY AtDistance

LEMMA AtEnds ==
    ASSUME NEW n \in Nat \ {0}, NEW f \in 0 .. n - 1
    PROVE  At(n, f, 0) = f /\ At(n, f, n) = f
<1>1. At(n, f, 0) = IF f + 0 < n THEN f + 0 ELSE f + 0 - n
  <2>1. 0 \in 0 .. n
    OBVIOUS
  <2> QED
    BY <2>1, AtDistance
<1>2. At(n, f, n) = IF f + n < n THEN f + n ELSE f + n - n
  <2>1. n \in 0 .. n
    OBVIOUS
  <2> QED
    BY <2>1, AtDistance
<1> QED
  BY <1>1, <1>2

LEMMA AtOnto ==
    ASSUME NEW n \in Nat \ {0}, NEW f \in 0 .. n - 1, NEW k \in 0 .. n - 1
    PROVE  \E i \in 0 .. n - 1 : k = At(n, f, i)
<1> DEFINE i == IF f <= k THEN k - f ELSE k - f + n
<1>1. i \in 0 .. n - 1 /\ i \in 0 .. n /\ k = IF f + i < n THEN f + i ELSE f + i - n
  OBVIOUS
<1> HIDE DEF i
<1>2. k = At(n, f, i)
  BY <1>1, AtDistance
<1> QED
  BY <1>1, <1>2

LEMMA AtOnce ==
    ASSUME NEW n \in Nat \ {0}, NEW f \in 0 .. n - 1,
           NEW i \in 0 .. n - 1, NEW j \in 0 .. n - 1, At(n, f, i) = At(n, f, j)
    PROVE  i = j
<1>1. i \in 0 .. n /\ j \in 0 .. n
  OBVIOUS
<1>2. At(n, f, i) = IF f + i < n THEN f + i ELSE f + i - n
  BY <1>1, AtDistance
<1>3. At(n, f, j) = IF f + j < n THEN f + j ELSE f + j - n
  BY <1>1, AtDistance
<1>4. (IF f + i < n THEN f + i ELSE f + i - n) = (IF f + j < n THEN f + j ELSE f + j - n)
  BY <1>2, <1>3
<1> QED
  BY <1>4

LEMMA AtNext ==
    ASSUME NEW n \in Nat \ {0}, NEW f \in 0 .. n - 1, NEW i \in 0 .. n - 1
    PROVE  /\ At(n, At(n, f, 1), i) = At(n, f, i + 1)
           /\ At(n, At(n, f, i), 1) = At(n, f, i + 1)
<1> DEFINE g == At(n, f, 1)
           k == At(n, f, i)
<1>1. 1 \in 0 .. n /\ i \in 0 .. n /\ i + 1 \in 0 .. n
  OBVIOUS
<1>2. g = IF f + 1 < n THEN f + 1 ELSE f + 1 - n
  BY <1>1, AtDistance
<1>3. k = IF f + i < n THEN f + i ELSE f + i - n
  BY <1>1, AtDistance
<1>4. At(n, f, i + 1) = IF f + (i + 1) < n THEN f + (i + 1) ELSE f + (i + 1) - n
  BY <1>1, AtDistance
<1>5. g \in 0 .. n - 1 /\ k \in 0 .. n - 1
  BY <1>1, AtSlot
<1> HIDE DEF g, k
<1>6. At(n, g, i) = IF g + i < n THEN g + i ELSE g + i - n
  BY <1>1, <1>5, AtDistance
<1>7. At(n, k, 1) = IF k + 1 < n THEN k + 1 ELSE k + 1 - n
  BY <1>1, <1>5, AtDistance
<1>8. At(n, g, i) = At(n, f, i + 1)
  BY <1>2, <1>4, <1>5, <1>6
<1>9. At(n, k, 1) = At(n, f, i + 1)
  BY <1>3, <1>4, <1>5, <1>7
<1> QED
  BY <1>8, <1>9 DEF g, k

LEMMA RingCount ==
    ASSUME NEW n \in Nat \ {0}, NEW taken, NEW first, NEW next, NEW h,
           Ring(n, taken, first, next, h)
    PROVE  /\ Cardinality(taken) = h
           /\ next \in taken <=> h = n
           /\ first \in taken <=> h # 0
<1>0. first \in 0 .. n - 1 /\ h \in 0 .. n /\ next = At(n, first, h) /\ taken \subseteq 0 .. n - 1
  BY DEF Ring
<1>1. \A i \in 0 .. n - 1 : At(n, first, i) \in taken <=> i < h
  BY DEF Ring
<1>2. first = At(n, first, 0)
  BY <1>0, AtEnds
<1>3. first \in taken <=> h # 0
  <2>1. At(n, first, 0) \in taken <=> 0 < h
    BY <1>1
  <2> QED
    BY <1>0, <1>2, <2>1
<1>4. next \in taken <=> h = n
  <2>1. CASE h = n
    <3>1. next = first
      BY <1>0, <2>1, AtEnds
    <3> QED
      BY <1>3, <2>1, <3>1
  <2>2. CASE h # n
    BY <1>0, <1>1, <2>2
  <2> QED
    BY <2>1, <2>2
<1>5. Cardinality(taken) = h
  <2> DEFINE f == [i \in 0 .. h - 1 |-> At(n, first, i)]
  <2>1. f \in Bijection(0 .. h - 1, taken)
    <3>1. \A i \in 0 .. h - 1 : f[i] \in taken
      BY <1>0, <1>1
    <3>2. \A k \in taken : \E i \in 0 .. h - 1 : f[i] = k
      <4> TAKE k \in taken
      <4>1. PICK i \in 0 .. n - 1 : k = At(n, first, i)
        BY <1>0, AtOnto
      <4>2. i < h
        BY <1>1, <4>1
      <4>3. i \in 0 .. h - 1
        BY <1>0, <4>2
      <4> QED
        BY <4>1, <4>3
    <3>3. \A i, j \in 0 .. h - 1 : f[i] = f[j] => i = j
      <4> TAKE i, j \in 0 .. h - 1
      <4>1. i \in 0 .. n - 1 /\ j \in 0 .. n - 1
        BY <1>0
      <4> QED
        BY <1>0, <4>1, AtOnce
    <3>4. f \in [0 .. h - 1 -> taken]
      BY <3>1
    <3> HIDE DEF f
    <3> QED
      BY <3>2, <3>3, <3>4 DEF Bijection, Injection, Surjection, IsInjective
  <2> HIDE DEF f
  <2>2. IsFiniteSet(0 .. h - 1) /\ Cardinality(0 .. h - 1) = h
    <3>1. h - 1 \in Int /\ 0 \in Int /\ (IF 0 > h - 1 THEN 0 ELSE (h - 1) - 0 + 1) = h
      BY <1>0
    <3> QED
      BY <3>1, FS_Interval
  <2>3. Cardinality(0 .. h - 1) = Cardinality(taken)
    BY <2>1, <2>2, FS_Bijection DEF ExistsBijection
  <2> QED
    BY <2>2, <2>3
<1> QED
  BY <1>3, <1>4, <1>5

(* A slot is handed over at one end, and taken back at the other. *)
LEMMA RingGive ==
    ASSUME NEW n \in Nat \ {0}, NEW taken, NEW first, NEW next, NEW h,
           Ring(n, taken, first, next, h), next \notin taken
    PROVE  Ring(n, taken \cup {next}, first, At(n, next, 1), h + 1)
<1>0. first \in 0 .. n - 1 /\ h \in 0 .. n /\ next = At(n, first, h) /\ taken \subseteq 0 .. n - 1
      /\ next \in 0 .. n - 1
  BY DEF Ring
<1>1. \A i \in 0 .. n - 1 : At(n, first, i) \in taken <=> i < h
  BY DEF Ring
<1>2. h < n
  BY <1>0, RingCount
<1>3. At(n, next, 1) = At(n, first, h + 1) /\ At(n, next, 1) \in 0 .. n - 1
  <2>1. h \in 0 .. n - 1 /\ 1 \in 0 .. n
    BY <1>0, <1>2
  <2> QED
    BY <1>0, <2>1, AtNext, AtSlot
<1>4. \A i \in 0 .. n - 1 : At(n, first, i) \in taken \cup {next} <=> i < h + 1
  <2> TAKE i \in 0 .. n - 1
  <2>1. At(n, first, i) = next <=> i = h
    <3>1. h \in 0 .. n - 1
      BY <1>0, <1>2
    <3> QED
      BY <1>0, <3>1, AtOnce
  <2>2. At(n, first, i) \in taken <=> i < h
    BY <1>1
  <2> QED
    BY <1>0, <2>1, <2>2
<1>5. h + 1 \in 0 .. n
  BY <1>0, <1>2
<1>6. taken \cup {next} \subseteq 0 .. n - 1
  BY <1>0
<1> QED
  BY <1>0, <1>3, <1>4, <1>5, <1>6 DEF Ring

LEMMA RingTake ==
    ASSUME NEW n \in Nat \ {0}, NEW taken, NEW first, NEW next, NEW h,
           Ring(n, taken, first, next, h), first \in taken
    PROVE  Ring(n, taken \ {first}, At(n, first, 1), next, h - 1)
<1>0. first \in 0 .. n - 1 /\ h \in 0 .. n /\ next = At(n, first, h) /\ taken \subseteq 0 .. n - 1
      /\ next \in 0 .. n - 1
  BY DEF Ring
<1>1. \A i \in 0 .. n - 1 : At(n, first, i) \in taken <=> i < h
  BY DEF Ring
<1>2. h # 0
  BY RingCount
<1> DEFINE g == At(n, first, 1)
<1>3. g \in 0 .. n - 1 /\ \A i \in 0 .. n - 1 : At(n, g, i) = At(n, first, i + 1)
  <2>1. 1 \in 0 .. n
    OBVIOUS
  <2> QED
    BY <1>0, <2>1, AtNext, AtSlot
<1> HIDE DEF g
<1>4. next = At(n, g, h - 1)
  <2>1. h - 1 \in 0 .. n - 1 /\ (h - 1) + 1 = h
    BY <1>0, <1>2
  <2> QED
    BY <1>0, <1>3, <2>1
<1>5. \A i \in 0 .. n - 1 : At(n, g, i) \in taken \ {first} <=> i < h - 1
  <2> TAKE i \in 0 .. n - 1
  <2>1. At(n, g, i) = At(n, first, i + 1)
    BY <1>3
  <2>2. CASE i + 1 = n
    <3>1. At(n, first, i + 1) = first
      BY <1>0, <2>2, AtEnds
    <3> QED
      BY <1>0, <2>1, <2>2, <3>1
  <2>3. CASE i + 1 # n
    <3>1. i + 1 \in 0 .. n - 1 /\ 0 \in 0 .. n - 1 /\ i + 1 # 0
      BY <2>3
    <3>2. At(n, first, i + 1) \in taken <=> i + 1 < h
      BY <1>1, <3>1
    <3>3. At(n, first, i + 1) # first
      <4>1. first = At(n, first, 0)
        BY <1>0, AtEnds
      <4> QED
        BY <1>0, <3>1, <4>1, AtOnce
    <3> QED
      BY <1>0, <2>1, <3>2, <3>3
  <2> QED
    BY <2>2, <2>3
<1> QED
  BY <1>0, <1>2, <1>3, <1>4, <1>5 DEF Ring, g

-----------------------------------------------------------------------------
(* The rings of the Ethernet driver.                                         *)

RxTaken(r) == {i \in RxSlots : ~r.own[i]}
TxTaken(t) == {i \in TxSlots : t.own[i]}

RxType == [own : [RxSlots -> BOOLEAN], at : RxSlots, next : RxSlots, rbus : BOOLEAN, rs : BOOLEAN]
TxType == [own : [TxSlots -> BOOLEAN], at : TxSlots, next : TxSlots, tbus : BOOLEAN]

(* The frames received and not taken lie between the driver's descriptor and the DMA's;
   those to be sent the other way round; a receiver that has run out is full. *)
RxOK(r) ==
    /\ r \in RxType
    /\ \E h : Ring(RxBufs, RxTaken(r), r.next, r.at, h) /\ (r.rbus => h = RxBufs)

TxOK(t) == t \in TxType /\ \E h : Ring(TxBufs, TxTaken(t), t.at, t.next, h)

LEMMA ArrivedOK ==
    ASSUME RxOK(rx)
    PROVE  /\ RxOK(Arrived)
           /\ Arrived.next = rx.next
           /\ rx.own[rx.at] => Arrived.rs
           /\ ~rx.own[rx.at] => Arrived.rs = rx.rs /\ Arrived.own = rx.own
<1>0. /\ rx \in RxType /\ RxBufs \in Nat \ {0} /\ RxSlots = 0 .. RxBufs - 1
      /\ rx.at \in RxSlots /\ rx.next \in RxSlots /\ rx.own \in [RxSlots -> BOOLEAN]
      /\ rx.rbus \in BOOLEAN /\ rx.rs \in BOOLEAN
  BY RingAssumption DEF RxOK, RxType, RxSlots
<1>1. PICK h : Ring(RxBufs, RxTaken(rx), rx.next, rx.at, h) /\ (rx.rbus => h = RxBufs)
  BY DEF RxOK
<1>2. CASE rx.own[rx.at]
  <2>1. Arrived = [rx EXCEPT !.own[rx.at] = FALSE, !.at = (@ + 1) % RxBufs, !.rs = TRUE]
    BY <1>2 DEF Arrived
  <2>2. /\ Arrived.own = [rx.own EXCEPT ![rx.at] = FALSE] /\ Arrived.at = At(RxBufs, rx.at, 1)
        /\ Arrived.next = rx.next /\ Arrived.rs = TRUE /\ Arrived.rbus = rx.rbus
    BY <1>0, <2>1 DEF RxType, At
  <2>3. At(RxBufs, rx.at, 1) \in RxSlots
    <3>1. 1 \in 0 .. RxBufs
      BY <1>0
    <3> QED
      BY <1>0, <3>1, AtSlot
  <2>4. Arrived \in RxType
    BY <1>0, <2>1, <2>3 DEF RxType, At
  <2>5. RxTaken(Arrived) = RxTaken(rx) \cup {rx.at} /\ rx.at \notin RxTaken(rx)
    BY <1>0, <1>2, <2>2 DEF RxTaken
  <2>6. Ring(RxBufs, RxTaken(Arrived), Arrived.next, Arrived.at, h + 1)
    BY <1>0, <1>1, <2>2, <2>5, RingGive
  <2>7. ~rx.rbus
    BY <1>0, <1>1, <2>5, RingCount
  <2> QED
    BY <1>2, <2>2, <2>4, <2>6, <2>7 DEF RxOK
<1>3. CASE ~rx.own[rx.at]
  <2>1. Arrived = [rx EXCEPT !.rbus = TRUE]
    BY <1>3 DEF Arrived
  <2>2. /\ Arrived.own = rx.own /\ Arrived.at = rx.at
        /\ Arrived.next = rx.next /\ Arrived.rs = rx.rs /\ Arrived.rbus = TRUE
    BY <1>0, <2>1 DEF RxType
  <2>3. Arrived \in RxType
    BY <1>0, <2>1 DEF RxType
  <2>4. RxTaken(Arrived) = RxTaken(rx) /\ rx.at \in RxTaken(rx)
    BY <1>0, <1>3, <2>2 DEF RxTaken
  <2>5. h = RxBufs
    BY <1>0, <1>1, <2>4, RingCount
  <2> QED
    BY <1>1, <1>3, <2>2, <2>3, <2>4, <2>5 DEF RxOK
<1> QED
  BY <1>2, <1>3

LEMMA LowLevelInputOK ==
    ASSUME RxOK(rx), FrameWaits
    PROVE  RxOK(LowLevelInput)
<1>0. /\ rx \in RxType /\ RxBufs \in Nat \ {0} /\ RxSlots = 0 .. RxBufs - 1
      /\ rx.at \in RxSlots /\ rx.next \in RxSlots /\ rx.own \in [RxSlots -> BOOLEAN]
      /\ rx.rbus \in BOOLEAN /\ rx.rs \in BOOLEAN
  BY RingAssumption DEF RxOK, RxType, RxSlots
<1>1. PICK h : Ring(RxBufs, RxTaken(rx), rx.next, rx.at, h) /\ (rx.rbus => h = RxBufs)
  BY DEF RxOK
<1> DEFINE new == LowLevelInput
<1>2. new = [rx EXCEPT !.own[rx.next] = TRUE, !.next = (@ + 1) % RxBufs, !.rbus = FALSE]
  BY DEF LowLevelInput
<1> HIDE DEF new
<1>3. /\ new.own = [rx.own EXCEPT ![rx.next] = TRUE] /\ new.next = At(RxBufs, rx.next, 1)
      /\ new.at = rx.at /\ new.rs = rx.rs /\ new.rbus = FALSE
  BY <1>0, <1>2 DEF RxType, At
<1>4. At(RxBufs, rx.next, 1) \in RxSlots
  <2>1. 1 \in 0 .. RxBufs
    BY <1>0
  <2> QED
    BY <1>0, <2>1, AtSlot
<1>5. new \in RxType
  BY <1>0, <1>2, <1>4 DEF RxType, At
<1>6. RxTaken(new) = RxTaken(rx) \ {rx.next} /\ rx.next \in RxTaken(rx)
  BY <1>0, <1>3 DEF RxTaken, FrameWaits
<1>7. Ring(RxBufs, RxTaken(new), new.next, new.at, h - 1)
  BY <1>0, <1>1, <1>3, <1>6, RingTake
<1>8. RxOK(new)
  BY <1>3, <1>5, <1>7 DEF RxOK
<1> QED
  BY <1>8 DEF new

LEMMA ClearFlagOK ==
    ASSUME RxOK(rx)
    PROVE  RxOK(ClearFlag) /\ ClearFlag.own = rx.own /\ ClearFlag.next = rx.next
<1>0. rx \in RxType
  BY DEF RxOK
<1>1. /\ ClearFlag \in RxType
      /\ ClearFlag.own = rx.own /\ ClearFlag.at = rx.at
      /\ ClearFlag.next = rx.next /\ ClearFlag.rbus = rx.rbus
  BY <1>0 DEF RxType, ClearFlag
<1>2. RxTaken(ClearFlag) = RxTaken(rx)
  BY <1>1 DEF RxTaken
<1> QED
  BY <1>1, <1>2 DEF RxOK

LEMMA TransmitOK ==
    ASSUME TxOK(tx), Transmit
    PROVE  TxOK(tx') /\ (tx'.tbus => ~tx'.own[tx'.at])
<1>0. /\ tx \in TxType /\ TxBufs \in Nat \ {0} /\ TxSlots = 0 .. TxBufs - 1
      /\ tx.at \in TxSlots /\ tx.next \in TxSlots /\ tx.own \in [TxSlots -> BOOLEAN]
      /\ tx.tbus \in BOOLEAN /\ ~tx.tbus
  BY RingAssumption DEF TxOK, TxType, TxSlots, Transmit
<1>1. PICK h : Ring(TxBufs, TxTaken(tx), tx.at, tx.next, h)
  BY DEF TxOK
<1>2. CASE tx.own[tx.at]
  <2>1. tx' = [tx EXCEPT !.own[tx.at] = FALSE, !.at = (@ + 1) % TxBufs]
    BY <1>2 DEF Transmit
  <2>2. /\ tx'.own = [tx.own EXCEPT ![tx.at] = FALSE] /\ tx'.at = At(TxBufs, tx.at, 1)
        /\ tx'.next = tx.next /\ tx'.tbus = tx.tbus
    BY <1>0, <2>1 DEF TxType, At
  <2>3. At(TxBufs, tx.at, 1) \in TxSlots
    <3>1. 1 \in 0 .. TxBufs
      BY <1>0
    <3> QED
      BY <1>0, <3>1, AtSlot
  <2>4. tx' \in TxType
    BY <1>0, <2>1, <2>3 DEF TxType, At
  <2>5. TxTaken(tx') = TxTaken(tx) \ {tx.at} /\ tx.at \in TxTaken(tx)
    BY <1>0, <1>2, <2>2 DEF TxTaken
  <2>6. Ring(TxBufs, TxTaken(tx'), tx'.at, tx'.next, h - 1)
    BY <1>0, <1>1, <2>2, <2>5, RingTake
  <2> QED
    BY <1>0, <2>2, <2>4, <2>6 DEF TxOK
<1>3. CASE ~tx.own[tx.at]
  <2>1. tx' = [tx EXCEPT !.tbus = TRUE]
    BY <1>3 DEF Transmit
  <2>2. /\ tx'.own = tx.own /\ tx'.at = tx.at /\ tx'.next = tx.next
    BY <1>0, <2>1 DEF TxType
  <2>3. tx' \in TxType
    BY <1>0, <2>1 DEF TxType
  <2>4. TxTaken(tx') = TxTaken(tx)
    BY <2>2 DEF TxTaken
  <2> QED
    BY <1>1, <1>3, <2>2, <2>3, <2>4 DEF TxOK
<1> QED
  BY <1>2, <1>3

LEMMA TransmitFrameOK ==
    ASSUME TxOK(tx), TxFree
    PROVE  TxOK(TransmitFrame)
<1>0. /\ tx \in TxType /\ TxBufs \in Nat \ {0} /\ TxSlots = 0 .. TxBufs - 1
      /\ tx.at \in TxSlots /\ tx.next \in TxSlots /\ tx.own \in [TxSlots -> BOOLEAN]
      /\ tx.tbus \in BOOLEAN
  BY RingAssumption DEF TxOK, TxType, TxSlots
<1>1. PICK h : Ring(TxBufs, TxTaken(tx), tx.at, tx.next, h)
  BY DEF TxOK
<1> DEFINE new == TransmitFrame
<1>2. new = [tx EXCEPT !.own[tx.next] = TRUE, !.next = (@ + 1) % TxBufs]
  BY DEF TransmitFrame
<1> HIDE DEF new
<1>3. /\ new.own = [tx.own EXCEPT ![tx.next] = TRUE] /\ new.next = At(TxBufs, tx.next, 1)
      /\ new.at = tx.at
  BY <1>0, <1>2 DEF TxType, At
<1>4. At(TxBufs, tx.next, 1) \in TxSlots
  <2>1. 1 \in 0 .. TxBufs
    BY <1>0
  <2> QED
    BY <1>0, <2>1, AtSlot
<1>5. new \in TxType
  BY <1>0, <1>2, <1>4 DEF TxType, At
<1>6. TxTaken(new) = TxTaken(tx) \cup {tx.next} /\ tx.next \notin TxTaken(tx)
  BY <1>0, <1>3 DEF TxTaken, TxFree
<1>7. Ring(TxBufs, TxTaken(new), new.at, new.next, h + 1)
  BY <1>0, <1>1, <1>3, <1>6, RingGive
<1>8. TxOK(new)
  BY <1>3, <1>5, <1>7 DEF TxOK
<1> QED
  BY <1>8 DEF new

LEMMA PollDemandOK ==
    ASSUME TxOK(tx)
    PROVE  TxOK(PollDemand) /\ ~PollDemand.tbus
<1>0. tx \in TxType
  BY DEF TxOK
<1>1. /\ PollDemand \in TxType
      /\ PollDemand.own = tx.own /\ PollDemand.at = tx.at
      /\ PollDemand.next = tx.next /\ PollDemand.tbus = FALSE
  BY <1>0 DEF TxType, PollDemand
<1>2. TxTaken(PollDemand) = TxTaken(tx)
  BY <1>1 DEF TxTaken
<1> QED
  BY <1>1, <1>2 DEF TxOK

-----------------------------------------------------------------------------
(* The inductive invariant of the rings.                                     *)

RingsInv ==
    /\ RxOK(rx) /\ TxOK(tx)
    /\ isr \in {"idle", "test", "clear"}
    /\ FrameWaits => rx.rs \/ isr = "test" \/ quiet
    /\ isr = "clear" /\ FrameWaits => quiet
    /\ tx.tbus /\ tx.own[tx.at] => pc = "poll"

LEMMA RingEmpty ==
    ASSUME NEW n \in Nat \ {0}
    PROVE  Ring(n, {}, 0, 0, 0)
<1>1. 0 \in 0 .. n - 1 /\ 0 \in 0 .. n
  OBVIOUS
<1>2. At(n, 0, 0) = 0
  BY <1>1, AtEnds
<1>3. \A i \in 0 .. n - 1 : ~(i < 0)
  OBVIOUS
<1> QED
  BY <1>1, <1>2, <1>3 DEF Ring

LEMMA RingsInit == Init => RingsInv
<1> SUFFICES ASSUME Init PROVE RingsInv
  OBVIOUS
<1>0. RxBufs \in Nat \ {0} /\ TxBufs \in Nat \ {0} /\ 0 \in RxSlots /\ 0 \in TxSlots
  BY RingAssumption DEF RxSlots, TxSlots
<1>1. /\ rx = [own |-> [i \in RxSlots |-> TRUE], at |-> 0, next |-> 0, rbus |-> FALSE, rs |-> FALSE]
      /\ tx = [own |-> [i \in TxSlots |-> FALSE], at |-> 0, next |-> 0, tbus |-> FALSE]
      /\ isr = "idle"
  BY DEF Init, DmaInit
<1>2. rx \in RxType /\ tx \in TxType
  BY <1>0, <1>1 DEF RxType, TxType
<1>3. RxTaken(rx) = {} /\ TxTaken(tx) = {}
  BY <1>1 DEF RxTaken, TxTaken
<1>4. Ring(RxBufs, RxTaken(rx), rx.next, rx.at, 0) /\ Ring(TxBufs, TxTaken(tx), tx.at, tx.next, 0)
  BY <1>0, <1>1, <1>3, RingEmpty
<1>5. RxOK(rx) /\ TxOK(tx)
  BY <1>1, <1>2, <1>4 DEF RxOK, TxOK
<1>6. ~FrameWaits /\ ~tx.tbus
  BY <1>0, <1>1 DEF FrameWaits
<1> QED
  BY <1>1, <1>5, <1>6 DEF RingsInv

LEMMA RingsNext == RingsInv /\ [Next]_vars => RingsInv'
<1> SUFFICES ASSUME RingsInv, [Next]_vars PROVE RingsInv'
  OBVIOUS
<1> USE DEF RingsInv
(* Where neither the rings nor the interrupt handler are touched. *)
<1>0. ASSUME UNCHANGED <<rx, tx, isr, quiet>>, pc # "poll" \/ pc' = pc
      PROVE  RingsInv'
  BY <1>0 DEF FrameWaits
<1>1. CASE Arrive
  <2>1. rx' = Arrived /\ UNCHANGED <<tx, isr, pc>>
        /\ quiet' = (quiet \/ (isr = "clear" /\ rx.own[rx.at]))
    BY <1>1 DEF Arrive
  <2>2. /\ RxOK(rx')
        /\ rx'.next = rx.next
        /\ rx.own[rx.at] => rx'.rs
        /\ ~rx.own[rx.at] => rx'.rs = rx.rs /\ rx'.own = rx.own
    BY <2>1, ArrivedOK
  <2>3. CASE rx.own[rx.at]
    BY <2>1, <2>2, <2>3
  <2>4. CASE ~rx.own[rx.at]
    <3>1. FrameWaits' = FrameWaits
      BY <2>2, <2>4 DEF FrameWaits
    <3> QED
      BY <2>1, <2>2, <2>4, <3>1
  <2> QED
    BY <2>3, <2>4
<1>2. CASE Send
  BY <1>2, TransmitOK DEF Send, pathVars, FrameWaits
<1>3. CASE IrqEnter
  BY <1>3 DEF IrqEnter, dmaVars
<1>4. CASE IrqTake
  <2>1. rx' = LowLevelInput /\ FrameWaits /\ isr = "test" /\ UNCHANGED <<tx, isr, quiet, pc>>
    BY <1>4 DEF IrqTake
  <2> QED
    BY <2>1, LowLevelInputOK
<1>5. CASE IrqDone
  BY <1>5 DEF IrqDone, dmaVars, FrameWaits
<1>6. CASE IrqClear
  <2>1. rx' = ClearFlag /\ isr = "clear" /\ isr' = "idle" /\ UNCHANGED <<tx, quiet, pc>>
    BY <1>6 DEF IrqClear
  <2>2. RxOK(rx') /\ rx'.own = rx.own /\ rx'.next = rx.next
    BY <2>1, ClearFlagOK
  <2>3. FrameWaits' = FrameWaits
    BY <2>2 DEF FrameWaits
  <2> QED
    BY <2>1, <2>2, <2>3
<1>7. CASE Poll
  BY <1>7, PollDemandOK DEF Poll, FrameWaits
<1>8. CASE Fetch
  BY <1>8, <1>0 DEF Fetch, dmaVars
<1>9. CASE Pend
  BY <1>9, <1>0 DEF Pend, dmaVars
<1>10. CASE Pended
  BY <1>10, <1>0 DEF Pended, dmaVars
<1>11. CASE Input
  BY <1>11, <1>0 DEF Input, dmaVars
<1>12. CASE Call
  BY <1>12, <1>0 DEF Call, dmaVars
<1>13. CASE Timer
  BY <1>13, <1>0 DEF Timer, dmaVars
<1>14. CASE Output
  <2>1. pc = "output" /\ UNCHANGED <<rx, isr, quiet>>
        /\ ((TxFree /\ tx' = TransmitFrame /\ pc' = "poll") \/ UNCHANGED tx)
    BY <1>14 DEF Output
  <2> QED
    BY <2>1, TransmitFrameOK DEF FrameWaits
<1>15. CASE ApiMsg
  BY <1>15, <1>0 DEF ApiMsg, dmaVars
<1>16. CASE Release
  BY <1>16, <1>0 DEF Release, dmaVars
<1>17. CASE Tick
  BY <1>17, <1>0 DEF Tick, dmaVars
<1>18. CASE UNCHANGED vars
  BY <1>18, <1>0 DEF vars, dmaVars, pathVars
<1> QED
  BY <1>1, <1>2, <1>3, <1>4, <1>5, <1>6, <1>7, <1>8, <1>9, <1>10, <1>11, <1>12, <1>13, <1>14,
     <1>15, <1>16, <1>17, <1>18 DEF Next, Irq, Thread

(* The rings stay in order, and whoever has work in them has been told. *)
THEOREM RingsStayAwake == Spec => []RingsAwake
<1>1. RingsInv => RingsAwake
  <2> SUFFICES ASSUME RingsInv PROVE RingsAwake
    OBVIOUS
  <2>0. RxBufs \in Nat \ {0} /\ TxBufs \in Nat \ {0}
    BY RingAssumption
  <2>1. PICK h : Ring(RxBufs, RxTaken(rx), rx.next, rx.at, h) /\ (rx.rbus => h = RxBufs)
    BY DEF RingsInv, RxOK
  <2>2. PICK b : Ring(TxBufs, TxTaken(tx), tx.at, tx.next, b)
    BY DEF RingsInv, TxOK
  <2>3. Held = h /\ Busy = b
    BY <2>0, <2>1, <2>2, RingCount DEF Held, Busy, RxTaken, TxTaken
  <2>4. h \in 0 .. RxBufs /\ b \in 0 .. TxBufs
    BY <2>1, <2>2 DEF Ring
  <2>5. rx.at = (rx.next + Held) % RxBufs /\ tx.next = (tx.at + Busy) % TxBufs
    BY <2>1, <2>2, <2>3 DEF Ring, At
  <2>6. \A i \in 0 .. Held - 1 : ~rx.own[(rx.next + i) % RxBufs]
    <3> TAKE i \in 0 .. Held - 1
    <3>1. i \in 0 .. RxBufs - 1 /\ i < h
      BY <2>0, <2>3, <2>4
    <3>2. At(RxBufs, rx.next, i) \in RxTaken(rx)
      BY <2>1, <3>1 DEF Ring
    <3> QED
      BY <3>2 DEF At, RxTaken
  <2>7. \A i \in 0 .. Busy - 1 : tx.own[(tx.at + i) % TxBufs]
    <3> TAKE i \in 0 .. Busy - 1
    <3>1. i \in 0 .. TxBufs - 1 /\ i < b
      BY <2>0, <2>3, <2>4
    <3>2. At(TxBufs, tx.at, i) \in TxTaken(tx)
      BY <2>2, <3>1 DEF Ring
    <3> QED
      BY <3>2 DEF At, TxTaken
  <2>8. InOrder
    BY <2>5, <2>6, <2>7 DEF InOrder
  <2>9. rx.rbus => Held = RxBufs
    BY <2>1, <2>3
  <2> QED
    BY <2>8, <2>9 DEF RingsAwake, RingsInv
<1> QED
  BY <1>1, RingsInit, RingsNext, PTL DEF Spec

-----------------------------------------------------------------------------
(* The queue of uC/OS-II.                                                    *)

QType == [ring : [Slots -> Msg \cup {None}], in : Slots, out : Slots,
          entries : 0 .. QueueSize, waits : BOOLEAN, stat : {"ok", "to"},
          dly : Nat, handed : Msg \cup {None}]

Slot(r, i) == r.ring[At(QueueSize, r.out, i)]

(* The entries lie from OSQOut up to OSQIn; a waiting task has been handed nothing and
   finds nothing in the ring; only a waiting task runs out of time. *)
QOK(r) ==
    /\ r \in QType
    /\ r.in = At(QueueSize, r.out, r.entries)
    /\ \A i \in 0 .. r.entries - 1 : Slot(r, i) \in Msg
    /\ r.waits => r.entries = 0 /\ r.handed = None
    /\ r.stat = "to" => r.waits /\ r.dly = 0
    /\ ~r.waits => r.dly = 0

(* The messages in order, as Contents has them, by their distance from the first. *)
Count(r) == IF r.handed = None THEN r.entries ELSE r.entries + 1
Item(r, i) == IF r.handed = None THEN Slot(r, i)
              ELSE IF i = 0 THEN r.handed ELSE Slot(r, i - 1)
Items(r) == [i \in 1 .. Count(r) |-> Item(r, i - 1)]

ContentsOf(r) ==
    (IF r.handed = None THEN <<>> ELSE <<r.handed>>)
      \o [i \in 1 .. r.entries |-> r.ring[(r.out + i - 1) % QueueSize]]

LEMMA QFields ==
    ASSUME NEW r \in QType
    PROVE  /\ r.ring \in [Slots -> Msg \cup {None}] /\ r.in \in Slots /\ r.out \in Slots
           /\ r.entries \in 0 .. QueueSize /\ r.waits \in BOOLEAN /\ r.stat \in {"ok", "to"}
           /\ r.dly \in Nat /\ r.handed \in Msg \cup {None}
           /\ QueueSize \in Nat \ {0} /\ Slots = 0 .. QueueSize - 1
BY QueueAssumption DEF QType, Slots

LEMMA NoMessage == None \notin Msg /\ Timeout \notin Msg /\ None # Timeout
BY QueueAssumption

LEMMA ItemsOK ==
    ASSUME NEW r, QOK(r)
    PROVE  /\ Items(r) \in Seq(Msg)
           /\ Len(Items(r)) = Count(r)
           /\ Count(r) \in Nat
           /\ \A i \in 1 .. Count(r) : Items(r)[i] = Item(r, i - 1)
           /\ ContentsOf(r) = Items(r)
<1>0. /\ r.entries \in 0 .. QueueSize /\ r.out \in Slots /\ r.handed \in Msg \cup {None}
      /\ QueueSize \in Nat \ {0} /\ Slots = 0 .. QueueSize - 1
  BY QFields DEF QOK
<1>1. \A i \in 0 .. r.entries - 1 : Slot(r, i) \in Msg
  BY DEF QOK
<1>2. Count(r) \in Nat
  BY <1>0 DEF Count
<1>3. \A i \in 1 .. Count(r) : Item(r, i - 1) \in Msg
  <2> TAKE i \in 1 .. Count(r)
  <2>1. CASE r.handed = None
    <3>1. i - 1 \in 0 .. r.entries - 1
      BY <1>0, <2>1 DEF Count
    <3> QED
      BY <1>1, <2>1, <3>1 DEF Item
  <2>2. CASE r.handed # None /\ i - 1 = 0
    BY <1>0, <2>2 DEF Item
  <2>3. CASE r.handed # None /\ i - 1 # 0
    <3>1. (i - 1) - 1 \in 0 .. r.entries - 1
      BY <1>0, <2>3 DEF Count
    <3> QED
      BY <1>1, <2>3, <3>1 DEF Item
  <2> QED
    BY <2>1, <2>2, <2>3
<1>4. Items(r) \in [1 .. Count(r) -> Msg]
  BY <1>3 DEF Items
<1>5. Items(r) \in Seq(Msg) /\ Len(Items(r)) = Count(r)
  BY <1>2, <1>4
<1>6. \A i \in 1 .. Count(r) : Items(r)[i] = Item(r, i - 1)
  BY DEF Items
<1>7. ContentsOf(r) = Items(r)
  <2> DEFINE w == [i \in 1 .. r.entries |-> r.ring[(r.out + i - 1) % QueueSize]]
  <2>1. w = [i \in 1 .. r.entries |-> Slot(r, i - 1)]
    <3>1. ASSUME NEW i \in 1 .. r.entries
          PROVE  (r.out + i - 1) % QueueSize = At(QueueSize, r.out, i - 1)
      <4>1. r.out + i - 1 = r.out + (i - 1)
        BY <1>0
      <4> QED
        BY <4>1 DEF At
    <3> QED
      BY <3>1 DEF Slot
  <2>2. \A i \in 1 .. r.entries : Slot(r, i - 1) \in Msg
    <3> TAKE i \in 1 .. r.entries
    <3>1. i - 1 \in 0 .. r.entries - 1
      BY <1>0
    <3> QED
      BY <1>1, <3>1
  <2>3. w \in [1 .. r.entries -> Msg]
    BY <2>1, <2>2
  <2>4. w \in Seq(Msg) /\ Len(w) = r.entries
    <3>1. r.entries \in Nat
      BY <1>0
    <3> HIDE DEF w
    <3> QED
      BY <2>3, <3>1
  <2>5. \A i \in 1 .. r.entries : w[i] = Slot(r, i - 1)
    BY <2>1
  <2> HIDE DEF w
  <2>6. CASE r.handed = None
    <3>1. ContentsOf(r) = <<>> \o w
      BY <2>6 DEF ContentsOf, w
    <3>2. <<>> \o w = w
      BY <2>4
    <3>3. Items(r) = [i \in 1 .. r.entries |-> Slot(r, i - 1)]
      BY <2>6 DEF Items, Item, Count
    <3> QED
      BY <2>1, <3>1, <3>2, <3>3 DEF w
  <2>7. CASE r.handed # None
    <3>0. r.handed \in Msg /\ Count(r) = r.entries + 1
      BY <1>0, <2>7 DEF Count
    <3>1. ContentsOf(r) = <<r.handed>> \o w
      BY <2>7 DEF ContentsOf, w
    <3> DEFINE c == <<r.handed>> \o w
    <3>2. c \in Seq(Msg) /\ Len(c) = r.entries + 1
      BY <1>0, <2>4, <3>0
    <3>3. c[1] = r.handed /\ \A i \in 1 .. r.entries + 1 : i # 1 => c[i] = w[i - 1]
      BY <1>0, <2>4, <3>0
    <3> HIDE DEF c
    <3>4. ASSUME NEW i \in 1 .. r.entries + 1
          PROVE  c[i] = Items(r)[i]
      <4>1. Items(r)[i] = Item(r, i - 1)
        BY <1>6, <3>0
      <4>2. CASE i = 1
        BY <2>7, <3>3, <4>1, <4>2 DEF Item
      <4>3. CASE i # 1
        <5>1. i - 1 \in 1 .. r.entries /\ i - 1 # 0
          BY <1>0, <4>3
        <5>2. c[i] = Slot(r, (i - 1) - 1)
          BY <2>5, <3>3, <4>3, <5>1
        <5> QED
          BY <2>7, <4>1, <5>1, <5>2 DEF Item
      <4> QED
        BY <4>2, <4>3
    <3>5. c = Items(r)
      BY <1>5, <3>0, <3>2, <3>4
    <3> QED
      BY <3>1, <3>5 DEF c
  <2> QED
    BY <2>6, <2>7
<1> QED
  BY <1>2, <1>5, <1>6, <1>7

(* A post adds one message at the end. *)
LEMMA PostOK ==
    ASSUME QOK(q), NEW m \in Msg, MboxValid, OSQPost(m)
    PROVE  /\ QOK(q')
           /\ Len(Items(q)) < QueueSize + 1
           /\ Items(q') = Append(Items(q), m)
           /\ ~q'.waits
           /\ q'.handed # None <=> q.waits \/ q.handed # None
           /\ q'.dly = 0
<1>0. /\ q \in QType
      /\ q.ring \in [Slots -> Msg \cup {None}] /\ q.in \in Slots /\ q.out \in Slots
      /\ q.entries \in 0 .. QueueSize /\ q.waits \in BOOLEAN /\ q.stat \in {"ok", "to"}
      /\ q.dly \in Nat /\ q.handed \in Msg \cup {None}
      /\ QueueSize \in Nat \ {0} /\ Slots = 0 .. QueueSize - 1
  BY QFields DEF QOK
<1>1. /\ q.in = At(QueueSize, q.out, q.entries)
      /\ \A i \in 0 .. q.entries - 1 : Slot(q, i) \in Msg
      /\ q.waits => q.entries = 0 /\ q.handed = None
      /\ q.stat = "to" => q.waits /\ q.dly = 0
      /\ ~q.waits => q.dly = 0
  BY DEF QOK
<1>2. Items(q) \in Seq(Msg) /\ Len(Items(q)) = Count(q) /\ Count(q) \in Nat
      /\ \A i \in 1 .. Count(q) : Items(q)[i] = Item(q, i - 1)
  BY ItemsOK
<1>3. q.entries < QueueSize
  BY <1>0 DEF MboxValid, Full
<1>4. Count(q) < QueueSize + 1
  BY <1>0, <1>3 DEF Count
<1>5. m # None
  BY NoMessage
<1>6. ASSUME QOK(q'), Count(q') = Count(q) + 1,
             \A i \in 0 .. Count(q) - 1 : Item(q', i) = Item(q, i),
             Item(q', Count(q)) = m
      PROVE  Items(q') = Append(Items(q), m)
  <2>1. Items(q') \in Seq(Msg) /\ Len(Items(q')) = Count(q) + 1
        /\ \A i \in 1 .. Count(q) + 1 : Items(q')[i] = Item(q', i - 1)
    BY <1>6, ItemsOK
  <2>2. ASSUME NEW i \in 1 .. Count(q) + 1
        PROVE  Items(q')[i] = IF i = Count(q) + 1 THEN m ELSE Items(q)[i]
    <3>1. CASE i = Count(q) + 1
      <4>1. i - 1 = Count(q)
        BY <1>2, <3>1
      <4> QED
        BY <1>6, <2>1, <3>1, <4>1
    <3>2. CASE i # Count(q) + 1
      <4>1. i \in 1 .. Count(q) /\ i - 1 \in 0 .. Count(q) - 1
        BY <1>2, <3>2
      <4> QED
        BY <1>2, <1>6, <2>1, <3>2, <4>1
    <3> QED
      BY <3>1, <3>2
  <2> DEFINE old == Items(q)
             new == Items(q')
  <2>3. old \in Seq(Msg) /\ Len(old) = Count(q) /\ new \in Seq(Msg) /\ Len(new) = Count(q) + 1
        /\ \A i \in 1 .. Count(q) + 1 : new[i] = IF i = Count(q) + 1 THEN m ELSE old[i]
    BY <1>2, <2>1, <2>2
  <2> HIDE DEF old, new
  <2>4. new = Append(old, m)
    BY <1>2, <2>3
  <2> QED
    BY <2>4 DEF old, new
<1>7. CASE q.waits
  <2>1. q' = [q EXCEPT !.waits = FALSE, !.dly = 0, !.stat = "ok", !.handed = m]
    BY <1>7 DEF OSQPost, EventTaskRdy
  <2>2. /\ q' \in QType
        /\ q'.ring = q.ring /\ q'.in = q.in /\ q'.out = q.out /\ q'.entries = q.entries
        /\ q'.waits = FALSE /\ q'.dly = 0 /\ q'.stat = "ok" /\ q'.handed = m
    BY <1>0, <2>1 DEF QType
  <2>3. \A i : Slot(q', i) = Slot(q, i)
    BY <2>2 DEF Slot
  <2>4. QOK(q')
    BY <1>1, <2>2, <2>3 DEF QOK
  <2>5. Count(q) = 0 /\ Count(q') = 1
    BY <1>0, <1>1, <1>5, <1>7, <2>2 DEF Count
  <2>6. Item(q', 0) = m
    BY <1>5, <2>2 DEF Item
  <2>7. Items(q') = Append(Items(q), m)
    BY <1>6, <2>4, <2>5, <2>6
  <2> QED
    BY <1>2, <1>4, <1>5, <1>7, <2>2, <2>4, <2>7
<1>8. CASE ~q.waits
  <2>1. q' = [q EXCEPT !.ring[q.in] = m, !.in = After(@), !.entries = @ + 1]
    BY <1>8 DEF OSQPost, MboxValid, Insert
  <2>2. /\ q'.ring = [q.ring EXCEPT ![q.in] = m] /\ q'.in = At(QueueSize, q.in, 1) /\ q'.out = q.out
        /\ q'.entries = q.entries + 1
        /\ q'.waits = q.waits /\ q'.dly = q.dly /\ q'.stat = q.stat /\ q'.handed = q.handed
    BY <1>0, <2>1 DEF QType, After, At
  <2>3. q.entries \in 0 .. QueueSize - 1 /\ 1 \in 0 .. QueueSize /\ q.entries + 1 \in 0 .. QueueSize
    BY <1>0, <1>3
  <2>4. At(QueueSize, q.in, 1) = At(QueueSize, q.out, q.entries + 1) /\ At(QueueSize, q.in, 1) \in Slots
    <3>1. q.out \in 0 .. QueueSize - 1 /\ q.in \in 0 .. QueueSize - 1
      BY <1>0
    <3>2. At(QueueSize, At(QueueSize, q.out, q.entries), 1) = At(QueueSize, q.out, q.entries + 1)
      BY <1>0, <2>3, <3>1, AtNext
    <3>3. At(QueueSize, q.in, 1) \in 0 .. QueueSize - 1
      BY <1>0, <2>3, <3>1, AtSlot
    <3> QED
      BY <1>0, <1>1, <3>2, <3>3
  <2>5. q' \in QType
    <3>1. q'.ring \in [Slots -> Msg \cup {None}] /\ q'.entries \in 0 .. QueueSize
          /\ q'.in \in Slots
      BY <1>0, <2>2, <2>3, <2>4
    <3>2. q' = [q EXCEPT !.ring = q'.ring, !.in = q'.in, !.entries = q'.entries]
      BY <1>0, <2>1, <2>2 DEF QType
    <3> QED
      BY <1>0, <3>1, <3>2 DEF QType
  <2>6. \A i \in 0 .. q.entries - 1 : Slot(q', i) = Slot(q, i)
    <3> TAKE i \in 0 .. q.entries - 1
    <3>1. i \in 0 .. QueueSize - 1 /\ i # q.entries /\ i \in 0 .. QueueSize
      BY <1>0, <2>3
    <3>2. At(QueueSize, q.out, i) # q.in /\ At(QueueSize, q.out, i) \in Slots
      <4>1. q.out \in 0 .. QueueSize - 1
        BY <1>0
      <4>2. At(QueueSize, q.out, i) \in 0 .. QueueSize - 1
        BY <1>0, <3>1, <4>1, AtSlot
      <4>3. At(QueueSize, q.out, i) # At(QueueSize, q.out, q.entries)
        BY <1>0, <2>3, <3>1, <4>1, AtOnce
      <4> QED
        BY <1>0, <1>1, <4>2, <4>3
    <3> QED
      BY <1>0, <2>2, <3>2 DEF Slot
  <2>7. Slot(q', q.entries) = m
    BY <1>0, <1>1, <2>2 DEF Slot
  <2>8. \A i \in 0 .. q'.entries - 1 : Slot(q', i) \in Msg
    <3> TAKE i \in 0 .. q'.entries - 1
    <3>1. i = q.entries \/ i \in 0 .. q.entries - 1
      BY <1>0, <2>2
    <3> QED
      BY <1>1, <2>6, <2>7, <3>1
  <2>9. QOK(q')
    BY <1>1, <1>8, <2>2, <2>4, <2>5, <2>8 DEF QOK
  <2>10. Count(q') = Count(q) + 1
    BY <1>0, <2>2 DEF Count
  <2>11. \A i \in 0 .. Count(q) - 1 : Item(q', i) = Item(q, i)
    <3> TAKE i \in 0 .. Count(q) - 1
    <3>1. CASE q.handed = None
      <4>1. i \in 0 .. q.entries - 1
        BY <3>1 DEF Count
      <4> QED
        BY <2>2, <2>6, <3>1, <4>1 DEF Item
    <3>2. CASE q.handed # None /\ i = 0
      BY <2>2, <3>2 DEF Item
    <3>3. CASE q.handed # None /\ i # 0
      <4>1. i - 1 \in 0 .. q.entries - 1
        BY <1>0, <3>3 DEF Count
      <4> QED
        BY <2>2, <2>6, <3>3, <4>1 DEF Item
    <3> QED
      BY <3>1, <3>2, <3>3
  <2>12. Item(q', Count(q)) = m
    <3>1. CASE q.handed = None
      BY <2>2, <2>7, <3>1 DEF Item, Count
    <3>2. CASE q.handed # None
      <4>1. Count(q) = q.entries + 1 /\ Count(q) # 0 /\ Count(q) - 1 = q.entries
        BY <1>0, <3>2 DEF Count
      <4> QED
        BY <2>2, <2>7, <3>2, <4>1 DEF Item
    <3> QED
      BY <3>1, <3>2
  <2>13. Items(q') = Append(Items(q), m)
    BY <1>6, <2>9, <2>10, <2>11, <2>12
  <2> QED
    BY <1>1, <1>2, <1>4, <1>8, <2>2, <2>9, <2>13
<1> QED
  BY <1>7, <1>8

(* A fetch takes the first message: from the ring, or what the task was handed. *)
LEMMA FirstTaken ==
    ASSUME NEW r, NEW s, QOK(r), QOK(s), Count(r) = Count(s) + 1,
           \A i \in 0 .. Count(s) - 1 : Item(s, i) = Item(r, i + 1)
    PROVE  /\ Items(r) # <<>>
           /\ Head(Items(r)) = Item(r, 0)
           /\ Items(s) = Tail(Items(r))
<1> DEFINE old == Items(r)
           new == Items(s)
           n == Count(s)
<1>1. old \in Seq(Msg) /\ Len(old) = n + 1 /\ n \in Nat
      /\ \A i \in 1 .. n + 1 : old[i] = Item(r, i - 1)
  BY ItemsOK
<1>2. new \in Seq(Msg) /\ Len(new) = n
      /\ \A i \in 1 .. n : new[i] = Item(s, i - 1)
  BY ItemsOK
<1> HIDE DEF old, new, n
<1>3. \A i \in 1 .. n : new[i] = old[i + 1]
  <2> TAKE i \in 1 .. n
  <2>1. i - 1 \in 0 .. n - 1 /\ (i - 1) + 1 = i /\ i + 1 \in 1 .. n + 1 /\ (i + 1) - 1 = i
    BY <1>1
  <2>2. Item(s, i - 1) = Item(r, (i - 1) + 1)
    BY <2>1 DEF n
  <2>3. new[i] = Item(s, i - 1) /\ old[i + 1] = Item(r, (i + 1) - 1)
    BY <1>1, <1>2, <2>1
  <2> QED
    BY <2>1, <2>2, <2>3
<1>4. old # <<>> /\ Head(old) = Item(r, 0)
  <2>1. 1 \in 1 .. n + 1 /\ 1 - 1 = 0
    BY <1>1
  <2>2. old[1] = Item(r, 1 - 1)
    BY <1>1, <2>1
  <2> QED
    BY <1>1, <2>1, <2>2
<1>5. new = Tail(old)
  BY <1>1, <1>2, <1>3, <1>4
<1> QED
  BY <1>4, <1>5 DEF old, new

LEMMA TakeOK ==
    ASSUME QOK(q), q.handed = None, ~q.waits, q.entries > 0, q' = Extracted
    PROVE  /\ QOK(q')
           /\ Items(q) # <<>>
           /\ q.ring[q.out] = Head(Items(q))
           /\ Items(q') = Tail(Items(q))
           /\ q'.handed = None /\ ~q'.waits
<1>0. /\ q \in QType
      /\ q.ring \in [Slots -> Msg \cup {None}] /\ q.in \in Slots /\ q.out \in Slots
      /\ q.entries \in 0 .. QueueSize /\ q.waits \in BOOLEAN /\ q.stat \in {"ok", "to"}
      /\ q.dly \in Nat /\ q.handed \in Msg \cup {None}
      /\ QueueSize \in Nat \ {0} /\ Slots = 0 .. QueueSize - 1
      /\ q.out \in 0 .. QueueSize - 1
  BY QFields DEF QOK
<1>1. /\ q.in = At(QueueSize, q.out, q.entries)
      /\ \A i \in 0 .. q.entries - 1 : Slot(q, i) \in Msg
      /\ q.stat = "to" => q.waits /\ q.dly = 0
      /\ q.dly = 0
  BY DEF QOK
<1>2. q' = [q EXCEPT !.ring[q.out] = None, !.out = After(@), !.entries = @ - 1]
  BY DEF Extracted
<1>3. /\ q'.ring = [q.ring EXCEPT ![q.out] = None] /\ q'.in = q.in /\ q'.out = At(QueueSize, q.out, 1)
      /\ q'.entries = q.entries - 1
      /\ q'.waits = q.waits /\ q'.dly = q.dly /\ q'.stat = q.stat /\ q'.handed = q.handed
  BY <1>0, <1>2 DEF QType, After, At
<1>4. q'.out \in Slots
  <2>1. 1 \in 0 .. QueueSize
    BY <1>0
  <2>2. At(QueueSize, q.out, 1) \in 0 .. QueueSize - 1
    BY <1>0, <2>1, AtSlot
  <2> QED
    BY <1>0, <1>3, <2>2
<1>5. q' \in QType
  <2>1. q'.ring \in [Slots -> Msg \cup {None}] /\ q'.entries \in 0 .. QueueSize
    BY <1>0, <1>3
  <2>2. q' = [q EXCEPT !.ring = q'.ring, !.out = q'.out, !.entries = q'.entries]
    BY <1>0, <1>2, <1>3 DEF QType
  <2> QED
    BY <1>0, <1>4, <2>1, <2>2 DEF QType
<1>6. q'.in = At(QueueSize, q'.out, q'.entries)
  <2>1. q.entries - 1 \in 0 .. QueueSize - 1 /\ (q.entries - 1) + 1 = q.entries
    BY <1>0
  <2>2. At(QueueSize, At(QueueSize, q.out, 1), q.entries - 1) = At(QueueSize, q.out, (q.entries - 1) + 1)
    BY <1>0, <2>1, AtNext
  <2> QED
    BY <1>1, <1>3, <2>1, <2>2
<1>7. \A i \in 0 .. q'.entries - 1 : Slot(q', i) = Slot(q, i + 1) /\ i + 1 \in 0 .. q.entries - 1
  <2> TAKE i \in 0 .. q'.entries - 1
  <2>1. i \in 0 .. QueueSize - 1 /\ i + 1 \in 0 .. QueueSize - 1 /\ 0 \in 0 .. QueueSize - 1 /\ i + 1 # 0
        /\ i + 1 \in 0 .. q.entries - 1 /\ i + 1 \in 0 .. QueueSize
    BY <1>0, <1>3
  <2>2. At(QueueSize, q'.out, i) = At(QueueSize, q.out, i + 1)
    BY <1>0, <1>3, <2>1, AtNext
  <2>3. At(QueueSize, q.out, i + 1) # At(QueueSize, q.out, 0)
    BY <1>0, <2>1, AtOnce
  <2>4. At(QueueSize, q.out, 0) = q.out
    BY <1>0, AtEnds
  <2>5. q'.ring[At(QueueSize, q.out, i + 1)] = q.ring[At(QueueSize, q.out, i + 1)]
    BY <1>0, <1>3, <2>3, <2>4
  <2> QED
    BY <2>1, <2>2, <2>5 DEF Slot
<1>8. \A i \in 0 .. q'.entries - 1 : Slot(q', i) \in Msg
  BY <1>1, <1>7
<1>9. QOK(q')
  BY <1>1, <1>3, <1>5, <1>6, <1>8 DEF QOK
<1>10. Count(q) = Count(q') + 1
  BY <1>0, <1>3 DEF Count
<1>11. \A i \in 0 .. Count(q') - 1 : Item(q', i) = Item(q, i + 1)
  BY <1>3, <1>7 DEF Item, Count
<1>12. q.ring[q.out] = Item(q, 0)
  <2>1. At(QueueSize, q.out, 0) = q.out
    BY <1>0, AtEnds
  <2> QED
    BY <2>1 DEF Item, Slot
<1> QED
  BY <1>3, <1>9, <1>10, <1>11, <1>12, FirstTaken

LEMMA PendedOK ==
    ASSUME QOK(q), q.handed # None, OSQPended
    PROVE  /\ QOK(q')
           /\ Items(q) # <<>>
           /\ got' = Head(Items(q)) /\ got' \in Msg
           /\ Items(q') = Tail(Items(q))
           /\ q'.handed = None /\ ~q'.waits
<1>0. /\ q \in QType
      /\ q.entries \in 0 .. QueueSize /\ q.waits \in BOOLEAN /\ q.stat \in {"ok", "to"}
      /\ q.handed \in Msg \cup {None} /\ QueueSize \in Nat \ {0}
  BY QFields DEF QOK
<1>1. /\ q.in = At(QueueSize, q.out, q.entries)
      /\ \A i \in 0 .. q.entries - 1 : Slot(q, i) \in Msg
      /\ ~q.waits /\ q.stat = "ok" /\ q.dly = 0
  BY <1>0 DEF QOK
<1>2. q' = [q EXCEPT !.waits = FALSE, !.stat = "ok", !.handed = None] /\ got' = q.handed
  BY <1>1 DEF OSQPended
<1>3. /\ q' \in QType
      /\ q'.ring = q.ring /\ q'.in = q.in /\ q'.out = q.out /\ q'.entries = q.entries
      /\ q'.waits = FALSE /\ q'.dly = q.dly /\ q'.stat = "ok" /\ q'.handed = None
  BY <1>0, <1>2 DEF QType
<1>4. \A i : Slot(q', i) = Slot(q, i)
  BY <1>3 DEF Slot
<1>5. QOK(q')
  BY <1>1, <1>3, <1>4 DEF QOK
<1>6. Count(q) = Count(q') + 1
  BY <1>0, <1>3 DEF Count
<1>7. \A i \in 0 .. Count(q') - 1 : Item(q', i) = Item(q, i + 1)
  <2> TAKE i \in 0 .. Count(q') - 1
  <2>1. i + 1 # 0 /\ (i + 1) - 1 = i
    OBVIOUS
  <2> QED
    BY <1>3, <1>4, <2>1 DEF Item
<1>8. got' = Item(q, 0) /\ got' \in Msg
  BY <1>0, <1>2 DEF Item
<1> QED
  BY <1>3, <1>5, <1>6, <1>7, <1>8, FirstTaken

(* The task begins to wait, a tick passes, and the task sees that its time is over. *)
LEMMA SameItems ==
    ASSUME NEW r, NEW s, r.ring = s.ring, r.out = s.out, r.entries = s.entries, r.handed = s.handed
    PROVE  Items(r) = Items(s) /\ \A i : Slot(r, i) = Slot(s, i)
<1>1. Count(r) = Count(s) /\ \A i : Slot(r, i) = Slot(s, i) /\ Item(r, i) = Item(s, i)
  BY DEF Count, Slot, Item
<1> QED
  BY <1>1 DEF Items

LEMMA WaitOK ==
    ASSUME QOK(q), q.handed = None, ~(q.entries > 0), NEW t \in Nat, q' = EventTaskWait(t)
    PROVE  QOK(q') /\ Items(q') = Items(q) /\ q'.waits /\ q'.dly = t
<1>0. q \in QType /\ q.entries = 0
  BY QFields DEF QOK
<1>1. /\ q' \in QType
      /\ q'.ring = q.ring /\ q'.in = q.in /\ q'.out = q.out /\ q'.entries = q.entries
      /\ q'.waits = TRUE /\ q'.dly = t /\ q'.stat = "ok" /\ q'.handed = q.handed
  BY <1>0 DEF QType, EventTaskWait
<1>2. Items(q') = Items(q) /\ \A i : Slot(q', i) = Slot(q, i)
  BY <1>1, SameItems
<1> QED
  BY <1>0, <1>1, <1>2 DEF QOK

LEMMA ExpiredOK ==
    ASSUME QOK(q), q.handed = None, q.waits, OSQPended
    PROVE  /\ QOK(q') /\ Items(q') = Items(q) /\ Items(q) = <<>>
           /\ ~q'.waits /\ q'.handed = None /\ got' = Timeout
           /\ q.dly = 0
<1>0. q \in QType /\ q.stat = "to" /\ q.entries = 0 /\ q.dly = 0
  BY QFields DEF QOK, OSQPended, Ready
<1>1. /\ q' \in QType
      /\ q'.ring = q.ring /\ q'.in = q.in /\ q'.out = q.out /\ q'.entries = q.entries
      /\ q'.waits = FALSE /\ q'.dly = q.dly /\ q'.stat = "ok" /\ q'.handed = q.handed
  BY <1>0 DEF QType, OSQPended
<1>2. Items(q') = Items(q) /\ \A i : Slot(q', i) = Slot(q, i)
  BY <1>1, SameItems
<1>3. got' = Timeout
  BY <1>0 DEF OSQPended
<1>4. Items(q) = <<>>
  BY <1>0, ItemsOK DEF Count
<1> QED
  BY <1>0, <1>1, <1>2, <1>3, <1>4 DEF QOK

LEMMA TickOK ==
    ASSUME QOK(q), OSTimeTick
    PROVE  /\ QOK(q') /\ Items(q') = Items(q)
           /\ q'.waits = q.waits /\ q'.handed = q.handed
           /\ q'.dly = q.dly \/ q'.dly = q.dly - 1
<1>0. q \in QType /\ q.dly \in Nat /\ q.stat \in {"ok", "to"}
  BY QFields DEF QOK
<1>1. CASE q.dly = 0
  BY <1>1 DEF OSTimeTick
<1>2. CASE q.dly # 0
  <2>1. q' = [q EXCEPT !.dly = @ - 1, !.stat = IF q.dly = 1 THEN "to" ELSE @]
    BY <1>2 DEF OSTimeTick
  <2>2. q.dly - 1 \in Nat /\ (IF q.dly = 1 THEN "to" ELSE q.stat) \in {"ok", "to"}
    BY <1>0, <1>2
  <2>3. /\ q' \in QType
        /\ q'.ring = q.ring /\ q'.in = q.in /\ q'.out = q.out /\ q'.entries = q.entries
        /\ q'.waits = q.waits /\ q'.dly = q.dly - 1 /\ q'.handed = q.handed
        /\ q'.stat = IF q.dly = 1 THEN "to" ELSE q.stat
    BY <1>0, <2>1, <2>2 DEF QType
  <2>4. Items(q') = Items(q) /\ \A i : Slot(q', i) = Slot(q, i)
    BY <2>3, SameItems
  <2>5. q'.stat = "to" => q'.waits /\ q'.dly = 0
    BY <1>0, <1>2, <2>3 DEF QOK
  <2>6. q.waits
    BY <1>2 DEF QOK
  <2> QED
    BY <2>3, <2>4, <2>5, <2>6 DEF QOK
<1> QED
  BY <1>1, <1>2

-----------------------------------------------------------------------------
(* The queue and the thread that reads it.                                   *)

(* The thread is in OSQPend exactly when it waits or has been handed a message it has
   not seen; it has a message in hand while it deals with one. *)
QueueInv ==
    /\ QOK(q)
    /\ pc \in {"fetch", "pend", "wait", "message", "timer", "output", "poll"}
    /\ pc = "wait" <=> q.waits \/ q.handed # None
    /\ pc = "message" => got \in Msg
    /\ pc = "timer" => got \in {None, Timeout}
    /\ pc \notin {"message", "timer"} => got = None
    /\ free \subseteq Inpkt

(* A step as the mailbox sees it. *)
BoxStep ==
    \/ \E m \in Msg : Len(Items(q)) < QueueSize + 1 /\ Items(q') = Append(Items(q), m) /\ got' = got
    \/ got = None /\ Items(q) # <<>> /\ got' = Head(Items(q)) /\ Items(q') = Tail(Items(q))
    \/ got = None /\ Items(q) = <<>> /\ got' = Timeout /\ Items(q') = Items(q)
    \/ got # None /\ got' = None /\ Items(q') = Items(q)
    \/ Items(q') = Items(q) /\ got' = got

TimersThere == Listed(timers) /\ timers # <<>>

LEMMA HeadThere ==
    ASSUME TimersThere
    PROVE  /\ Head(timers) = timers[1]
           /\ 1 \in DOMAIN timers
           /\ timers[1].h \in Timers
           /\ timers[1].time \in Nat
<1>1. timers \in Seq(Entry) /\ timers # <<>>
  BY DEF TimersThere, Listed
<1>2. Head(timers) = timers[1] /\ 1 \in DOMAIN timers /\ timers[1] \in Entry
  BY <1>1
<1> QED
  BY <1>2 DEF Entry

(* What the interrupt handler does to the mailbox: nothing, or a post of a message from
   the pool. *)
LEMMA IrqTakes ==
    ASSUME IrqTake
    PROVE  /\ UNCHANGED <<got, pc, kept, server, timers, due, waited>>
           /\ \/ UNCHANGED <<q, free, pbufs>>
              \/ \E m \in free : /\ MboxValid /\ OSQPost(m)
                                 /\ free' = free \ {m} /\ pbufs' = pbufs - 1 /\ pbufs # 0
<1>1. UNCHANGED <<got, pc, kept, server, timers, due, waited>>
  BY DEF IrqTake, timerVars
<1>2. CASE pbufs = 0
  BY <1>1, <1>2 DEF IrqTake
<1>3. CASE pbufs # 0
  <2>1. TcpipInput
    BY <1>3 DEF IrqTake
  <2>2. CASE MboxValid /\ free # {}
    <3> DEFINE m == CHOOSE x \in free : TRUE
    <3>1. m \in free
      BY <2>2
    <3>2. OSQPost(m) /\ free' = free \ {m} /\ pbufs' = pbufs - 1
      BY <2>1, <2>2 DEF TcpipInput
    <3> HIDE DEF m
    <3> QED
      BY <1>1, <1>3, <2>2, <3>1, <3>2
  <2>3. CASE ~(MboxValid /\ free # {})
    BY <1>1, <2>1, <2>3 DEF TcpipInput
  <2> QED
    BY <2>2, <2>3
<1> QED
  BY <1>2, <1>3

LEMMA QueueInit0 == Init => QueueInv /\ Items(q) = <<>> /\ got = None
<1> SUFFICES ASSUME Init PROVE QueueInv /\ Items(q) = <<>> /\ got = None
  OBVIOUS
<1>0. QueueSize \in Nat \ {0} /\ 0 \in Slots /\ Slots = 0 .. QueueSize - 1 /\ 0 \in 0 .. QueueSize - 1
  BY QueueAssumption DEF Slots
<1>1. /\ q.ring = [i \in Slots |-> None] /\ q.in = 0 /\ q.out = 0 /\ q.entries = 0
      /\ q.waits = FALSE /\ q.stat = "ok" /\ q.dly = 0 /\ q.handed = None
      /\ got = None /\ pc = "fetch" /\ free = Inpkt
  BY DEF Init, QueueInit
<1>2. q \in QType
  BY <1>0 DEF Init, QueueInit, QType
<1>3. At(QueueSize, 0, 0) = 0
  BY <1>0, AtEnds
<1>4. \A i \in 0 .. q.entries - 1 : FALSE
  BY <1>1
<1>5. QOK(q)
  BY <1>1, <1>2, <1>3, <1>4 DEF QOK
<1>6. Items(q) = <<>>
  BY <1>1, <1>5, ItemsOK DEF Count
<1> QED
  BY <1>1, <1>5, <1>6 DEF QueueInv

LEMMA QueueNext == QueueInv /\ TimersThere /\ [Next]_vars => QueueInv' /\ BoxStep
<1> SUFFICES ASSUME QueueInv, TimersThere, [Next]_vars PROVE QueueInv' /\ BoxStep
  OBVIOUS
<1>0. /\ QOK(q)
      /\ None \notin Msg /\ Timeout \notin Msg /\ None # Timeout
      /\ Msg = Inpkt \cup {Api}
      /\ q.waits => q.handed = None
      /\ q.waits \in BOOLEAN
      /\ timers[1].time \in Nat /\ Head(timers) = timers[1]
  BY NoMessage, PathAssumption, HeadThere, QFields DEF QueueInv, QOK
(* Where the queue and the thread are left alone. *)
<1>1. ASSUME UNCHANGED <<q, got, pc, free>> PROVE QueueInv' /\ BoxStep
  BY <1>1 DEF QueueInv, BoxStep
(* Where the thread goes on with something else. *)
<1>2. ASSUME UNCHANGED <<q, got, free>>, pc # "wait",
             pc' \in {"fetch", "pend", "output", "poll"} \/ (pc' = "timer" /\ pc = "fetch"),
             pc \notin {"message", "timer"}
      PROVE  QueueInv' /\ BoxStep
  BY <1>2 DEF QueueInv, BoxStep
(* Where it has dealt with what it had in hand. *)
<1>3. ASSUME UNCHANGED q, pc \in {"message", "timer"}, Then, free' \subseteq Inpkt
      PROVE  QueueInv' /\ BoxStep
  BY <1>3 DEF QueueInv, BoxStep, Then
<1>4. CASE Arrive
  BY <1>4, <1>1 DEF Arrive, queueVars
<1>5. CASE Send
  BY <1>5, <1>1 DEF Send, queueVars, pathVars
<1>6. CASE IrqEnter
  BY <1>6, <1>1 DEF IrqEnter, queueVars
<1>7. CASE IrqTake
  <2>1. CASE UNCHANGED <<q, free, pbufs>>
    BY <1>1, <1>7, <2>1, IrqTakes
  <2>2. CASE ~UNCHANGED <<q, free, pbufs>>
    <3>1. PICK m \in free : MboxValid /\ OSQPost(m) /\ free' = free \ {m}
      BY <1>7, <2>2, IrqTakes
    <3>2. got' = got /\ pc' = pc
      BY <1>7, IrqTakes
    <3>3. m \in Msg
      BY <1>0 DEF QueueInv
    <3>4. /\ QOK(q') /\ Len(Items(q)) < QueueSize + 1 /\ Items(q') = Append(Items(q), m)
          /\ ~q'.waits /\ (q'.handed # None <=> q.waits \/ q.handed # None)
      BY <1>0, <3>1, <3>3, PostOK
    <3>5. QueueInv'
      BY <3>1, <3>2, <3>4 DEF QueueInv
    <3> QED
      BY <3>2, <3>3, <3>4, <3>5 DEF BoxStep
  <2> QED
    BY <2>1, <2>2
<1>8. CASE IrqDone
  BY <1>8, <1>1 DEF IrqDone, queueVars
<1>9. CASE IrqClear
  BY <1>9, <1>1 DEF IrqClear, queueVars
<1>10. CASE Poll
  <2>1. UNCHANGED <<q, got, free>> /\ pc = "poll" /\ pc' = "fetch"
    BY <1>10 DEF Poll, queueVars
  <2> QED
    BY <2>1 DEF QueueInv, BoxStep
<1>11. CASE Fetch
  BY <1>11, <1>2 DEF Fetch, queueVars
<1>12. CASE Pend
  <2>0. pc = "pend" /\ got = None /\ q.handed = None /\ ~q.waits /\ free' = free
        /\ OSQPend(timers[1].time) /\ (pc' = IF got' = None THEN "wait" ELSE "message")
    BY <1>0, <1>12 DEF Pend, QueueInv
  <2>1. CASE q.entries > 0
    <3>1. q' = Extracted /\ got' = q.ring[q.out]
      BY <2>0, <2>1 DEF OSQPend
    <3>2. /\ QOK(q') /\ Items(q) # <<>> /\ got' = Head(Items(q)) /\ Items(q') = Tail(Items(q))
          /\ q'.handed = None /\ ~q'.waits
      BY <1>0, <2>0, <2>1, <3>1, TakeOK
    <3>3. got' \in Msg
      BY <1>0, <3>2, ItemsOK
    <3>4. pc' = "message"
      BY <1>0, <2>0, <3>3
    <3> QED
      BY <1>0, <2>0, <3>2, <3>3, <3>4 DEF QueueInv, BoxStep
  <2>2. CASE ~(q.entries > 0)
    <3>1. q' = EventTaskWait(timers[1].time) /\ got' = None /\ pc' = "wait"
      BY <2>0, <2>2 DEF OSQPend
    <3>2. QOK(q') /\ Items(q') = Items(q) /\ q'.waits
      BY <1>0, <2>0, <2>2, <3>1, WaitOK
    <3> QED
      BY <2>0, <3>1, <3>2 DEF QueueInv, BoxStep
  <2> QED
    BY <2>1, <2>2
<1>13. CASE Pended
  <2>0. pc = "wait" /\ got = None /\ OSQPended /\ free' = free
        /\ (pc' = IF got' = Timeout THEN "timer" ELSE "message")
    BY <1>13 DEF Pended, QueueInv
  <2>1. CASE q.handed # None
    <3>1. /\ QOK(q') /\ Items(q) # <<>> /\ got' = Head(Items(q)) /\ got' \in Msg
          /\ Items(q') = Tail(Items(q)) /\ q'.handed = None /\ ~q'.waits
      BY <1>0, <2>0, <2>1, PendedOK
    <3>2. pc' = "message"
      BY <1>0, <2>0, <3>1
    <3> QED
      BY <2>0, <3>1, <3>2 DEF QueueInv, BoxStep
  <2>2. CASE q.handed = None
    <3>0. q.waits
      BY <2>0, <2>2 DEF QueueInv
    <3>1. /\ QOK(q') /\ Items(q') = Items(q) /\ Items(q) = <<>>
          /\ ~q'.waits /\ q'.handed = None /\ got' = Timeout
      BY <1>0, <2>0, <2>2, <3>0, ExpiredOK
    <3>2. pc' = "timer"
      BY <2>0, <3>1
    <3> QED
      BY <2>0, <3>1, <3>2 DEF QueueInv, BoxStep
  <2> QED
    BY <2>1, <2>2
<1>14. CASE Input
  <2>1. UNCHANGED q /\ pc = "message" /\ Then /\ got \in Inpkt /\ free' = free \cup {got}
    BY <1>14 DEF Input
  <2> QED
    BY <1>3, <2>1 DEF QueueInv
<1>15. CASE Call
  BY <1>15, <1>3 DEF Call, QueueInv
<1>16. CASE Timer
  BY <1>16, <1>3 DEF Timer, QueueInv
<1>17. CASE Output
  <2>1. UNCHANGED <<q, got, free>> /\ pc = "output" /\ pc' \in {"poll", "fetch"}
    BY <1>17 DEF Output, queueVars
  <2> QED
    BY <2>1 DEF QueueInv, BoxStep
<1>18. CASE ApiMsg
  <2>1. MboxValid /\ OSQPost(Api) /\ UNCHANGED <<got, pc, free>>
    BY <1>18 DEF ApiMsg
  <2>2. /\ QOK(q') /\ Len(Items(q)) < QueueSize + 1 /\ Items(q') = Append(Items(q), Api)
        /\ ~q'.waits /\ (q'.handed # None <=> q.waits \/ q.handed # None)
    BY <1>0, <2>1, PostOK
  <2> QED
    BY <1>0, <2>1, <2>2 DEF QueueInv, BoxStep
<1>19. CASE Release
  BY <1>19, <1>1 DEF Release, queueVars
<1>20. CASE Tick
  <2>1. OSTimeTick /\ UNCHANGED <<got, pc, free>>
    BY <1>20 DEF Tick
  <2>2. /\ QOK(q') /\ Items(q') = Items(q)
        /\ q'.waits = q.waits /\ q'.handed = q.handed
    BY <1>0, <2>1, TickOK
  <2> QED
    BY <2>1, <2>2 DEF QueueInv, BoxStep
<1>21. CASE UNCHANGED vars
  BY <1>21, <1>1 DEF vars, queueVars, pathVars
<1> QED
  BY <1>4, <1>5, <1>6, <1>7, <1>8, <1>9, <1>10, <1>11, <1>12, <1>13, <1>14,
     <1>15, <1>16, <1>17, <1>18, <1>19, <1>20, <1>21 DEF Next, Irq, Thread

-----------------------------------------------------------------------------
(* The timers.                                                               *)

(* What is left of every armed interval will be over when the list says so: counted
   from the time the thread read before it fetches, from the end of the wait while it
   waits, and from now on when a timer is about to be called. *)
TimersInv ==
    /\ TimersThere
    /\ \A h \in Permanent : Has(timers, h)
    /\ due \in [Timers -> Nat]
    /\ \A h \in Timers : due[h] <= Interval[h]
    /\ waited \in Nat
    /\ pc \notin {"pend", "wait"} => waited = 0
    /\ Covered(timers, due, waited)
    /\ q.waits => Covered(timers, due, timers[1].time - q.dly)
    /\ pc = "timer" => Covered(timers, due, timers[1].time)

LEMMA TimersInvInit == Init => TimersInv
<1> SUFFICES ASSUME Init PROVE TimersInv
  OBVIOUS
<1>1. TimersInit /\ pc = "fetch" /\ waited = 0 /\ ~q.waits
  BY DEF Init, QueueInit
<1> QED
  BY <1>1, TimersInitCovered DEF TimersInv, TimersThere

(* A handler is armed. *)
LEMMA Arming ==
    ASSUME NEW list, Listed(list), NEW h \in Timers, ~Has(list, h),
           due \in [Timers -> Nat], \A k \in Timers : due[k] <= Interval[k],
           Covered(list, due, 0),
           timers' = SysTimeout(list, h), due' = [due EXCEPT ![h] = Interval[h]]
    PROVE  /\ TimersThere'
           /\ \A k : Has(timers', k) <=> Has(list, k) \/ k = h
           /\ due' \in [Timers -> Nat]
           /\ \A k \in Timers : due'[k] <= Interval[k]
           /\ Covered(timers', due', 0)
<1>1. /\ Listed(timers') /\ timers' # <<>>
      /\ \A k : Has(timers', k) <=> Has(list, k) \/ k = h
      /\ Covered(timers', due', 0)
  BY SysTimeoutCovered
<1>2. \A k \in Timers : Interval[k] \in Nat
  BY TimersAssumption
<1>3. due' \in [Timers -> Nat] /\ \A k \in Timers : due'[k] <= Interval[k]
  BY <1>2
<1> QED
  BY <1>1, <1>3 DEF TimersThere

LEMMA TimersOnOK ==
    ASSUME TimersInv, pc = "message", TimersOn
    PROVE  /\ TimersThere'
           /\ \A h \in Permanent : Has(timers', h)
           /\ due' \in [Timers -> Nat]
           /\ \A h \in Timers : due'[h] <= Interval[h]
           /\ Covered(timers', due', 0)
<1>1. Covered(timers, due, 0) /\ Listed(timers)
  BY DEF TimersInv, TimersThere
<1>2. CASE UNCHANGED timerVars
  BY <1>1, <1>2 DEF TimersInv, TimersThere, timerVars
<1>3. CASE ~UNCHANGED timerVars
  <2>1. PICK h \in Timers : TimerNeeded(h)
    BY <1>3 DEF TimersOn
  <2>2. ~Has(timers, h) /\ timers' = SysTimeout(timers, h) /\ due' = [due EXCEPT ![h] = Interval[h]]
    BY <2>1 DEF TimerNeeded, Armed, Has
  <2> QED
    BY <1>1, <2>2, Arming DEF TimersInv
<1> QED
  BY <1>2, <1>3

LEMMA CallHandlerOK ==
    ASSUME TimersInv, pc = "timer", CallHandler
    PROVE  /\ TimersThere'
           /\ \A h \in Permanent : Has(timers', h)
           /\ due' \in [Timers -> Nat]
           /\ \A h \in Timers : due'[h] <= Interval[h]
           /\ Covered(timers', due', 0)
<1> DEFINE h == timers[1].h
           rest == Tail(timers)
<1>0. Listed(timers) /\ timers # <<>> /\ h \in Timers /\ Head(timers) = timers[1]
      /\ due \in [Timers -> Nat] /\ (\A k \in Timers : due[k] <= Interval[k])
      /\ \A k \in Permanent : Has(timers, k)
  BY HeadThere DEF TimersInv, TimersThere
<1>1. /\ Listed(rest)
      /\ \A k : Has(rest, k) <=> Has(timers, k) /\ k # h
      /\ Covered(rest, due, 0)
  BY <1>0, TailCovered DEF TimersInv
<1>2. \/ timers' = SysTimeout(rest, h) /\ due' = [due EXCEPT ![h] = Interval[h]]
      \/ h \notin Permanent /\ timers' = rest /\ due' = due
  BY <1>0 DEF CallHandler
<1> HIDE DEF h, rest
<1>3. CASE timers' = SysTimeout(rest, h) /\ due' = [due EXCEPT ![h] = Interval[h]]
  <2>1. /\ TimersThere'
        /\ \A k : Has(timers', k) <=> Has(rest, k) \/ k = h
        /\ due' \in [Timers -> Nat]
        /\ \A k \in Timers : due'[k] <= Interval[k]
        /\ Covered(timers', due', 0)
    BY <1>0, <1>1, <1>3, Arming
  <2> QED
    BY <1>0, <1>1, <2>1
<1>4. CASE h \notin Permanent /\ timers' = rest /\ due' = due
  <2>1. PICK k : k \in Permanent
    BY TimersAssumption
  <2>2. Has(rest, k)
    BY <1>0, <1>1, <1>4, <2>1
  <2>3. rest # <<>>
    BY <2>2 DEF Has
  <2>4. \A p \in Permanent : Has(rest, p)
    BY <1>0, <1>1, <1>4
  <2> QED
    BY <1>0, <1>1, <1>4, <2>3, <2>4 DEF TimersThere
<1> QED
  BY <1>2, <1>3, <1>4

LEMMA FetchedOK ==
    ASSUME TimersInv, MessageFetched(waited)
    PROVE  /\ TimersThere'
           /\ \A h \in Permanent : Has(timers', h)
           /\ due' \in [Timers -> Nat]
           /\ \A h \in Timers : due'[h] <= Interval[h]
           /\ Covered(timers', due', 0)
<1>0. /\ Listed(timers) /\ timers # <<>> /\ due \in [Timers -> Nat] /\ waited \in Nat
      /\ Covered(timers, due, waited) /\ \A h \in Timers : due[h] <= Interval[h]
      /\ \A h \in Permanent : Has(timers, h)
  BY DEF TimersInv, TimersThere
<1>1. /\ Listed(timers')
      /\ timers' # <<>>
      /\ \A k : Has(timers', k) <=> Has(timers, k)
      /\ Covered(timers', due', 0)
      /\ due' \in [Timers -> Nat]
      /\ \A h \in Timers : due'[h] <= due[h]
  BY <1>0, MessageFetchedCovered
<1>2. \A h \in Timers : due'[h] <= Interval[h]
  <2> TAKE h \in Timers
  <2>1. due[h] \in Nat /\ due'[h] \in Nat /\ Interval[h] \in Nat
    BY <1>0, <1>1, TimersAssumption
  <2> QED
    BY <1>0, <1>1, <2>1
<1> QED
  BY <1>0, <1>1, <1>2 DEF TimersThere

LEMMA TimersNext == QueueInv /\ TimersInv /\ [Next]_vars => TimersInv'
<1> SUFFICES ASSUME QueueInv, TimersInv, [Next]_vars PROVE TimersInv'
  OBVIOUS
<1>0. /\ QOK(q) /\ q.waits \in BOOLEAN /\ q.dly \in Nat /\ (q.waits => pc = "wait")
      /\ pc \in {"fetch", "pend", "wait", "message", "timer", "output", "poll"}
      /\ None \notin Msg /\ Timeout \notin Msg /\ None # Timeout
      /\ Head(timers) = timers[1] /\ timers[1].time \in Nat
      /\ Listed(timers) /\ timers # <<>> /\ due \in [Timers -> Nat] /\ waited \in Nat
      /\ Covered(timers, due, waited) /\ \A h \in Timers : due[h] <= Interval[h]
  BY NoMessage, HeadThere, QFields DEF QueueInv, QOK, TimersInv, TimersThere
<1>00. Covered(timers, due, 0)
  BY <1>0, CoveredLess
(* Where the timers are left alone, and the thread does not begin to wait. *)
<1>1. ASSUME UNCHANGED <<timers, due, waited, pc>>, ~q'.waits \/ q' = q
      PROVE  TimersInv'
  BY <1>1 DEF TimersInv, TimersThere
(* Where the thread has dealt with the timers. *)
<1>2. ASSUME TimersThere', \A h \in Permanent : Has(timers', h),
             due' \in [Timers -> Nat], \A h \in Timers : due'[h] <= Interval[h],
             Covered(timers', due', 0), waited' = 0, ~q'.waits,
             pc' \in {"message", "output", "fetch", "pend"}
      PROVE  TimersInv'
  BY <1>2 DEF TimersInv
<1>4. CASE Arrive
  BY <1>4, <1>1 DEF Arrive, queueVars, timerVars
<1>5. CASE Send
  BY <1>5, <1>1 DEF Send, queueVars, timerVars, pathVars
<1>6. CASE IrqEnter
  BY <1>6, <1>1 DEF IrqEnter, queueVars, timerVars
<1>7. CASE IrqTake
  <2>1. UNCHANGED <<timers, due, waited, pc>>
    BY <1>7, IrqTakes
  <2>2. q' = q \/ ~q'.waits
    <3>1. CASE UNCHANGED <<q, free, pbufs>>
      BY <3>1
    <3>2. CASE ~UNCHANGED <<q, free, pbufs>>
      <4>1. PICK m \in free : MboxValid /\ OSQPost(m)
        BY <1>7, <3>2, IrqTakes
      <4>2. m \in Msg
        BY PathAssumption DEF QueueInv
      <4> QED
        BY <1>0, <4>1, <4>2, PostOK
    <3> QED
      BY <3>1, <3>2
  <2> QED
    BY <1>1, <2>1, <2>2
<1>8. CASE IrqDone
  BY <1>8, <1>1 DEF IrqDone, queueVars, timerVars
<1>9. CASE IrqClear
  BY <1>9, <1>1 DEF IrqClear, queueVars, timerVars
<1>10. CASE Poll
  <2>1. UNCHANGED <<q, timers, due, waited>> /\ pc = "poll" /\ pc' = "fetch"
    BY <1>10 DEF Poll, queueVars, timerVars
  <2> QED
    BY <2>1 DEF TimersInv, TimersThere
<1>11. CASE Fetch
  <2>1. UNCHANGED <<q, timers, due, waited>> /\ pc = "fetch" /\ ~q.waits /\ waited = 0
        /\ (pc' = IF timers[1].time > 0 THEN "pend" ELSE "timer")
    BY <1>0, <1>11 DEF Fetch, queueVars, timerVars, TimersInv
  <2>2. CASE timers[1].time > 0
    BY <2>1, <2>2 DEF TimersInv, TimersThere
  <2>3. CASE ~(timers[1].time > 0)
    <3>1. timers[1].time = 0 /\ pc' = "timer"
      BY <1>0, <2>1, <2>3
    <3> QED
      BY <1>00, <2>1, <3>1 DEF TimersInv, TimersThere
  <2> QED
    BY <2>2, <2>3
<1>12. CASE Pend
  <2>0. /\ pc = "pend" /\ got = None /\ q.handed = None /\ ~q.waits
        /\ OSQPend(timers[1].time)
        /\ \/ got' = None /\ pc' = "wait" /\ UNCHANGED <<timers, due>>
           \/ got' # None /\ pc' = "message" /\ MessageFetched(waited)
        /\ waited' = IF pc' = "wait" THEN waited ELSE 0
    BY <1>0, <1>12 DEF Pend, QueueInv, timerVars
  <2>1. CASE q.entries > 0
    <3>1. q' = Extracted /\ got' = q.ring[q.out]
      BY <2>0, <2>1 DEF OSQPend
    <3>2. Items(q) # <<>> /\ got' = Head(Items(q)) /\ ~q'.waits
      BY <1>0, <2>0, <2>1, <3>1, TakeOK
    <3>3. got' \in Msg
      BY <1>0, <3>2, ItemsOK
    <3>4. pc' = "message" /\ MessageFetched(waited) /\ waited' = 0
      BY <1>0, <2>0, <3>3
    <3> QED
      BY <1>2, <3>2, <3>4, FetchedOK
  <2>2. CASE ~(q.entries > 0)
    <3>1. q' = EventTaskWait(timers[1].time) /\ got' = None
      BY <2>0, <2>2 DEF OSQPend
    <3>2. pc' = "wait" /\ UNCHANGED <<timers, due, waited>>
      BY <2>0, <3>1
    <3>3. q'.dly = timers[1].time
      BY <1>0, <2>0, <2>2, <3>1, WaitOK
    <3>4. timers'[1].time - q'.dly = 0
      BY <1>0, <3>2, <3>3
    <3> QED
      BY <1>00, <3>2, <3>4 DEF TimersInv, TimersThere
  <2> QED
    BY <2>1, <2>2
<1>13. CASE Pended
  <2>0. /\ pc = "wait" /\ OSQPended /\ waited' = 0
        /\ \/ got' = Timeout /\ pc' = "timer" /\ UNCHANGED <<timers, due>>
           \/ got' # Timeout /\ pc' = "message" /\ MessageFetched(waited)
    BY <1>13 DEF Pended, timerVars
  <2>1. CASE q.handed # None
    <3>1. got' \in Msg /\ ~q'.waits
      BY <1>0, <2>0, <2>1, PendedOK
    <3>2. pc' = "message" /\ MessageFetched(waited)
      BY <1>0, <2>0, <3>1
    <3> QED
      BY <1>2, <2>0, <3>1, <3>2, FetchedOK
  <2>2. CASE q.handed = None
    <3>0. q.waits
      BY <2>0, <2>2 DEF QueueInv
    <3>1. ~q'.waits /\ got' = Timeout /\ q.dly = 0
      BY <1>0, <2>0, <2>2, <3>0, ExpiredOK
    <3>2. pc' = "timer" /\ UNCHANGED <<timers, due>>
      BY <2>0, <3>1
    <3>3. timers[1].time - q.dly = timers[1].time
      BY <1>0, <3>1
    <3>4. Covered(timers, due, timers[1].time)
      BY <3>0, <3>3 DEF TimersInv
    <3> QED
      BY <1>00, <2>0, <3>1, <3>2, <3>4 DEF TimersInv, TimersThere
  <2> QED
    BY <2>1, <2>2
<1>14. CASE Input
  <2>1. q' = q /\ pc = "message" /\ TimersOn /\ waited' = waited /\ pc' \in {"output", "fetch"}
    BY <1>14 DEF Input, Then
  <2>2. waited' = 0 /\ ~q'.waits
    BY <1>0, <2>1 DEF TimersInv
  <2> QED
    BY <1>2, <2>1, <2>2, TimersOnOK
<1>15. CASE Call
  <2>1. q' = q /\ pc = "message" /\ TimersOn /\ waited' = waited /\ pc' \in {"output", "fetch"}
    BY <1>15 DEF Call, Then
  <2>2. waited' = 0 /\ ~q'.waits
    BY <1>0, <2>1 DEF TimersInv
  <2> QED
    BY <1>2, <2>1, <2>2, TimersOnOK
<1>16. CASE Timer
  <2>1. q' = q /\ pc = "timer" /\ CallHandler /\ waited' = waited /\ pc' \in {"output", "fetch"}
    BY <1>16 DEF Timer, Then
  <2>2. waited' = 0 /\ ~q'.waits
    BY <1>0, <2>1 DEF TimersInv
  <2> QED
    BY <1>2, <2>1, <2>2, CallHandlerOK
<1>17. CASE Output
  <2>1. UNCHANGED <<q, timers, due, waited>> /\ pc = "output" /\ pc' \in {"poll", "fetch"}
    BY <1>17 DEF Output, queueVars, timerVars
  <2> QED
    BY <2>1 DEF TimersInv, TimersThere
<1>18. CASE ApiMsg
  <2>1. MboxValid /\ OSQPost(Api) /\ UNCHANGED <<timers, due, waited, pc>>
    BY <1>18 DEF ApiMsg, timerVars
  <2>2. ~q'.waits
    BY <1>0, <2>1, PostOK, PathAssumption
  <2> QED
    BY <1>1, <2>1, <2>2
<1>19. CASE Release
  BY <1>19, <1>1 DEF Release, queueVars, timerVars
<1>20. CASE Tick
  <2>1. OSTimeTick /\ due' = Passed(1) /\ UNCHANGED <<timers, pc>>
        /\ waited' = IF pc \in {"pend", "wait"} THEN Saturated(waited + 1) ELSE waited
    BY <1>20 DEF Tick
  <2>2. /\ q'.waits = q.waits
        /\ q'.dly = q.dly \/ q'.dly = q.dly - 1
    BY <1>0, <2>1, TickOK
  <2>3. /\ due' \in [Timers -> Nat]
        /\ \A h \in Timers : due'[h] <= due[h]
        /\ Covered(timers, due', waited) /\ Covered(timers, due', waited + 1)
    BY <1>0, <2>1, PassedCovered
  <2>4. \A h \in Timers : due'[h] <= Interval[h]
    <3> TAKE h \in Timers
    <3>1. due[h] \in Nat /\ due'[h] \in Nat /\ Interval[h] \in Nat
      BY <1>0, <2>3, TimersAssumption
    <3> QED
      BY <1>0, <2>3, <3>1
  <2>5. waited' = waited \/ (waited' = waited + 1 /\ pc \in {"pend", "wait"})
    <3>1. Saturated(waited + 1) = waited \/ Saturated(waited + 1) = waited + 1
      BY <1>0 DEF Saturated
    <3> QED
      BY <2>1, <3>1
  <2>6. waited' \in Nat /\ Covered(timers', due', waited')
    BY <1>0, <2>1, <2>3, <2>5
  <2>7. q'.waits => Covered(timers', due', timers'[1].time - q'.dly)
    <3> SUFFICES ASSUME q.waits PROVE Covered(timers, due', timers[1].time - q'.dly)
      BY <2>1, <2>2
    <3> DEFINE s == timers[1].time - q.dly
    <3>1. s \in Int /\ Covered(timers, due, s)
      BY <1>0 DEF TimersInv
    <3>2. Covered(timers, due', s) /\ Covered(timers, due', s + 1)
      BY <1>0, <2>1, <3>1, PassedCovered
    <3>3. timers[1].time - q'.dly = s \/ timers[1].time - q'.dly = s + 1
      BY <1>0, <2>2
    <3> HIDE DEF s
    <3> QED
      BY <3>2, <3>3
  <2>8. pc' = "timer" => Covered(timers', due', timers'[1].time)
    <3> SUFFICES ASSUME pc = "timer" PROVE Covered(timers, due', timers[1].time)
      BY <2>1
    <3>1. timers[1].time \in Int /\ Covered(timers, due, timers[1].time)
      BY <1>0 DEF TimersInv
    <3> QED
      BY <1>0, <2>1, <3>1, PassedCovered
  <2>9. pc' \notin {"pend", "wait"} => waited' = 0
    BY <2>1, <2>5 DEF TimersInv
  <2> QED
    BY <2>1, <2>3, <2>4, <2>6, <2>7, <2>8, <2>9 DEF TimersInv, TimersThere
<1>21. CASE UNCHANGED vars
  BY <1>21, <1>1 DEF vars, queueVars, timerVars, pathVars
<1> QED
  BY <1>4, <1>5, <1>6, <1>7, <1>8, <1>9, <1>10, <1>11, <1>12, <1>13, <1>14,
     <1>15, <1>16, <1>17, <1>18, <1>19, <1>20, <1>21 DEF Next, Irq, Thread

-----------------------------------------------------------------------------
(* What the two invariants give.                                             *)

(* The queue and the timers of the thread stay as the two invariants say: the queue's
   steps need a first timer, and the timers' steps the state of the wait. *)
THEOREM PathInvariance == Spec => [](QueueInv /\ TimersInv)
<1>1. Init => QueueInv /\ TimersInv
  BY QueueInit0, TimersInvInit
<1>2. QueueInv /\ TimersInv /\ [Next]_vars => (QueueInv /\ TimersInv)'
  <2> SUFFICES ASSUME QueueInv, TimersInv, [Next]_vars PROVE QueueInv' /\ TimersInv'
    OBVIOUS
  <2> QED
    BY QueueNext, TimersNext DEF TimersInv
<1> QED
  BY <1>1, <1>2, PTL DEF Spec

(* When sys_timeouts_mbox_fetch is about to call a timer's handler, the timer's interval
   is over, whatever messages came in its course and however long the thread waited for
   them, but for the two known ways in which it counts a message as more than a tick. *)
THEOREM TimersNotEarly == Spec => []TimerNotEarly
<1>1. QueueInv /\ TimersInv => TimerNotEarly
  <2> SUFFICES ASSUME QueueInv, TimersInv, pc = "timer" PROVE due[Head(timers).h] = 0
    BY DEF TimerNotEarly
  <2>1. /\ timers \in Seq(Entry) /\ 1 \in DOMAIN timers /\ Head(timers) = timers[1]
        /\ timers[1].h \in Timers /\ timers[1].time \in Nat
    BY HeadThere DEF TimersInv, TimersThere, Listed
  <2>2. due[timers[1].h] \in Nat
    BY <2>1 DEF TimersInv
  <2>3. Expiry(timers)[1] = timers[1].time
    <3>1. Sums(timers, Expiry(timers))
      BY <2>1, ExpirySums
    <3>2. 1 \in 1 .. Len(timers)
      BY <2>1
    <3>3. Expiry(timers)[1] = Expiry(timers)[1 - 1] + timers[1].time /\ Expiry(timers)[0] = 0
      BY <3>1, <3>2 DEF Sums
    <3> QED
      BY <2>1, <3>3
  <2>4. due[timers[1].h] = 0 \/ due[timers[1].h] + timers[1].time <= timers[1].time
    BY <2>1, <2>3 DEF TimersInv, Covered
  <2> QED
    BY <2>1, <2>2, <2>4
<1> QED
  BY <1>1, PathInvariance, PTL

LEMMA BoxIsItems == QOK(q) => Contents = Items(q)
BY ItemsOK DEF Contents, ContentsOf

LEMMA BoxIsItemsNext == QOK(q') => Contents' = Items(q')
<1> SUFFICES ASSUME QOK(q') PROVE Contents' = Items(q')
  OBVIOUS
<1>1. ContentsOf(q') = Items(q')
  BY ItemsOK
<1> QED
  BY <1>1 DEF Contents, ContentsOf

(* The queue of uC/OS-II, with the wait of its reader and the tick that may end it,
   implements the mailbox lwIP expects: every step is a step of Mailbox or leaves the
   messages and the reader's hand as they are. *)
THEOREM QueueIsMailbox == Spec => Fifo
<1>1. Init => Abstract!Init
  <2> SUFFICES ASSUME Init PROVE Contents = <<>> /\ got = None
    BY DEF Abstract!Init
  <2> QED
    BY QueueInit0, BoxIsItems DEF QueueInv
<1>2. QueueInv /\ TimersInv /\ [Next]_vars => [Abstract!Next]_<<Contents, got>>
  <2> SUFFICES ASSUME QueueInv, TimersInv, [Next]_vars PROVE [Abstract!Next]_<<Contents, got>>
    OBVIOUS
  <2>1. QueueInv' /\ BoxStep
    BY QueueNext DEF TimersInv
  <2>2. Contents = Items(q) /\ Contents' = Items(q')
    BY <2>1, BoxIsItems, BoxIsItemsNext DEF QueueInv
  <2>3. CASE \E m \in Msg : /\ Len(Items(q)) < QueueSize + 1
                            /\ Items(q') = Append(Items(q), m) /\ got' = got
    <3>1. PICK m \in Msg : /\ Len(Items(q)) < QueueSize + 1
                           /\ Items(q') = Append(Items(q), m) /\ got' = got
      BY <2>3
    <3>2. Abstract!Put(m)
      BY <2>2, <3>1 DEF Abstract!Put
    <3> QED
      BY <3>2 DEF Abstract!Next
  <2>4. CASE got = None /\ Items(q) # <<>> /\ got' = Head(Items(q)) /\ Items(q') = Tail(Items(q))
    BY <2>2, <2>4 DEF Abstract!Next, Abstract!Get
  <2>5. CASE got = None /\ Items(q) = <<>> /\ got' = Timeout /\ Items(q') = Items(q)
    BY <2>2, <2>5 DEF Abstract!Next, Abstract!Expire
  <2>6. CASE got # None /\ got' = None /\ Items(q') = Items(q)
    BY <2>2, <2>6 DEF Abstract!Next, Abstract!Done
  <2>7. CASE Items(q') = Items(q) /\ got' = got
    BY <2>2, <2>7
  <2> QED
    BY <2>1, <2>3, <2>4, <2>5, <2>6, <2>7 DEF BoxStep
<1> QED
  BY <1>1, <1>2, PathInvariance, PTL DEF Spec, Fifo, Abstract!Fifo

-----------------------------------------------------------------------------
(* The pools.                                                                *)

Once(s) == \A i, j \in DOMAIN s : s[i] = s[j] => i = j

InHand == {got} \cap Msg
Used == Inpkt \ free
Called == IF server = "call" THEN {Api} ELSE {}

(* No message is in the mailbox twice or in the mailbox and the thread's hand; what is
   there is what has been taken from the pool, and a call that has not been carried out. *)
PoolsInv ==
    /\ server \in {"runs", "call", "waits"}
    /\ pbufs \in Nat /\ kept \in Nat
    /\ Once(Items(q))
    /\ Range(Items(q)) \cap InHand = {}
    /\ Range(Items(q)) \cup InHand = Used \cup Called
    /\ pbufs + kept + Cardinality(Used) = Pbufs

\* The answer to a call that has been carried out leaves the mailbox alone.
LEMMA AnswerKeepsCall ==
    ASSUME PoolsInv, MayAnswer
    PROVE  server' \in {"runs", "call", "waits"} /\ Called' = Called
BY DEF PoolsInv, MayAnswer, Called

LEMMA AppendOnce ==
    ASSUME NEW s \in Seq(Msg), NEW m \in Msg
    PROVE  /\ Range(Append(s, m)) = Range(s) \cup {m}
           /\ Once(s) /\ m \notin Range(s) => Once(Append(s, m))
<1> DEFINE n == Len(s)
           t == Append(s, m)
<1>1. /\ n \in Nat /\ DOMAIN s = 1 .. n /\ DOMAIN t = 1 .. n + 1
      /\ \A i \in 1 .. n : t[i] = s[i]
      /\ t[n + 1] = m
  OBVIOUS
<1> HIDE DEF n, t
<1>2. Range(t) = Range(s) \cup {m}
  <2>1. \A i \in 1 .. n + 1 : i \in 1 .. n \/ i = n + 1
    BY <1>1
  <2>2. \A i \in 1 .. n : i \in 1 .. n + 1
    BY <1>1
  <2>3. n + 1 \in 1 .. n + 1
    BY <1>1
  <2> QED
    BY <1>1, <2>1, <2>2, <2>3 DEF Range
<1>3. ASSUME Once(s), m \notin Range(s) PROVE Once(t)
  <2> SUFFICES ASSUME NEW i \in 1 .. n + 1, NEW j \in 1 .. n + 1, t[i] = t[j] PROVE i = j
    BY <1>1 DEF Once
  <2>1. \A k \in 1 .. n : s[k] # m
    BY <1>1, <1>3 DEF Range
  <2>2. CASE i \in 1 .. n /\ j \in 1 .. n
    BY <1>1, <1>3, <2>2 DEF Once
  <2>3. CASE i = n + 1 /\ j \in 1 .. n
    BY <1>1, <2>1, <2>3
  <2>4. CASE i \in 1 .. n /\ j = n + 1
    BY <1>1, <2>1, <2>4
  <2> QED
    BY <1>1, <2>2, <2>3, <2>4
<1> QED
  BY <1>2, <1>3 DEF t

LEMMA TailOnce ==
    ASSUME NEW s \in Seq(Msg), s # <<>>, Once(s)
    PROVE  /\ Head(s) \in Range(s)
           /\ Range(Tail(s)) = Range(s) \ {Head(s)}
           /\ Once(Tail(s))
<1> DEFINE n == Len(s)
           t == Tail(s)
<1>1. /\ n \in Nat /\ n # 0 /\ DOMAIN s = 1 .. n /\ DOMAIN t = 1 .. n - 1
      /\ \A i \in 1 .. n - 1 : t[i] = s[i + 1]
      /\ Head(s) = s[1]
  OBVIOUS
<1> HIDE DEF n, t
<1>2. Head(s) \in Range(s)
  <2>1. 1 \in 1 .. n
    BY <1>1
  <2> QED
    BY <1>1, <2>1 DEF Range
<1>3. \A i \in 1 .. n - 1 : i + 1 \in 1 .. n /\ i + 1 # 1
  BY <1>1
<1>4. Range(t) \subseteq Range(s) \ {Head(s)}
  <2> SUFFICES ASSUME NEW i \in 1 .. n - 1 PROVE t[i] \in Range(s) /\ t[i] # s[1]
    BY <1>1 DEF Range
  <2>1. i + 1 \in 1 .. n /\ i + 1 # 1 /\ 1 \in 1 .. n /\ t[i] = s[i + 1]
    BY <1>1, <1>3
  <2> QED
    BY <1>1, <2>1 DEF Range, Once
<1>5. Range(s) \ {Head(s)} \subseteq Range(t)
  <2> SUFFICES ASSUME NEW i \in 1 .. n, s[i] # s[1] PROVE s[i] \in Range(t)
    BY <1>1 DEF Range
  <2>1. i - 1 \in 1 .. n - 1 /\ (i - 1) + 1 = i
    BY <1>1
  <2>2. t[i - 1] = s[i]
    BY <1>1, <2>1
  <2> QED
    BY <1>1, <2>1, <2>2 DEF Range
<1>6. Once(t)
  <2> SUFFICES ASSUME NEW i \in 1 .. n - 1, NEW j \in 1 .. n - 1, t[i] = t[j] PROVE i = j
    BY <1>1 DEF Once
  <2>1. s[i + 1] = s[j + 1] /\ i + 1 \in DOMAIN s /\ j + 1 \in DOMAIN s
    BY <1>1, <1>3
  <2>2. i + 1 = j + 1
    BY <2>1, Zenon DEF Once
  <2>3. i \in Int /\ j \in Int
    BY <1>1
  <2> QED
    BY <2>2, <2>3
<1> QED
  BY <1>2, <1>4, <1>5, <1>6 DEF t

LEMMA OnceCounted ==
    ASSUME NEW S, NEW s \in Seq(S), Once(s)
    PROVE  Cardinality(Range(s)) = Len(s)
<1> DEFINE n == Len(s)
<1>1. n \in Nat /\ DOMAIN s = 1 .. n
  OBVIOUS
<1> HIDE DEF n
<1>2. IsFiniteSet(1 .. n) /\ Cardinality(1 .. n) = n
  <2>1. 1 \in Int /\ n \in Int
    BY <1>1
  <2>2. /\ IsFiniteSet(1 .. n)
        /\ Cardinality(1 .. n) = IF 1 > n THEN 0 ELSE n - 1 + 1
    BY <2>1, FS_Interval
  <2> QED
    BY <1>1, <2>2
<1>3. s \in Bijection(1 .. n, Range(s))
  BY <1>1 DEF Bijection, Injection, Surjection, IsInjective, Range, Once
<1>4. ExistsBijection(1 .. n, Range(s))
  BY <1>3 DEF ExistsBijection
<1> QED
  BY <1>2, <1>4, FS_Bijection DEF n

(* An element leaves the pool, and comes back. *)
LEMMA UsedGrows ==
    ASSUME free \subseteq Inpkt, NEW m \in free, free' = free \ {m}
    PROVE  /\ Used' = Used \cup {m} /\ m \notin Used
           /\ Cardinality(Used) \in Nat
           /\ Cardinality(Used') = Cardinality(Used) + 1
<1>1. IsFiniteSet(Used)
  BY PathAssumption, FS_Subset DEF Used
<1>2. Used' = Used \cup {m} /\ m \notin Used
  BY DEF Used
<1> QED
  BY <1>1, <1>2, FS_AddElement, FS_CardinalityType

LEMMA UsedShrinks ==
    ASSUME free \subseteq Inpkt, NEW m \in Inpkt \ free, free' = free \cup {m}
    PROVE  /\ Used' = Used \ {m} /\ m \in Used
           /\ Cardinality(Used) \in Nat
           /\ Cardinality(Used') = Cardinality(Used) - 1
<1>1. IsFiniteSet(Used)
  BY PathAssumption, FS_Subset DEF Used
<1>2. Used' = Used \ {m} /\ m \in Used
  BY DEF Used
<1>3. Cardinality(Used') = Cardinality(Used) - 1
  BY <1>1, <1>2, FS_RemoveElement
<1> QED
  BY <1>1, <1>2, <1>3, FS_CardinalityType

LEMMA PoolsInit == Init => PoolsInv
<1> SUFFICES ASSUME Init PROVE PoolsInv
  OBVIOUS
<1>1. /\ Items(q) = <<>> /\ got = None /\ server = "runs"
      /\ free = Inpkt /\ pbufs = Pbufs /\ kept = 0
  BY QueueInit0 DEF Init
<1>2. Range(Items(q)) = {} /\ Once(Items(q))
  BY <1>1 DEF Range, Once
<1>3. InHand = {} /\ Used = {} /\ Called = {}
  BY <1>1, NoMessage DEF InHand, Used, Called
<1>4. Cardinality(Used) = 0
  BY <1>3, FS_EmptySet
<1> QED
  BY <1>1, <1>2, <1>3, <1>4, PathAssumption DEF PoolsInv

(* A message is put into the mailbox: one from the pool, or the server's. *)
LEMMA Putting ==
    ASSUME PoolsInv, QOK(q), NEW m \in Msg, Items(q') = Append(Items(q), m), got' = got,
           m \notin Used \cup Called, Used' \cup Called' = Used \cup Called \cup {m}
    PROVE  /\ Once(Items(q'))
           /\ Range(Items(q')) \cap InHand' = {}
           /\ Range(Items(q')) \cup InHand' = Used' \cup Called'
<1>1. Items(q) \in Seq(Msg) /\ m \notin Range(Items(q)) /\ m \notin InHand /\ InHand' = InHand
  BY ItemsOK DEF PoolsInv, InHand
<1>2. Range(Items(q')) = Range(Items(q)) \cup {m} /\ Once(Items(q'))
  BY <1>1, AppendOnce DEF PoolsInv
<1> QED
  BY <1>1, <1>2 DEF PoolsInv

(* The thread takes a message into its hand. *)
LEMMA Taking ==
    ASSUME PoolsInv, QOK(q), got = None, Items(q) # <<>>, got' = Head(Items(q)),
           Items(q') = Tail(Items(q)), UNCHANGED <<free, server>>
    PROVE  /\ Once(Items(q'))
           /\ Range(Items(q')) \cap InHand' = {}
           /\ Range(Items(q')) \cup InHand' = Used' \cup Called'
<1>1. Items(q) \in Seq(Msg) /\ Head(Items(q)) \in Msg /\ InHand = {} /\ InHand' = {Head(Items(q))}
  BY ItemsOK, NoMessage DEF InHand
<1>2. /\ Head(Items(q)) \in Range(Items(q))
      /\ Range(Items(q')) = Range(Items(q)) \ {Head(Items(q))} /\ Once(Items(q'))
  BY <1>1, TailOnce DEF PoolsInv
<1>3. Used' = Used /\ Called' = Called
  BY DEF Used, Called
<1> QED
  BY <1>1, <1>2, <1>3 DEF PoolsInv

(* What a fetch does to the mailbox. *)
LEMMA FetchTakes ==
    ASSUME QueueInv, TimersThere, Pend \/ Pended
    PROVE  /\ got = None /\ UNCHANGED <<free, pbufs, kept, server>>
           /\ \/ Items(q) # <<>> /\ got' = Head(Items(q)) /\ Items(q') = Tail(Items(q))
              \/ got' \in {None, Timeout} /\ Items(q') = Items(q)
<1>0. /\ QOK(q) /\ (q.waits => q.handed = None) /\ got = None
      /\ timers[1].time \in Nat /\ Head(timers) = timers[1]
  BY HeadThere DEF QueueInv, QOK, Pend, Pended
<1>1. UNCHANGED <<free, pbufs, kept, server>>
  BY DEF Pend, Pended
<1>2. CASE Pend
  <2>0. q.handed = None /\ ~q.waits /\ OSQPend(timers[1].time)
    BY <1>0, <1>2 DEF Pend, QueueInv
  <2>1. CASE q.entries > 0
    <3>1. q' = Extracted /\ got' = q.ring[q.out]
      BY <2>0, <2>1 DEF OSQPend
    <3> QED
      BY <1>0, <1>1, <2>0, <2>1, <3>1, TakeOK
  <2>2. CASE ~(q.entries > 0)
    <3>1. q' = EventTaskWait(timers[1].time) /\ got' = got
      BY <2>0, <2>2 DEF OSQPend
    <3> QED
      BY <1>0, <1>1, <2>0, <2>2, <3>1, WaitOK
  <2> QED
    BY <2>1, <2>2
<1>3. CASE Pended
  <2>0. OSQPended /\ (q.waits \/ q.handed # None)
    BY <1>3 DEF Pended, QueueInv
  <2>1. CASE q.handed # None
    BY <1>0, <1>1, <2>0, <2>1, PendedOK
  <2>2. CASE q.handed = None
    BY <1>0, <1>1, <2>0, <2>2, ExpiredOK
  <2> QED
    BY <2>1, <2>2
<1> QED
  BY <1>2, <1>3

LEMMA PoolsNext == QueueInv /\ TimersThere /\ PoolsInv /\ [Next]_vars => PoolsInv'
<1> SUFFICES ASSUME QueueInv, TimersThere, PoolsInv, [Next]_vars PROVE PoolsInv'
  OBVIOUS
<1>0. /\ QOK(q) /\ QueueInv' /\ BoxStep /\ free \subseteq Inpkt
      /\ None \notin Msg /\ Timeout \notin Msg /\ None # Timeout
      /\ Msg = Inpkt \cup {Api} /\ Api \notin Inpkt
      /\ Pbufs \in Nat
  BY NoMessage, PathAssumption, QueueNext DEF QueueInv
<1>00. Cardinality(Used) \in Nat
  BY <1>0, PathAssumption, FS_Subset, FS_CardinalityType DEF Used
(* Where neither the mailbox nor the pools change. *)
<1>1. ASSUME Items(q') = Items(q), InHand' = InHand, UNCHANGED <<free, pbufs, kept, server>>
      PROVE  PoolsInv'
  BY <1>1 DEF PoolsInv, Used, Called
(* Where the thread fetches. *)
<1>2. ASSUME Pend \/ Pended PROVE PoolsInv'
  <2>0. got = None /\ UNCHANGED <<free, pbufs, kept, server>>
    BY <1>2, FetchTakes
  <2>1. CASE Items(q) # <<>> /\ got' = Head(Items(q)) /\ Items(q') = Tail(Items(q))
    <3>1. /\ Once(Items(q'))
          /\ Range(Items(q')) \cap InHand' = {}
          /\ Range(Items(q')) \cup InHand' = Used' \cup Called'
      BY <1>0, <2>0, <2>1, Taking
    <3> QED
      BY <2>0, <3>1 DEF PoolsInv, Used
  <2>2. CASE got' \in {None, Timeout} /\ Items(q') = Items(q)
    <3>1. InHand' = InHand
      BY <1>0, <2>0, <2>2 DEF InHand
    <3> QED
      BY <1>1, <2>0, <2>2, <3>1
  <2> QED
    BY <1>2, <2>1, <2>2, FetchTakes
(* Where the mailbox and what is in hand are left alone. *)
<1>3. ASSUME UNCHANGED <<q, got, free, pbufs, kept, server>> PROVE PoolsInv'
  BY <1>1, <1>3 DEF InHand
<1>4. CASE Arrive
  BY <1>4, <1>3 DEF Arrive, queueVars
<1>5. CASE Send
  BY <1>5, <1>3 DEF Send, queueVars, pathVars
<1>6. CASE IrqEnter
  BY <1>6, <1>3 DEF IrqEnter, queueVars
<1>7. CASE IrqTake
  <2>0. UNCHANGED <<got, kept, server>>
    BY <1>7, IrqTakes
  <2>1. CASE UNCHANGED <<q, free, pbufs>>
    BY <1>3, <2>0, <2>1
  <2>2. CASE ~UNCHANGED <<q, free, pbufs>>
    <3>1. PICK m \in free : /\ MboxValid /\ OSQPost(m) /\ free' = free \ {m}
                            /\ pbufs' = pbufs - 1 /\ pbufs # 0
      BY <1>7, <2>2, IrqTakes
    <3>2. m \in Msg /\ m \notin Used \cup Called
      BY <1>0 DEF Used, Called
    <3>3. Items(q') = Append(Items(q), m)
      BY <1>0, <3>1, <3>2, PostOK
    <3>4. Used' = Used \cup {m} /\ Cardinality(Used') = Cardinality(Used) + 1 /\ Called' = Called
      BY <1>0, <2>0, <3>1, UsedGrows DEF Called
    <3>5. /\ Once(Items(q'))
          /\ Range(Items(q')) \cap InHand' = {}
          /\ Range(Items(q')) \cup InHand' = Used' \cup Called'
      BY <1>0, <2>0, <3>2, <3>3, <3>4, Putting
    <3>6. pbufs' \in Nat /\ kept' \in Nat /\ pbufs' + kept' + Cardinality(Used') = Pbufs
      BY <1>00, <1>0, <2>0, <3>1, <3>4 DEF PoolsInv
    <3> QED
      BY <2>0, <3>5, <3>6 DEF PoolsInv
  <2> QED
    BY <2>1, <2>2
<1>8. CASE IrqDone
  BY <1>8, <1>3 DEF IrqDone, queueVars
<1>9. CASE IrqClear
  BY <1>9, <1>3 DEF IrqClear, queueVars
<1>10. CASE Poll
  BY <1>10, <1>3 DEF Poll, queueVars
<1>11. CASE Fetch
  BY <1>11, <1>3 DEF Fetch, queueVars
<1>12. CASE Pend
  BY <1>12, <1>2
<1>13. CASE Pended
  BY <1>13, <1>2
<1>14. CASE Input
  <2>1. /\ got \in Inpkt /\ free' = free \cup {got} /\ got' = None
        /\ q' = q /\ MayAnswer
        /\ \/ pbufs' = pbufs + 1 /\ kept' = kept
           \/ kept' = kept + 1 /\ pbufs' = pbufs
    BY <1>14 DEF Input, Then
  <2>8. server' \in {"runs", "call", "waits"} /\ Called' = Called
    BY <2>1, AnswerKeepsCall
  <2>2. InHand = {got} /\ InHand' = {} /\ got # Api
    BY <1>0, <2>1 DEF InHand
  <2>3. got \in Used
    BY <2>2, <1>0, <2>1 DEF PoolsInv, Called
  <2>4. /\ Used' = Used \ {got}
        /\ Cardinality(Used') = Cardinality(Used) - 1
    BY <1>0, <2>1, <2>3, UsedShrinks DEF Used
  <2>5. got \notin Called
    BY <2>2 DEF Called
  <2>6. Range(Items(q')) \cap InHand' = {} /\ Range(Items(q')) \cup InHand' = Used' \cup Called'
    BY <2>1, <2>2, <2>8, <2>4, <2>5 DEF PoolsInv
  <2>7. pbufs' \in Nat /\ kept' \in Nat /\ pbufs' + kept' + Cardinality(Used') = Pbufs
    BY <1>00, <1>0, <2>1, <2>4 DEF PoolsInv
  <2> QED
    BY <2>1, <2>8, <2>6, <2>7 DEF PoolsInv
<1>15. CASE Call
  <2>1. got = Api /\ got' = None /\ server' \in {"runs", "waits"} /\ UNCHANGED <<q, free, pbufs, kept>>
    BY <1>15 DEF Call, Then
  <2>2. InHand = {Api} /\ InHand' = {} /\ Called' = {} /\ Used' = Used /\ Api \notin Used
    BY <1>0, <2>1 DEF InHand, Called, Used
  <2>3. Called = {Api}
    BY <2>2 DEF PoolsInv, Called
  <2>4. Range(Items(q')) \cap InHand' = {} /\ Range(Items(q')) \cup InHand' = Used' \cup Called'
    BY <2>1, <2>2, <2>3 DEF PoolsInv
  <2> QED
    BY <2>1, <2>2, <2>4 DEF PoolsInv
<1>16. CASE Timer
  <2>1. /\ got \in {None, Timeout} /\ got' = None /\ UNCHANGED <<q, free, pbufs, kept>>
        /\ MayAnswer
    BY <1>16 DEF Timer, Then, QueueInv, MayAnswer
  <2>2. InHand' = InHand /\ Used' = Used
    BY <1>0, <2>1 DEF InHand, Used
  <2>3. server' \in {"runs", "call", "waits"} /\ Called' = Called
    BY <2>1, AnswerKeepsCall
  <2> QED
    BY <2>1, <2>2, <2>3 DEF PoolsInv
<1>17. CASE Output
  BY <1>17, <1>3 DEF Output, queueVars
<1>18. CASE ApiMsg
  <2>1. /\ MboxValid /\ OSQPost(Api) /\ server = "runs" /\ server' = "call"
        /\ UNCHANGED <<got, free, pbufs, kept>>
    BY <1>18 DEF ApiMsg
  <2>2. /\ Called = {} /\ Called' = {Api} /\ Used' = Used /\ Api \notin Used /\ Api \in Msg
    BY <1>0, <2>1 DEF Called, Used
  <2>3. Items(q') = Append(Items(q), Api)
    BY <1>0, <2>1, <2>2, PostOK
  <2>4. /\ Once(Items(q'))
        /\ Range(Items(q')) \cap InHand' = {}
        /\ Range(Items(q')) \cup InHand' = Used' \cup Called'
    BY <1>0, <2>1, <2>2, <2>3, Putting
  <2> QED
    BY <2>1, <2>2, <2>4 DEF PoolsInv
<1>19. CASE Release
  <2>1. /\ UNCHANGED <<q, got, free, server>> /\ kept > 0
        /\ kept' = kept - 1 /\ pbufs' = pbufs + 1
    BY <1>19 DEF Release, queueVars
  <2>2. Used' = Used /\ Called' = Called /\ InHand' = InHand
    BY <2>1 DEF Used, Called, InHand
  <2>3. pbufs' \in Nat /\ kept' \in Nat /\ pbufs' + kept' + Cardinality(Used') = Pbufs
    BY <1>00, <1>0, <2>1, <2>2 DEF PoolsInv
  <2> QED
    BY <2>1, <2>2, <2>3 DEF PoolsInv
<1>20. CASE Tick
  <2>1. OSTimeTick /\ UNCHANGED <<got, free, pbufs, kept, server>>
    BY <1>20 DEF Tick
  <2>2. Items(q') = Items(q) /\ InHand' = InHand
    BY <1>0, <2>1, TickOK DEF InHand
  <2> QED
    BY <1>1, <2>1, <2>2
<1>21. CASE UNCHANGED vars
  BY <1>21, <1>3 DEF vars, queueVars, pathVars
<1> QED
  BY <1>4, <1>5, <1>6, <1>7, <1>8, <1>9, <1>10, <1>11, <1>12, <1>13, <1>14,
     <1>15, <1>16, <1>17, <1>18, <1>19, <1>20, <1>21 DEF Next, Irq, Thread

(* Every message and every pbuf is in one place: free, in the mailbox, in the thread's
   hand or kept for the server; the server's call has one message; and while the thread
   waits the ring is empty, so that tcpip_apimsg always finds the mailbox valid. *)
THEOREM PoolsKept == Spec => []PoolsAccounted
<1>1. Init => QueueInv /\ TimersInv /\ PoolsInv /\ RingsInv
  BY QueueInit0, TimersInvInit, PoolsInit, RingsInit
<1>2. QueueInv /\ TimersInv /\ PoolsInv /\ RingsInv /\ [Next]_vars
        => (QueueInv /\ TimersInv /\ PoolsInv /\ RingsInv)'
  <2> SUFFICES ASSUME QueueInv, TimersInv, PoolsInv, RingsInv, [Next]_vars
               PROVE  QueueInv' /\ TimersInv' /\ PoolsInv' /\ RingsInv'
    OBVIOUS
  <2> QED
    BY QueueNext, TimersNext, PoolsNext, RingsNext DEF TimersInv
<1>3. QueueInv /\ TimersInv /\ PoolsInv /\ RingsInv => PoolsAccounted
  <2> SUFFICES ASSUME QueueInv, TimersInv, PoolsInv, RingsInv PROVE PoolsAccounted
    OBVIOUS
  <2>0. /\ QOK(q) /\ Contents = Items(q) /\ Items(q) \in Seq(Msg)
        /\ None \notin Msg /\ Timeout \notin Msg
    BY BoxIsItems, ItemsOK, NoMessage DEF QueueInv
  <2>1. QueueTypeOK
    BY <2>0 DEF QueueInv, QueueTypeOK, QOK, QType
  <2>2. DmaTypeOK
    BY DEF RingsInv, RxOK, TxOK, DmaTypeOK, RxType, TxType
  <2>3. TimersTypeOK
    BY DEF TimersInv, TimersThere, Listed, Bounded, Entry, TimersTypeOK
  <2>4. ThreadWaits => q.entries = 0
    <3> SUFFICES ASSUME ~Ready PROVE q.entries = 0
      BY DEF ThreadWaits
    <3> QED
      BY <2>0 DEF QOK, Ready
  <2> DEFINE box == Items(q) \o (IF got \in Msg THEN <<got>> ELSE <<>>)
  <2>5. Range(box) = Used \cup Called /\ Once(box) /\ box \in Seq(Msg)
    <3>1. CASE got \in Msg
      <4>1. box = Append(Items(q), got)
        BY <2>0, <3>1
      <4>2. InHand = {got} /\ got \notin Range(Items(q))
        BY <3>1 DEF InHand, PoolsInv
      <4>3. /\ Range(Append(Items(q), got)) = Range(Items(q)) \cup {got}
            /\ Once(Append(Items(q), got))
        BY <2>0, <3>1, <4>2, AppendOnce DEF PoolsInv
      <4> HIDE DEF box
      <4>4. Range(box) = Used \cup Called /\ Once(box)
        BY <4>1, <4>2, <4>3 DEF PoolsInv
      <4> QED
        BY <2>0, <3>1, <4>1, <4>4
    <3>2. CASE got \notin Msg
      <4>1. box = Items(q)
        BY <2>0, <3>2
      <4>2. InHand = {}
        BY <3>2 DEF InHand
      <4> HIDE DEF box
      <4> QED
        BY <2>0, <4>1, <4>2 DEF PoolsInv
    <3> QED
      BY <3>1, <3>2
  <2> HIDE DEF box
  <2>6. Cardinality(Range(box)) = Len(box)
    BY <2>5, OnceCounted
  <2>7. box = Contents \o (IF got \in Msg THEN <<got>> ELSE <<>>)
    BY <2>0 DEF box
  <2>8. /\ Range(box) = (Inpkt \ free) \cup (IF server = "call" THEN {Api} ELSE {})
        /\ Len(box) = Cardinality(Range(box))
        /\ pbufs + kept + Cardinality(Inpkt \ free) = Pbufs
    BY <2>5, <2>6 DEF Used, Called, PoolsInv
  <2> QED
    BY <2>1, <2>2, <2>3, <2>4, <2>7, <2>8 DEF PoolsAccounted
<1> QED
  BY <1>1, <1>2, <1>3, PTL DEF Spec
=============================================================================
