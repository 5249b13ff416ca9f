------------------------- MODULE LwipTimers_proofs -------------------------
(***************************************************************************)
(* What the operators of LwipTimers do to a list of timers: when its        *)
(* elements expire, where sys_timeout puts a new one, and what is left of    *)
(* an interval compared with the place in the list.                         *)
(***************************************************************************)
EXTENDS LwipTimers, FiniteSetTheorems, WellFoundedInduction, TLAPS

Entry == [h : Timers, time : Nat]

(* Every set of numbers has a least element: induction by a least counterexample. *)
LEMMA Least ==
    ASSUME NEW S \in SUBSET Nat, S # {}
    PROVE  \E n \in S : \A m \in S : n <= m
<1>1. PICK n \in S : \A m \in S : ~(<<m, n>> \in OpToRel(<, Nat))
  BY NatLessThanWellFounded, WFMin
<1>2. \A m \in S : <<m, n>> \in Nat \X Nat => ~(m < n)
  BY <1>1 DEF OpToRel
<1>3. \A m \in S : n <= m
  <2> TAKE m \in S
  <2>1. m \in Nat /\ n \in Nat
    OBVIOUS
  <2>2. ~(m < n)
    BY <1>2, <2>1
  <2> QED
    BY <2>1, <2>2
<1> QED
  BY <1>3

-----------------------------------------------------------------------------
(* A sum of the times up to each element of a list. *)
Sums(list, f) ==
    /\ f \in [0 .. Len(list) -> Nat]
    /\ f[0] = 0
    /\ \A n \in 1 .. Len(list) : f[n] = f[n - 1] + list[n].time

LEMMA SumsExist ==
    ASSUME NEW list \in Seq(Entry)
    PROVE  \E f : Sums(list, f)
<1> DEFINE Upto(k, f) == /\ f \in [0 .. k -> Nat]
                         /\ f[0] = 0
                         /\ \A n \in 1 .. k : f[n] = f[n - 1] + list[n].time
           T == {k \in 0 .. Len(list) : ~ \E f : Upto(k, f)}
<1>0. Len(list) \in Nat /\ \A n \in 1 .. Len(list) : list[n].time \in Nat
  <2>1. \A n \in 1 .. Len(list) : list[n] \in Entry
    OBVIOUS
  <2> QED
    BY <2>1 DEF Entry
<1>1. T = {}
  <2> SUFFICES ASSUME T # {} PROVE FALSE
    OBVIOUS
  <2>1. T \in SUBSET Nat
    BY <1>0
  <2>2. PICK k \in T : \A m \in T : k <= m
    BY <2>1, Least
  <2>3. k \in 0 .. Len(list) /\ ~ \E f : Upto(k, f)
    BY <2>2
  <2>4. k # 0
    <3>1. Upto(0, [n \in 0 .. 0 |-> 0])
      OBVIOUS
    <3> QED
      BY <3>1, <2>3
  <2>5. k - 1 \in 0 .. Len(list) /\ k - 1 \notin T
    <3>1. k - 1 \in 0 .. Len(list) /\ k - 1 < k
      BY <1>0, <2>3, <2>4
    <3> HIDE DEF T
    <3> QED
      BY <2>1, <2>2, <3>1
  <2>6. PICK f : Upto(k - 1, f)
    BY <2>5
  <2> DEFINE g == [n \in 0 .. k |-> IF n = k THEN f[k - 1] + list[k].time ELSE f[n]]
  <2>7. Upto(k, g)
    <3>1. f[k - 1] \in Nat /\ list[k].time \in Nat
      BY <1>0, <2>3, <2>4, <2>6
    <3>2. g \in [0 .. k -> Nat] /\ g[0] = 0
      BY <1>0, <2>3, <2>4, <2>6, <3>1
    <3>3. \A n \in 1 .. k : g[n] = g[n - 1] + list[n].time
      BY <1>0, <2>3, <2>4, <2>6, <3>1
    <3> QED
      BY <3>2, <3>3
  <2> QED
    BY <2>3, <2>7
<1>2. Len(list) \in 0 .. Len(list)
  BY <1>0
<1> QED
  BY <1>1, <1>2 DEF Sums

(* The recursive definition means what it says. *)
LEMMA ExpirySums ==
    ASSUME NEW list \in Seq(Entry)
    PROVE  Sums(list, Expiry(list))
<1> DEFINE F(f) == [n \in 0 .. Len(list) |-> IF n = 0 THEN 0 ELSE f[n - 1] + list[n].time]
<1>0. Len(list) \in Nat
  OBVIOUS
<1>1. PICK f : Sums(list, f)
  BY SumsExist
<1>2. f = F(f)
  BY <1>0, <1>1 DEF Sums
<1>3. Expiry(list) = CHOOSE g : g = F(g)
  BY Zenon DEF Expiry
<1>4. Expiry(list) = F(Expiry(list))
  <2> HIDE DEF F
  <2> QED
    BY <1>2, <1>3, Zenon
<1> DEFINE e == Expiry(list)
<1>5. e = F(e)
  BY <1>4
<1> HIDE DEF e
<1>6. \A n \in 0 .. Len(list) : e[n] = f[n]
  <2> DEFINE T == {n \in 0 .. Len(list) : e[n] # f[n]}
  <2> SUFFICES ASSUME T # {} PROVE FALSE
    OBVIOUS
  <2>1. PICK n \in T : \A m \in T : n <= m
    <3>1. T \in SUBSET Nat
      BY <1>0
    <3> QED
      BY <3>1, Least
  <2>2. n \in 0 .. Len(list) /\ e[n] # f[n]
    BY <2>1
  <2>3. n # 0
    BY <1>0, <1>1, <1>5, <2>2 DEF Sums
  <2>4. n - 1 \in 0 .. Len(list) /\ n - 1 \notin T
    BY <1>0, <2>1, <2>2, <2>3
  <2>5. e[n - 1] = f[n - 1]
    BY <2>4
  <2>6. e[n] = e[n - 1] + list[n].time /\ f[n] = f[n - 1] + list[n].time
    BY <1>0, <1>1, <1>5, <2>2, <2>3 DEF Sums
  <2> QED
    BY <2>2, <2>5, <2>6
<1>7. e \in [0 .. Len(list) -> Nat]
  <2>1. e = [n \in 0 .. Len(list) |-> f[n]]
    BY <1>5, <1>6
  <2> QED
    BY <2>1, <1>1 DEF Sums
<1> QED
  BY <1>0, <1>1, <1>6, <1>7 DEF Sums, e

(* ... and there is only one such sum. *)
LEMMA ExpiryUnique ==
    ASSUME NEW list \in Seq(Entry), NEW f,
           f[0] = 0, \A n \in 1 .. Len(list) : f[n] = f[n - 1] + list[n].time
    PROVE  \A n \in 0 .. Len(list) : Expiry(list)[n] = f[n]
<1> DEFINE e == Expiry(list)
           T == {n \in 0 .. Len(list) : e[n] # f[n]}
<1>0. Len(list) \in Nat
  OBVIOUS
<1>1. Sums(list, e)
  BY ExpirySums
<1> HIDE DEF e
<1>2. T = {}
  <2> SUFFICES ASSUME T # {} PROVE FALSE
    OBVIOUS
  <2>1. PICK n \in T : \A m \in T : n <= m
    <3>1. T \in SUBSET Nat
      BY <1>0
    <3> QED
      BY <3>1, Least
  <2>2. n \in 0 .. Len(list) /\ e[n] # f[n]
    BY <2>1
  <2>3. n # 0
    BY <1>0, <1>1, <2>2 DEF Sums
  <2>4. n - 1 \in 0 .. Len(list) /\ n - 1 \notin T
    BY <1>0, <2>1, <2>2, <2>3
  <2>5. e[n - 1] = f[n - 1]
    BY <2>4
  <2>6. e[n] = e[n - 1] + list[n].time /\ f[n] = f[n - 1] + list[n].time
    BY <1>0, <1>1, <2>2, <2>3 DEF Sums
  <2> QED
    BY <2>2, <2>5, <2>6
<1> QED
  BY <1>2 DEF e

-----------------------------------------------------------------------------
(* The place of a new element: behind all that expire no later. *)
LEMMA PlaceRight ==
    ASSUME NEW list \in Seq(Entry), NEW h \in Timers
    PROVE  /\ Place(list, h) \in 0 .. Len(list)
           /\ Expiry(list)[Place(list, h)] <= Interval[h]
           /\ Place(list, h) < Len(list) => Expiry(list)[Place(list, h) + 1] > Interval[h]
<1> DEFINE e == Expiry(list)
           Right(n) == e[n] <= Interval[h] /\ (n < Len(list) => e[n + 1] > Interval[h])
           T == {n \in 0 .. Len(list) : n < Len(list) => e[n + 1] > Interval[h]}
<1>0. Len(list) \in Nat /\ Interval[h] \in Nat
  BY TimersAssumption
<1>1. Sums(list, e)
  BY ExpirySums
<1>2. Place(list, h) = CHOOSE n \in 0 .. Len(list) : Right(n)
  BY DEF Place
<1> HIDE DEF e
<1>3. \E n \in 0 .. Len(list) : Right(n)
  <2>1. T \in SUBSET Nat /\ T # {}
    <3>1. Len(list) \in T
      BY <1>0
    <3> QED
      BY <1>0, <3>1
  <2>2. PICK n \in T : \A m \in T : n <= m
    BY <2>1, Least
  <2>3. n \in 0 .. Len(list) /\ (n < Len(list) => e[n + 1] > Interval[h])
    BY <2>2
  <2>4. e[n] <= Interval[h]
    <3>1. CASE n = 0
      BY <1>0, <1>1, <3>1 DEF Sums
    <3>2. CASE n # 0
      <4>1. n - 1 \in 0 .. Len(list) /\ n - 1 < n /\ n - 1 < Len(list)
        BY <1>0, <2>3, <3>2
      <4>2. n - 1 \notin T
        <5> HIDE DEF T
        <5> QED
          BY <2>1, <2>2, <4>1
      <4>3. ~(e[n] > Interval[h])
        <5>1. (n - 1) + 1 = n
          BY <2>3
        <5> QED
          BY <4>1, <4>2, <5>1
      <4>4. e[n] \in Nat
        BY <1>1, <2>3 DEF Sums
      <4> QED
        BY <1>0, <4>3, <4>4
    <3> QED
      BY <3>1, <3>2
  <2> QED
    BY <2>3, <2>4
<1>4. Place(list, h) \in 0 .. Len(list) /\ Right(Place(list, h))
  <2> HIDE DEF Right
  <2> QED
    BY <1>2, <1>3
<1> QED
  BY <1>4 DEF e

(* What sys_timeout leaves: one element more, none later than its own interval, the
   others in the same order. *)
Bounded(list) == \A i \in DOMAIN list : list[i].time <= Interval[list[i].h]

LEMMA SysTimeoutElements ==
    ASSUME NEW list \in Seq(Entry), Bounded(list), NEW h \in Timers
    PROVE  LET new == SysTimeout(list, h)
               n   == Place(list, h)
           IN  /\ new \in Seq(Entry)
               /\ Len(new) = Len(list) + 1
               /\ Bounded(new)
               /\ \A i \in 1 .. Len(list) + 1 :
                     new[i].h = IF i <= n THEN list[i].h
                                ELSE IF i = n + 1 THEN h ELSE list[i - 1].h
               /\ \A i \in 1 .. Len(list) + 1 :
                     new[i].time = IF i <= n THEN list[i].time
                                   ELSE IF i = n + 1 THEN Interval[h] - Expiry(list)[n]
                                   ELSE IF i = n + 2 THEN list[i - 1].time - (Interval[h] - Expiry(list)[n])
                                   ELSE list[i - 1].time
<1> DEFINE n == Place(list, h)
           e == Expiry(list)
           left == Interval[h] - e[n]
           new == SysTimeout(list, h)
<1>0. Len(list) \in Nat /\ Interval[h] \in Nat
  BY TimersAssumption
<1>1. Sums(list, e)
  BY ExpirySums
<1>2. n \in 0 .. Len(list) /\ e[n] <= Interval[h] /\ (n < Len(list) => e[n + 1] > Interval[h])
  BY PlaceRight
<1>3. new = [i \in 1 .. Len(list) + 1 |->
            CASE i <= n     -> list[i]
              [] i = n + 1  -> [h |-> h, time |-> left]
              [] i = n + 2  -> [list[i - 1] EXCEPT !.time = @ - left]
              [] OTHER      -> list[i - 1]]
  BY DEF SysTimeout
<1> HIDE DEF e, n, new
<1>4. left \in 0 .. Interval[h] /\ (n < Len(list) => left < list[n + 1].time)
  <2>1. e[n] \in Nat
    BY <1>0, <1>1, <1>2 DEF Sums
  <2>2. n < Len(list) => e[n + 1] = e[n] + list[n + 1].time
    <3>1. n < Len(list) => n + 1 \in 1 .. Len(list) /\ (n + 1) - 1 = n
      BY <1>0, <1>2
    <3> QED
      BY <3>1, <1>1 DEF Sums
  <2>3. n < Len(list) => list[n + 1].time \in Nat
    <3>1. n < Len(list) => list[n + 1] \in Entry
      BY <1>0, <1>2
    <3> QED
      BY <3>1 DEF Entry
  <2> QED
    BY <1>0, <1>2, <2>1, <2>2, <2>3
<1> HIDE DEF left
<1>5. \A i \in 1 .. Len(list) : /\ list[i] \in Entry
                                /\ list[i].h \in Timers
                                /\ list[i].time \in Nat
                                /\ list[i].time <= Interval[list[i].h]
  <2> TAKE i \in 1 .. Len(list)
  <2>1. list[i] \in Entry
    OBVIOUS
  <2>2. i \in DOMAIN list
    OBVIOUS
  <2> QED
    BY <2>1, <2>2 DEF Entry, Bounded
<1>6. ASSUME NEW i \in 1 .. Len(list) + 1
      PROVE  /\ new[i] \in Entry
             /\ new[i].time <= Interval[new[i].h]
             /\ new[i].h = IF i <= n THEN list[i].h
                                ELSE IF i = n + 1 THEN h ELSE list[i - 1].h
             /\ new[i].time = IF i <= n THEN list[i].time
                                   ELSE IF i = n + 1 THEN left
                                   ELSE IF i = n + 2 THEN list[i - 1].time - left
                                   ELSE list[i - 1].time
  <2>1. CASE i <= n
    <3>1. i \in 1 .. Len(list) /\ new[i] = list[i]
      BY <1>0, <1>2, <1>3, <2>1
    <3> QED
      BY <3>1, <1>5, <2>1
  <2>2. CASE i = n + 1
    <3>1. new[i] = [h |-> h, time |-> left] /\ ~(i <= n)
      BY <1>2, <1>3, <2>2
    <3> QED
      BY <3>1, <1>0, <1>4, <2>2 DEF Entry
  <2>3. CASE i = n + 2
    <3>1. i - 1 \in 1 .. Len(list) /\ i - 1 = n + 1 /\ n < Len(list) /\ ~(i <= n) /\ i # n + 1
      BY <1>0, <1>2, <2>3
    <3>2. new[i] = [list[i - 1] EXCEPT !.time = @ - left]
      BY <1>3, <2>3, <3>1
    <3>3. list[i - 1] \in Entry /\ list[i - 1].time \in Nat /\ left < list[i - 1].time
          /\ list[i - 1].time <= Interval[list[i - 1].h] /\ list[i - 1].h \in Timers
      BY <1>4, <1>5, <3>1
    <3>4. new[i].h = list[i - 1].h /\ new[i].time = list[i - 1].time - left /\ new[i] \in Entry
      <4>1. list[i - 1].time - left \in Nat
        BY <1>0, <1>4, <3>3
      <4> QED
        BY <3>2, <3>3, <4>1 DEF Entry
    <3>5. Interval[list[i - 1].h] \in Nat
      BY <3>3, TimersAssumption
    <3>6. new[i].time <= Interval[new[i].h]
      BY <1>0, <1>4, <3>3, <3>4, <3>5
    <3> QED
      BY <2>3, <3>1, <3>4, <3>6
  <2>4. CASE ~(i <= n) /\ i # n + 1 /\ i # n + 2
    <3>1. new[i] = list[i - 1]
      BY <1>3, <2>4
    <3>2. i - 1 \in 1 .. Len(list)
      BY <1>0, <1>2, <2>4
    <3> QED
      BY <3>1, <3>2, <1>5, <2>4
  <2> QED
    BY <2>1, <2>2, <2>3, <2>4
<1>7. DOMAIN new = 1 .. Len(list) + 1
  BY <1>3
<1>8. new \in [1 .. Len(list) + 1 -> Entry]
  <2>1. new = [i \in 1 .. Len(list) + 1 |-> new[i]]
    BY <1>3
  <2> QED
    BY <2>1, <1>6
<1>9. new \in Seq(Entry) /\ Len(new) = Len(list) + 1
  BY <1>0, <1>8
<1>10. Bounded(new)
  BY <1>6, <1>7 DEF Bounded
<1> QED
  BY <1>6, <1>9, <1>10 DEF new, n, left, e

(* ... and when they expire: the new one after its interval, the others as before. *)
LEMMA SysTimeoutExpiry ==
    ASSUME NEW list \in Seq(Entry), Bounded(list), NEW h \in Timers
    PROVE  \A i \in 0 .. Len(list) + 1 :
              Expiry(SysTimeout(list, h))[i] =
                 IF i <= Place(list, h) THEN Expiry(list)[i]
                 ELSE IF i = Place(list, h) + 1 THEN Interval[h] ELSE Expiry(list)[i - 1]
<1> DEFINE n == Place(list, h)
           e == Expiry(list)
           left == Interval[h] - e[n]
           new == SysTimeout(list, h)
           f == [i \in 0 .. Len(list) + 1 |-> IF i <= n THEN e[i]
                                              ELSE IF i = n + 1 THEN Interval[h] ELSE e[i - 1]]
<1>0. Len(list) \in Nat /\ Interval[h] \in Nat
  BY TimersAssumption
<1>1. Sums(list, e)
  BY ExpirySums
<1>2. n \in 0 .. Len(list) /\ e[n] <= Interval[h]
  BY PlaceRight
<1>3. /\ new \in Seq(Entry)
      /\ Len(new) = Len(list) + 1
      /\ \A i \in 1 .. Len(list) + 1 :
                     new[i].time = IF i <= n THEN list[i].time
                                   ELSE IF i = n + 1 THEN left
                                   ELSE IF i = n + 2 THEN list[i - 1].time - left
                                   ELSE list[i - 1].time
  BY SysTimeoutElements
<1> HIDE DEF e, n, new
<1>4. \A i \in 0 .. Len(list) : e[i] \in Nat
  BY <1>1 DEF Sums
<1>5. \A i \in 1 .. Len(list) : list[i].time \in Nat
  <2> TAKE i \in 1 .. Len(list)
  <2>1. list[i] \in Entry
    OBVIOUS
  <2> QED
    BY <2>1 DEF Entry
<1>6. f[0] = 0
  BY <1>0, <1>1, <1>2 DEF Sums
<1>7. ASSUME NEW i \in 1 .. Len(list) + 1
      PROVE  f[i] = f[i - 1] + new[i].time
  <2>0. i \in 0 .. Len(list) + 1 /\ i - 1 \in 0 .. Len(list) + 1
    BY <1>0
  <2>1. CASE i <= n
    <3>1. i \in 1 .. Len(list)
      BY <1>0, <1>2, <2>1
    <3>2. f[i] = e[i] /\ f[i - 1] = e[i - 1] /\ new[i].time = list[i].time
      BY <1>0, <1>2, <1>3, <2>0, <2>1
    <3> QED
      BY <3>1, <3>2, <1>1 DEF Sums
  <2>2. CASE i = n + 1
    <3>1. f[i] = Interval[h] /\ f[i - 1] = e[n] /\ new[i].time = left
      BY <1>0, <1>2, <1>3, <2>0, <2>2
    <3> QED
      BY <1>0, <1>2, <1>4, <3>1
  <2>3. CASE i = n + 2
    <3>0. i - 1 \in 1 .. Len(list) /\ i - 1 = n + 1 /\ ~(i <= n) /\ i # n + 1
      BY <1>0, <1>2, <2>3
    <3>1. f[i] = e[i - 1] /\ f[i - 1] = Interval[h]
      BY <1>0, <1>2, <2>0, <2>3, <3>0
    <3>2. new[i].time = list[i - 1].time - left
      BY <1>3, <2>3, <3>0
    <3>3. e[i - 1] = e[n] + list[i - 1].time
      <4>1. (i - 1) - 1 = n
        BY <1>2, <2>3
      <4> QED
        BY <3>0, <4>1, <1>1 DEF Sums
    <3> QED
      BY <1>0, <1>2, <1>4, <1>5, <3>0, <3>1, <3>2, <3>3
  <2>4. CASE ~(i <= n) /\ i # n + 1 /\ i # n + 2
    <3>0. i - 1 \in 1 .. Len(list) /\ ~(i - 1 <= n) /\ i - 1 # n + 1
      BY <1>0, <1>2, <2>4
    <3>1. f[i] = e[i - 1] /\ f[i - 1] = e[(i - 1) - 1]
      BY <2>0, <2>4, <3>0
    <3>2. new[i].time = list[i - 1].time
      BY <1>3, <2>4
    <3> QED
      BY <3>0, <3>1, <3>2, <1>1 DEF Sums
  <2> QED
    BY <2>1, <2>2, <2>3, <2>4
<1>8. \A i \in 0 .. Len(new) : Expiry(new)[i] = f[i]
  <2> HIDE DEF f
  <2> QED
    BY <1>3, <1>6, <1>7, ExpiryUnique
<1> QED
  BY <1>0, <1>3, <1>8 DEF new, n, e

(* Without the first element the others expire as much earlier as it took. *)
LEMMA TailExpiry ==
    ASSUME NEW list \in Seq(Entry), list # <<>>
    PROVE  /\ Tail(list) \in Seq(Entry)
           /\ Len(Tail(list)) = Len(list) - 1
           /\ \A i \in 1 .. Len(list) - 1 : Tail(list)[i] = list[i + 1]
           /\ \A i \in 0 .. Len(list) - 1 :
                 Expiry(Tail(list))[i] = Expiry(list)[i + 1] - list[1].time
<1> DEFINE e == Expiry(list)
           new == Tail(list)
           f == [i \in 0 .. Len(list) - 1 |-> e[i + 1] - list[1].time]
<1>0. Len(list) \in Nat \ {0}
  OBVIOUS
<1>1. Sums(list, e)
  BY ExpirySums
<1> HIDE DEF e
<1>2. new \in Seq(Entry) /\ Len(new) = Len(list) - 1 /\ \A i \in 1 .. Len(list) - 1 : new[i] = list[i + 1]
  OBVIOUS
<1> HIDE DEF new
<1>3. \A i \in 1 .. Len(list) : list[i].time \in Nat
  <2> TAKE i \in 1 .. Len(list)
  <2>1. list[i] \in Entry
    OBVIOUS
  <2> QED
    BY <2>1 DEF Entry
<1>4. f[0] = 0
  <2>1. e[1] = e[0] + list[1].time
    <3>1. 1 \in 1 .. Len(list) /\ 1 - 1 = 0
      BY <1>0
    <3> QED
      BY <3>1, <1>1 DEF Sums
  <2> QED
    BY <1>0, <1>1, <1>3, <2>1 DEF Sums
<1>5. ASSUME NEW i \in 1 .. Len(new)
      PROVE  f[i] = f[i - 1] + new[i].time
  <2>1. i \in 0 .. Len(list) - 1 /\ i - 1 \in 0 .. Len(list) - 1 /\ i + 1 \in 1 .. Len(list)
        /\ (i - 1) + 1 = i /\ (i + 1) - 1 = i /\ i \in 0 .. Len(list)
    BY <1>0, <1>2
  <2>2. f[i] = e[i + 1] - list[1].time /\ f[i - 1] = e[i] - list[1].time
    BY <2>1
  <2>3. e[i + 1] = e[i] + list[i + 1].time
    BY <1>1, <2>1 DEF Sums
  <2>4. new[i].time = list[i + 1].time
    BY <1>2
  <2>5. e[i] \in Nat /\ list[i + 1].time \in Nat /\ list[1].time \in Nat
    BY <1>0, <1>1, <1>3, <2>1 DEF Sums
  <2> QED
    BY <2>2, <2>3, <2>4, <2>5
<1>6. \A i \in 0 .. Len(new) : Expiry(new)[i] = f[i]
  <2> HIDE DEF f
  <2> QED
    BY <1>2, <1>4, <1>5, ExpiryUnique
<1> QED
  BY <1>0, <1>2, <1>6 DEF new, e

(* When the first element comes sooner, all come sooner by as much. *)
LEMMA SoonerExpiry ==
    ASSUME NEW list \in Seq(Entry), list # <<>>, NEW t \in 0 .. list[1].time
    PROVE  LET new == [list EXCEPT ![1].time = t]
           IN  /\ new \in Seq(Entry)
               /\ Len(new) = Len(list)
               /\ \A i \in 1 .. Len(list) : /\ new[i].h = list[i].h
                                            /\ new[i].time <= list[i].time
               /\ \A i \in 1 .. Len(list) :
                     Expiry(new)[i] = Expiry(list)[i] - (list[1].time - t)
<1> DEFINE e == Expiry(list)
           first == list[1].time
           new == [list EXCEPT ![1].time = t]
           f == [i \in 0 .. Len(list) |-> IF i = 0 THEN 0 ELSE e[i] - (first - t)]
<1>0. Len(list) \in Nat \ {0} /\ 1 \in 1 .. Len(list)
  OBVIOUS
<1>1. Sums(list, e)
  BY ExpirySums
<1> HIDE DEF e
<1>2. \A i \in 1 .. Len(list) : list[i] \in Entry /\ list[i].time \in Nat
  <2> TAKE i \in 1 .. Len(list)
  <2>1. list[i] \in Entry
    OBVIOUS
  <2> QED
    BY <2>1 DEF Entry
<1>3. first \in Nat /\ t \in Nat /\ t <= first
  BY <1>0, <1>2
<1>4. new \in Seq(Entry) /\ Len(new) = Len(list)
  <2>1. new = [i \in 1 .. Len(list) |-> IF i = 1 THEN [list[1] EXCEPT !.time = t] ELSE list[i]]
    BY <1>0
  <2>2. [list[1] EXCEPT !.time = t] \in Entry
    BY <1>0, <1>2, <1>3 DEF Entry
  <2>3. new \in [1 .. Len(list) -> Entry]
    BY <1>2, <2>1, <2>2
  <2> QED
    BY <1>0, <2>3
<1>5. ASSUME NEW i \in 1 .. Len(list)
      PROVE  /\ new[i].h = list[i].h
             /\ new[i].time = IF i = 1 THEN t ELSE list[i].time
  <2>1. CASE i = 1
    <3>1. new[i] = [list[1] EXCEPT !.time = t]
      BY <1>0, <2>1
    <3> QED
      BY <1>0, <1>2, <2>1, <3>1 DEF Entry
  <2>2. CASE i # 1
    <3>1. new[i] = list[i]
      BY <2>2
    <3> QED
      BY <2>2, <3>1
  <2> QED
    BY <2>1, <2>2
<1>6. ASSUME NEW i \in 1 .. Len(list)
      PROVE  new[i].time <= list[i].time
  BY <1>2, <1>3, <1>5
<1> HIDE DEF first, new
<1>7. f[0] = 0
  BY <1>0
<1>8. ASSUME NEW i \in 1 .. Len(list)
      PROVE  f[i] = f[i - 1] + new[i].time
  <2>0. i \in 0 .. Len(list) /\ i - 1 \in 0 .. Len(list) /\ e[i] = e[i - 1] + list[i].time
        /\ e[i - 1] \in Nat /\ e[0] = 0 /\ list[i].time \in Nat
    <3>1. i \in 0 .. Len(list) /\ i - 1 \in 0 .. Len(list)
      BY <1>0
    <3>2. e[i] = e[i - 1] + list[i].time /\ e[0] = 0
      BY <1>1 DEF Sums
    <3>3. e[i - 1] \in Nat
      <4>1. e \in [0 .. Len(list) -> Nat]
        BY <1>1 DEF Sums
      <4> QED
        BY <3>1, <4>1
    <3> QED
      BY <1>2, <3>1, <3>2, <3>3
  <2>1. CASE i = 1
    <3>1. e[1] = 0 + first
      BY <2>0, <2>1 DEF first
    <3>2. f[1] = e[1] - (first - t) /\ f[0] = 0 /\ new[1].time = t
      BY <1>0, <1>5, <2>1
    <3> QED
      BY <1>3, <2>1, <3>1, <3>2
  <2>2. CASE i # 1
    <3>1. f[i] = e[i] - (first - t) /\ f[i - 1] = e[i - 1] - (first - t) /\ new[i].time = list[i].time
      BY <1>5, <2>0, <2>2
    <3> QED
      BY <1>3, <2>0, <3>1
  <2> QED
    BY <2>1, <2>2
<1>9. \A i \in 0 .. Len(new) : Expiry(new)[i] = f[i]
  <2> HIDE DEF f
  <2>1. \A i \in 1 .. Len(new) : f[i] = f[i - 1] + new[i].time
    BY <1>4, <1>8
  <2> QED
    BY <1>4, <1>7, <2>1, ExpiryUnique
<1>10. \A i \in 1 .. Len(list) : Expiry(new)[i] = e[i] - (first - t)
  <2> TAKE i \in 1 .. Len(list)
  <2>1. i \in 0 .. Len(new) /\ i # 0 /\ i \in 0 .. Len(list)
    BY <1>0, <1>4
  <2> QED
    BY <1>9, <2>1
<1>11. \A i \in 1 .. Len(list) : new[i].h = list[i].h /\ new[i].time <= list[i].time
  BY <1>5, <1>6
<1> QED
  BY <1>4, <1>10, <1>11 DEF new, e, first

-----------------------------------------------------------------------------
(* The list as the thread keeps it: every handler once. *)
Distinct(list) == \A i, j \in DOMAIN list : list[i].h = list[j].h => i = j
Listed(list) == list \in Seq(Entry) /\ Bounded(list) /\ Distinct(list)
Has(list, k) == \E i \in DOMAIN list : list[i].h = k

(* What is left of a timer's interval is over by its place in the list, even with s
   more milliseconds. *)
Covered(list, d, s) ==
    \A i \in DOMAIN list : d[list[i].h] = 0 \/ d[list[i].h] + s <= Expiry(list)[i]

LEMMA SysTimeoutCovered ==
    ASSUME NEW list, Listed(list), NEW h \in Timers, ~Has(list, h),
           NEW d \in [Timers -> Nat], Covered(list, d, 0)
    PROVE  LET new == SysTimeout(list, h)
           IN  /\ Listed(new)
               /\ new # <<>>
               /\ \A k : Has(new, k) <=> Has(list, k) \/ k = h
               /\ Covered(new, [d EXCEPT ![h] = Interval[h]], 0)
<1> DEFINE n == Place(list, h)
           e == Expiry(list)
           new == SysTimeout(list, h)
           d2 == [d EXCEPT ![h] = Interval[h]]
           From(i) == IF i <= n THEN i ELSE i - 1
<1>0. list \in Seq(Entry) /\ Bounded(list) /\ Len(list) \in Nat /\ Interval[h] \in Nat
      /\ DOMAIN list = 1 .. Len(list)
  BY TimersAssumption DEF Listed
<1>1. /\ new \in Seq(Entry) /\ Len(new) = Len(list) + 1 /\ Bounded(new)
      /\ \A i \in 1 .. Len(list) + 1 :
            new[i].h = IF i <= n THEN list[i].h ELSE IF i = n + 1 THEN h ELSE list[i - 1].h
  BY <1>0, SysTimeoutElements
<1>2. \A i \in 0 .. Len(list) + 1 :
         Expiry(new)[i] = IF i <= n THEN e[i] ELSE IF i = n + 1 THEN Interval[h] ELSE e[i - 1]
  BY <1>0, SysTimeoutExpiry
<1>3. n \in 0 .. Len(list)
  BY <1>0, PlaceRight
<1>4. \A i \in 1 .. Len(list) : list[i].h # h /\ list[i].h \in Timers
  <2> TAKE i \in 1 .. Len(list)
  <2>1. list[i] \in Entry
    BY <1>0
  <2> QED
    BY <1>0, <2>1 DEF Has, Entry
<1> HIDE DEF n, e, new
<1>5. DOMAIN new = 1 .. Len(list) + 1
  BY <1>0, <1>1
<1>6. \A i \in 1 .. Len(list) + 1 : i # n + 1 => From(i) \in 1 .. Len(list) /\ new[i].h = list[From(i)].h
                                                /\ Expiry(new)[i] = e[From(i)]
  <2> SUFFICES ASSUME NEW i \in 1 .. Len(list) + 1, i # n + 1
               PROVE  From(i) \in 1 .. Len(list) /\ new[i].h = list[From(i)].h
                      /\ Expiry(new)[i] = e[From(i)]
    OBVIOUS
  <2>1. i \in 0 .. Len(list) + 1
    BY <1>0
  <2>2. CASE i <= n
    BY <1>0, <1>1, <1>2, <1>3, <2>1, <2>2
  <2>3. CASE ~(i <= n)
    <3>1. From(i) = i - 1 /\ i - 1 \in 1 .. Len(list)
      BY <1>0, <1>3, <2>3
    <3>2. new[i].h = list[i - 1].h /\ Expiry(new)[i] = e[i - 1]
      BY <1>1, <1>2, <2>1, <2>3
    <3> QED
      BY <3>1, <3>2
  <2> QED
    BY <2>2, <2>3
<1>7. n + 1 \in 1 .. Len(list) + 1 /\ new[n + 1].h = h /\ Expiry(new)[n + 1] = Interval[h]
  <2>1. n + 1 \in 1 .. Len(list) + 1 /\ n + 1 \in 0 .. Len(list) + 1 /\ ~(n + 1 <= n)
    BY <1>0, <1>3
  <2> QED
    BY <1>1, <1>2, <2>1
<1>8. Distinct(new)
  <2> SUFFICES ASSUME NEW i \in 1 .. Len(list) + 1, NEW j \in 1 .. Len(list) + 1,
                      new[i].h = new[j].h
               PROVE  i = j
    BY <1>5 DEF Distinct
  <2>1. CASE i = n + 1 \/ j = n + 1
    <3>1. i = n + 1 /\ j = n + 1
      <4>1. ASSUME i # n + 1 PROVE FALSE
        BY <4>1, <1>4, <1>6, <1>7, <2>1
      <4>2. ASSUME j # n + 1 PROVE FALSE
        BY <4>2, <1>4, <1>6, <1>7, <2>1
      <4> QED
        BY <4>1, <4>2
    <3> QED
      BY <3>1
  <2>2. CASE i # n + 1 /\ j # n + 1
    <3>1. From(i) \in DOMAIN list /\ From(j) \in DOMAIN list /\ list[From(i)].h = list[From(j)].h
      BY <1>0, <1>6, <2>2
    <3>2. From(i) = From(j)
      BY <3>1 DEF Listed, Distinct
    <3> QED
      BY <1>3, <2>2, <3>2
  <2> QED
    BY <2>1, <2>2
<1>9. \A k : Has(new, k) <=> Has(list, k) \/ k = h
  <2> TAKE k
  <2>1. ASSUME Has(new, k) PROVE Has(list, k) \/ k = h
    <3>1. PICK i \in 1 .. Len(list) + 1 : new[i].h = k
      BY <1>5, <2>1 DEF Has
    <3>2. CASE i = n + 1
      BY <1>7, <3>1, <3>2
    <3>3. CASE i # n + 1
      <4>1. From(i) \in DOMAIN list /\ list[From(i)].h = k
        BY <1>0, <1>6, <3>1, <3>3
      <4> HIDE DEF From
      <4> QED
        BY <4>1 DEF Has
    <3> QED
      BY <3>2, <3>3
  <2>2. ASSUME k = h PROVE Has(new, k)
    BY <1>5, <1>7, <2>2 DEF Has
  <2>3. ASSUME Has(list, k) PROVE Has(new, k)
    <3>1. PICK j \in 1 .. Len(list) : list[j].h = k
      BY <1>0, <2>3 DEF Has
    <3> DEFINE i == IF j <= n THEN j ELSE j + 1
    <3>2. i \in 1 .. Len(list) + 1 /\ i # n + 1 /\ From(i) = j
      BY <1>0, <1>3
    <3>3. new[i].h = k
      BY <1>6, <3>1, <3>2
    <3> HIDE DEF i
    <3> QED
      BY <1>5, <3>2, <3>3 DEF Has
  <2> QED
    BY <2>1, <2>2, <2>3
<1>10. Covered(new, d2, 0)
  <2> SUFFICES ASSUME NEW i \in 1 .. Len(list) + 1
               PROVE  d2[new[i].h] = 0 \/ d2[new[i].h] + 0 <= Expiry(new)[i]
    BY <1>5 DEF Covered
  <2>1. CASE i = n + 1
    <3>1. d2[h] = Interval[h]
      OBVIOUS
    <3> QED
      BY <1>0, <1>7, <2>1, <3>1
  <2>2. CASE i # n + 1
    <3>1. From(i) \in 1 .. Len(list) /\ new[i].h = list[From(i)].h /\ Expiry(new)[i] = e[From(i)]
      BY <1>6, <2>2
    <3>2. d2[new[i].h] = d[list[From(i)].h]
      BY <1>4, <3>1
    <3>3. d[list[From(i)].h] = 0 \/ d[list[From(i)].h] + 0 <= e[From(i)]
      BY <1>0, <3>1 DEF Covered, e
    <3> QED
      BY <3>1, <3>2, <3>3
  <2> QED
    BY <2>1, <2>2
<1>11. new # <<>>
  BY <1>0, <1>1
<1>12. Listed(new)
  BY <1>1, <1>8 DEF Listed
<1> QED
  BY <1>9, <1>10, <1>11, <1>12 DEF new

(* The first timer is taken from the list. *)
LEMMA TailCovered ==
    ASSUME NEW list, Listed(list), list # <<>>, NEW d \in [Timers -> Nat],
           Covered(list, d, list[1].time)
    PROVE  /\ Listed(Tail(list))
           /\ \A k : Has(Tail(list), k) <=> Has(list, k) /\ k # list[1].h
           /\ Covered(Tail(list), d, 0)
<1> DEFINE new == Tail(list)
<1>0. list \in Seq(Entry) /\ Len(list) \in Nat \ {0} /\ DOMAIN list = 1 .. Len(list)
      /\ Bounded(list) /\ Distinct(list)
  BY DEF Listed
<1>1. /\ new \in Seq(Entry)
      /\ Len(new) = Len(list) - 1
      /\ \A i \in 1 .. Len(list) - 1 : new[i] = list[i + 1]
      /\ \A i \in 0 .. Len(list) - 1 : Expiry(new)[i] = Expiry(list)[i + 1] - list[1].time
  BY <1>0, TailExpiry
<1> HIDE DEF new
<1>2. DOMAIN new = 1 .. Len(list) - 1
  BY <1>0, <1>1
<1>3. \A i \in 1 .. Len(list) - 1 : i + 1 \in 1 .. Len(list) /\ i + 1 # 1 /\ i \in 0 .. Len(list) - 1
  BY <1>0
<1>4. Bounded(new)
  BY <1>0, <1>1, <1>2, <1>3 DEF Bounded
<1>5. Distinct(new)
  <2> SUFFICES ASSUME NEW i \in 1 .. Len(list) - 1, NEW j \in 1 .. Len(list) - 1,
                      new[i].h = new[j].h
               PROVE  i = j
    BY <1>2 DEF Distinct
  <2>1. i + 1 = j + 1
    <3>1. i + 1 \in DOMAIN list /\ j + 1 \in DOMAIN list /\ list[i + 1].h = list[j + 1].h
      BY <1>0, <1>1, <1>3
    <3>2. Distinct(list)
      BY <1>0
    <3> QED
      BY <3>1, <3>2 DEF Distinct
  <2> QED
    BY <2>1
<1>6. \A k : Has(new, k) <=> Has(list, k) /\ k # list[1].h
  <2> TAKE k
  <2>1. ASSUME Has(new, k) PROVE Has(list, k) /\ k # list[1].h
    <3>1. PICK i \in 1 .. Len(list) - 1 : new[i].h = k
      BY <1>2, <2>1 DEF Has
    <3>2. i + 1 \in DOMAIN list /\ 1 \in DOMAIN list /\ list[i + 1].h = k /\ i + 1 # 1
      BY <1>0, <1>1, <1>3, <3>1
    <3>3. Has(list, k)
      BY <3>2 DEF Has
    <3>4. k # list[1].h
      BY <1>0, <3>2 DEF Distinct
    <3> QED
      BY <3>3, <3>4
  <2>2. ASSUME Has(list, k), k # list[1].h PROVE Has(new, k)
    <3>1. PICK j \in 1 .. Len(list) : list[j].h = k
      BY <1>0, <2>2 DEF Has
    <3>2. j # 1
      BY <2>2, <3>1
    <3>3. j - 1 \in 1 .. Len(list) - 1 /\ (j - 1) + 1 = j
      BY <1>0, <3>2
    <3>4. new[j - 1].h = k
      BY <1>1, <3>1, <3>3
    <3> QED
      BY <1>2, <3>3, <3>4 DEF Has
  <2> QED
    BY <2>1, <2>2
<1>7. Covered(new, d, 0)
  <2> SUFFICES ASSUME NEW i \in 1 .. Len(list) - 1
               PROVE  d[new[i].h] = 0 \/ d[new[i].h] + 0 <= Expiry(new)[i]
    BY <1>2 DEF Covered
  <2>1. /\ i + 1 \in DOMAIN list /\ new[i] = list[i + 1]
        /\ Expiry(new)[i] = Expiry(list)[i + 1] - list[1].time
    BY <1>0, <1>1, <1>3
  <2>2. d[list[i + 1].h] = 0 \/ d[list[i + 1].h] + list[1].time <= Expiry(list)[i + 1]
    BY <2>1 DEF Covered
  <2>3. d[list[i + 1].h] \in Nat /\ list[1].time \in Nat /\ Expiry(list)[i + 1] \in Nat
    <3>1. list[i + 1] \in Entry /\ list[1] \in Entry
      BY <1>0, <2>1
    <3>2. Expiry(list)[i + 1] \in Nat
      <4>1. i + 1 \in 0 .. Len(list)
        BY <1>0, <2>1
      <4> QED
        BY <1>0, <4>1, ExpirySums DEF Sums
    <3> QED
      BY <3>1, <3>2 DEF Entry
  <2> QED
    BY <2>1, <2>2, <2>3
<1> QED
  BY <1>1, <1>4, <1>5, <1>6, <1>7 DEF Listed, new

(* The first timer comes sooner because a message has taken time: a wait of w ticks
   counts as w + 1 milliseconds, and one of no tick as all that was left of it. *)
LEMMA MessageFetchedCovered ==
    ASSUME NEW w \in Nat, Listed(timers), timers # <<>>, due \in [Timers -> Nat],
           Covered(timers, due, w), MessageFetched(w)
    PROVE  /\ Listed(timers')
           /\ timers' # <<>>
           /\ \A k : Has(timers', k) <=> Has(timers, k)
           /\ Covered(timers', due', 0)
           /\ due' \in [Timers -> Nat]
           /\ \A h \in Timers : due'[h] <= due[h]
<1> DEFINE list == timers
           first == list[1].time
           spent == TimeNeeded(w)
           t == IF spent < first THEN first - spent ELSE 0
           new == [list EXCEPT ![1].time = t]
           past == IF w = 0 THEN first ELSE 1
<1>0. list \in Seq(Entry) /\ Len(list) \in Nat \ {0} /\ DOMAIN list = 1 .. Len(list)
      /\ Bounded(list) /\ Distinct(list) /\ Head(list) = list[1]
  BY DEF Listed
<1>1. timers' = new /\ due' = Passed(past)
  BY <1>0 DEF MessageFetched
<1>2. \A i \in 1 .. Len(list) : list[i].h \in Timers /\ list[i].time \in Nat
                                /\ Interval[list[i].h] \in Nat
  <2> TAKE i \in 1 .. Len(list)
  <2>1. list[i] \in Entry
    BY <1>0
  <2> QED
    BY <2>1, TimersAssumption DEF Entry
<1>3. first \in Nat /\ t \in 0 .. first /\ spent \in Nat /\ past \in Nat
  <2>1. first \in Nat
    BY <1>0, <1>2
  <2> HIDE DEF first
  <2>2. spent \in Nat
    BY DEF TimeNeeded
  <2> HIDE DEF spent
  <2> QED
    BY <2>1, <2>2
<1>4. /\ new \in Seq(Entry)
      /\ Len(new) = Len(list)
      /\ \A i \in 1 .. Len(list) : new[i].h = list[i].h /\ new[i].time <= list[i].time
      /\ \A i \in 1 .. Len(list) : Expiry(new)[i] = Expiry(list)[i] - (first - t)
  <2> HIDE DEF t
  <2> QED
    BY <1>0, <1>3, SoonerExpiry
<1> HIDE DEF new
<1>5. DOMAIN new = 1 .. Len(list) /\ new # <<>>
  BY <1>0, <1>4
<1>6. Bounded(new)
  <2> SUFFICES ASSUME NEW i \in 1 .. Len(list) PROVE new[i].time <= Interval[new[i].h]
    BY <1>5 DEF Bounded
  <2>1. list[i].time <= Interval[list[i].h]
    BY <1>0 DEF Bounded
  <2>2. new[i] \in Entry
    BY <1>4
  <2> QED
    BY <1>2, <1>4, <2>1, <2>2 DEF Entry
<1>7. Distinct(new)
  BY <1>0, <1>4, <1>5 DEF Distinct
<1>8. \A k : Has(new, k) <=> Has(list, k)
  BY <1>0, <1>4, <1>5 DEF Has
<1>9. \A h \in Timers : Passed(past)[h] = IF due[h] < past THEN 0 ELSE due[h] - past
  BY DEF Passed
<1>10. due' \in [Timers -> Nat] /\ \A h \in Timers : due'[h] <= due[h]
  <2>1. \A h \in Timers : (IF due[h] < past THEN 0 ELSE due[h] - past) \in Nat
                          /\ (IF due[h] < past THEN 0 ELSE due[h] - past) <= due[h]
    <3> HIDE DEF past
    <3> QED
      BY <1>3
  <2>2. due' = [h \in Timers |-> IF due[h] < past THEN 0 ELSE due[h] - past]
    BY <1>1 DEF Passed
  <2> HIDE DEF past
  <2> QED
    BY <2>1, <2>2
<1>11. Covered(new, due', 0)
  <2> SUFFICES ASSUME NEW i \in 1 .. Len(list)
               PROVE  due'[new[i].h] = 0 \/ due'[new[i].h] + 0 <= Expiry(new)[i]
    BY <1>5 DEF Covered
  <2> DEFINE k == list[i].h
             x == Expiry(list)[i]
  <2>1. due[k] = 0 \/ due[k] + w <= x
    BY <1>0 DEF Covered
  <2>2. due'[new[i].h] = IF due[k] < past THEN 0 ELSE due[k] - past
    BY <1>1, <1>2, <1>4, <1>9
  <2>3. Expiry(new)[i] = x - (first - t)
    BY <1>4
  <2>4. due[k] \in Nat /\ x \in Nat
    <3>1. i \in 0 .. Len(list)
      BY <1>0
    <3>2. x \in Nat
      BY <1>0, <3>1, ExpirySums DEF Sums
    <3> QED
      BY <1>2, <3>2
  <2> HIDE DEF k, x, first
  <2>5. CASE w = 0
    BY <1>3, <2>1, <2>2, <2>3, <2>4, <2>5 DEF past
  <2>6. CASE w # 0
    <3>1. spent = w + 1
      BY <2>6 DEF TimeNeeded
    <3> HIDE DEF spent
    <3> QED
      BY <1>3, <2>1, <2>2, <2>3, <2>4, <2>6, <3>1 DEF past
  <2> QED
    BY <2>5, <2>6
<1> QED
  BY <1>1, <1>4, <1>5, <1>6, <1>7, <1>8, <1>10, <1>11 DEF Listed

(* A millisecond passes. *)
LEMMA PassedCovered ==
    ASSUME NEW s \in Int, Listed(timers), due \in [Timers -> Nat], Covered(timers, due, s)
    PROVE  /\ Passed(1) \in [Timers -> Nat]
           /\ \A h \in Timers : Passed(1)[h] <= due[h]
           /\ \A h \in Timers : Passed(1)[h] = 0 \/ Passed(1)[h] + 1 = due[h]
           /\ Covered(timers, Passed(1), s)
           /\ Covered(timers, Passed(1), s + 1)
<1>1. Passed(1) = [h \in Timers |-> IF due[h] < 1 THEN 0 ELSE due[h] - 1]
  BY DEF Passed
<1>2. \A h \in Timers : /\ Passed(1)[h] \in Nat
                        /\ Passed(1)[h] <= due[h]
                        /\ Passed(1)[h] = 0 \/ Passed(1)[h] + 1 = due[h]
  BY <1>1
<1>3. Passed(1) \in [Timers -> Nat]
  BY <1>1, <1>2
<1>4. ASSUME NEW i \in DOMAIN timers
      PROVE  \/ Passed(1)[timers[i].h] = 0
             \/ /\ Passed(1)[timers[i].h] + s <= Expiry(timers)[i]
                /\ Passed(1)[timers[i].h] + (s + 1) <= Expiry(timers)[i]
  <2>0. timers \in Seq(Entry)
    BY DEF Listed
  <2>1. timers[i] \in Entry /\ i \in 0 .. Len(timers)
    BY <2>0
  <2>2. timers[i].h \in Timers
    BY <2>1 DEF Entry
  <2>3. Expiry(timers)[i] \in Nat
    BY <2>0, <2>1, ExpirySums DEF Sums
  <2>4. due[timers[i].h] = 0 \/ due[timers[i].h] + s <= Expiry(timers)[i]
    BY DEF Covered
  <2>5. due[timers[i].h] \in Nat /\ Passed(1)[timers[i].h] \in Nat
    BY <1>2, <2>2
  <2> QED
    BY <1>2, <2>2, <2>3, <2>4, <2>5
<1>5. Covered(timers, Passed(1), s)
  BY <1>4 DEF Covered
<1>6. Covered(timers, Passed(1), s + 1)
  BY <1>4 DEF Covered
<1> QED
  BY <1>2, <1>3, <1>5, <1>6

(* Fewer milliseconds are covered, too. *)
LEMMA CoveredLess ==
    ASSUME NEW list, Listed(list), NEW d \in [Timers -> Nat], NEW s \in Int, NEW r \in Int,
           r <= s, Covered(list, d, s)
    PROVE  Covered(list, d, r)
<1> SUFFICES ASSUME NEW i \in DOMAIN list
             PROVE  d[list[i].h] = 0 \/ d[list[i].h] + r <= Expiry(list)[i]
  BY DEF Covered
<1>0. list \in Seq(Entry)
  BY DEF Listed
<1>1. list[i] \in Entry /\ i \in 0 .. Len(list)
  BY <1>0
<1>2. d[list[i].h] \in Nat
  BY <1>1 DEF Entry
<1>3. Expiry(list)[i] \in Nat
  BY <1>0, <1>1, ExpirySums DEF Sums
<1>4. d[list[i].h] = 0 \/ d[list[i].h] + s <= Expiry(list)[i]
  BY DEF Covered
<1> QED
  BY <1>2, <1>3, <1>4

(* What sys_timeouts_init leaves. *)
LEMMA TimersInitCovered ==
    ASSUME TimersInit
    PROVE  /\ Listed(timers)
           /\ timers # <<>>
           /\ \A h \in Permanent : Has(timers, h)
           /\ Covered(timers, due, 0)
           /\ due \in [Timers -> Nat]
           /\ \A h \in Timers : due[h] <= Interval[h]
<1> DEFINE c == Cardinality(Permanent)
<1>0. c \in Nat
  BY TimersAssumption, FS_CardinalityType
<1> HIDE DEF c
<1>1. PICK order \in [1 .. c -> Permanent] :
          /\ InOrderOfInterval(order)
          /\ timers = [i \in DOMAIN order |->
                 [h    |-> order[i],
                  time |-> Interval[order[i]] - (IF i = 1 THEN 0 ELSE Interval[order[i - 1]])]]
  BY DEF TimersInit, c
<1> DEFINE f == [i \in 0 .. c |-> IF i = 0 THEN 0 ELSE Interval[order[i]]]
<1>2. \A i \in 1 .. c : order[i] \in Timers /\ Interval[order[i]] \in Nat
  BY <1>1, TimersAssumption
<1>3. \A i \in 1 .. c : i # 1 => Interval[order[i - 1]] \in Nat /\ Interval[order[i - 1]] <= Interval[order[i]]
  <2> SUFFICES ASSUME NEW i \in 1 .. c, i # 1
               PROVE  Interval[order[i - 1]] \in Nat /\ Interval[order[i - 1]] <= Interval[order[i]]
    OBVIOUS
  <2>1. i - 1 \in DOMAIN order /\ i \in DOMAIN order /\ i - 1 < i
    BY <1>0, <1>1
  <2> QED
    BY <1>1, <1>2, <2>1 DEF InOrderOfInterval
<1>4. \A i \in 1 .. c : /\ timers[i].h = order[i]
                        /\ timers[i].time = Interval[order[i]] - (IF i = 1 THEN 0 ELSE Interval[order[i - 1]])
                        /\ timers[i].time \in 0 .. Interval[order[i]]
                        /\ timers[i] \in Entry
  <2> TAKE i \in 1 .. c
  <2>1. timers[i] = [h    |-> order[i],
                  time |-> Interval[order[i]] - (IF i = 1 THEN 0 ELSE Interval[order[i - 1]])]
    BY <1>1
  <2>2. Interval[order[i]] - (IF i = 1 THEN 0 ELSE Interval[order[i - 1]]) \in 0 .. Interval[order[i]]
    BY <1>0, <1>2, <1>3
  <2> QED
    BY <1>2, <2>1, <2>2 DEF Entry
<1>5. timers \in Seq(Entry) /\ Len(timers) = c /\ DOMAIN timers = 1 .. c
  <2>1. DOMAIN timers = 1 .. c /\ timers = [i \in 1 .. c |-> timers[i]]
    BY <1>1
  <2>2. timers \in [1 .. c -> Entry]
    BY <1>4, <2>1
  <2> QED
    BY <1>0, <2>1, <2>2
<1>6. Bounded(timers)
  BY <1>4, <1>5 DEF Bounded
<1>7. Distinct(timers)
  <2> SUFFICES ASSUME NEW i \in 1 .. c, NEW j \in 1 .. c, order[i] = order[j] PROVE i = j
    BY <1>4, <1>5 DEF Distinct
  <2>1. ~(i < j) /\ ~(j < i)
    BY <1>1 DEF InOrderOfInterval
  <2> QED
    BY <1>0, <2>1
<1>8. \A h \in Permanent : Has(timers, h)
  <2> TAKE h \in Permanent
  <2>1. PICK i \in 1 .. c : order[i] = h
    BY <1>1 DEF InOrderOfInterval
  <2> QED
    BY <1>4, <1>5, <2>1 DEF Has
<1>9. timers # <<>>
  <2>1. PICK h : h \in Permanent
    BY TimersAssumption
  <2>2. PICK i \in 1 .. c : order[i] = h
    BY <1>1, <2>1 DEF InOrderOfInterval
  <2> QED
    BY <1>0, <1>5, <2>2
<1>10. due = [h \in Timers |-> IF h \in Permanent THEN Interval[h] ELSE 0]
  BY DEF TimersInit
<1>11. due \in [Timers -> Nat] /\ \A h \in Timers : due[h] <= Interval[h]
  <2>1. \A h \in Timers : Interval[h] \in Nat
    BY TimersAssumption
  <2> QED
    BY <1>10, <2>1
<1>12. \A i \in 0 .. Len(timers) : Expiry(timers)[i] = f[i]
  <2>1. f[0] = 0
    BY <1>0
  <2>2. ASSUME NEW i \in 1 .. Len(timers)
        PROVE  f[i] = f[i - 1] + timers[i].time
    <3>0. i \in 1 .. c /\ i \in 0 .. c /\ i - 1 \in 0 .. c
      BY <1>0, <1>5
    <3>1. CASE i = 1
      <4>1. f[i] = Interval[order[i]] /\ f[i - 1] = 0 /\ timers[i].time = Interval[order[i]] - 0
        BY <1>4, <3>0, <3>1
      <4> QED
        BY <1>2, <3>0, <4>1
    <3>2. CASE i # 1
      <4>1. f[i] = Interval[order[i]] /\ f[i - 1] = Interval[order[i - 1]]
            /\ timers[i].time = Interval[order[i]] - Interval[order[i - 1]]
        BY <1>4, <3>0, <3>2
      <4> QED
        BY <1>2, <1>3, <3>0, <3>2, <4>1
    <3> QED
      BY <3>1, <3>2
  <2> HIDE DEF f
  <2> QED
    BY <1>5, <2>1, <2>2, ExpiryUnique
<1>13. Covered(timers, due, 0)
  <2> SUFFICES ASSUME NEW i \in 1 .. c
               PROVE  due[timers[i].h] = 0 \/ due[timers[i].h] + 0 <= Expiry(timers)[i]
    BY <1>5 DEF Covered
  <2>1. Expiry(timers)[i] = Interval[order[i]]
    <3>1. i \in 0 .. Len(timers) /\ i \in 0 .. c /\ i # 0
      BY <1>0, <1>5
    <3> QED
      BY <1>12, <3>1
  <2>2. due[timers[i].h] = Interval[order[i]]
    BY <1>1, <1>2, <1>4, <1>10
  <2> QED
    BY <1>2, <2>1, <2>2
<1> QED
  BY <1>5, <1>6, <1>7, <1>8, <1>9, <1>11, <1>13 DEF Listed
=============================================================================
