-------------------------- MODULE FactoryKey_proofs --------------------------
(***************************************************************************)
(* Proofs about FactoryKey, for every set of thresholds, every width of the  *)
(* clock and every pattern of presses and bounces.                          *)
(***************************************************************************)
EXTENDS FactoryKey, TLAPS

(* While a press is seen as it is, key_task has nothing to do, timeUse holds the time
   of the press, and the key is down once its edge is handled. *)
PressKept ==
    seen = Pressed /\ ~disturbed =>
        /\ keyFlag = 0 /\ pc = "poll"
        /\ timeUse = start % Wrap
        /\ Quiet => level = Pressed

(* After the release it holds the duration. *)
DurationKept == seen = Released /\ ~disturbed => timeUse = held % Wrap

(* What the comparisons of key_task have found when it is at the next one. *)
Found ==
    CASE pc = "le2" -> timeUse > 0
      [] pc = "gt2" -> timeUse = 0 \/ timeUse > Short
      [] pc = "le5" -> timeUse > Short
      [] pc = "gt5" -> timeUse = 0 \/ timeUse > Medium
      [] pc = "lt15" -> timeUse > Medium
      [] pc \in {"flag", "act"} -> keyPres = Class(timeUse)
      [] OTHER -> TRUE

KeyInv ==
    /\ TypeOK
    /\ start <= now
    /\ PressKept
    /\ DurationKept
    /\ seen = Released /\ ~disturbed => Found

-----------------------------------------------------------------------------
(* The clock wraps, the difference of two of its readings does not mind. *)
LEMMA ClockDifference ==
    ASSUME NEW a \in Nat, NEW b \in Nat, a <= b
    PROVE  /\ ((b % Wrap) - (a % Wrap)) % Wrap = (b - a) % Wrap
           /\ b % Wrap \in 0 .. (Wrap - 1)
           /\ b < Wrap => b % Wrap = b
<1>0. Wrap \in Nat \ {0}
  BY TimeAssumption
<1> DEFINE qa == a \div Wrap  ra == a % Wrap
           qb == b \div Wrap  rb == b % Wrap
<1>1. /\ qa \in Int /\ ra \in 0 .. (Wrap - 1) /\ a = Wrap * qa + ra
      /\ qb \in Int /\ rb \in 0 .. (Wrap - 1) /\ b = Wrap * qb + rb
  BY <1>0, Z3
<1>2. (rb - ra) % Wrap = (b - a) % Wrap
  <2>1. \A k \in Int : k >= 1 => Wrap * k >= Wrap
    BY <1>0, Z3
  <2>2. \A k \in Int : k <= -1 => Wrap * k <= -Wrap
    BY <1>0, Z3
  <2>3. \A p, q \in Int : \A r, s \in 0 .. (Wrap - 1) : Wrap * p + r = Wrap * q + s => r = s
    <3> SUFFICES ASSUME NEW p \in Int, NEW q \in Int, NEW r \in 0 .. (Wrap - 1),
                        NEW s \in 0 .. (Wrap - 1), Wrap * p + r = Wrap * q + s
                 PROVE  r = s
      OBVIOUS
    <3>1. Wrap * (p - q) = s - r
      BY <1>0, Z3
    <3>2. p - q = 0 \/ p - q >= 1 \/ p - q <= -1
      OBVIOUS
    <3>3. p - q = 0
      BY <1>0, <2>1, <2>2, <3>1, <3>2
    <3> QED
      BY <1>0, <3>3
  <2> DEFINE q == (rb - ra) \div Wrap  r == (rb - ra) % Wrap
             p == (b - a) \div Wrap  s == (b - a) % Wrap
  <2>4. /\ q \in Int /\ r \in 0 .. (Wrap - 1) /\ rb - ra = Wrap * q + r
        /\ p \in Int /\ s \in 0 .. (Wrap - 1) /\ b - a = Wrap * p + s
    BY <1>0, <1>1, Z3
  <2>5. b - a = Wrap * (q + qb - qa) + r
    <3>1. b - a = (Wrap * qb - Wrap * qa) + (rb - ra)
      BY <1>0, <1>1, Z3
    <3>2. Wrap * (q + qb - qa) = Wrap * q + (Wrap * qb - Wrap * qa)
      BY <1>0, <1>1, <2>4, Z3
    <3> QED
      BY <1>0, <1>1, <2>4, <3>1, <3>2, Z3
  <2>6. q + qb - qa \in Int
    BY <1>1, <2>4
  <2> HIDE DEF q, r, p, s, qa, ra, qb, rb
  <2>7. r = s
    BY <2>3, <2>4, <2>5, <2>6
  <2> QED
    BY <2>7 DEF r, s, ra, rb
<1>3. b < Wrap => b % Wrap = b
  BY <1>0, Z3
<1> QED
  BY <1>1, <1>2, <1>3

LEMMA Thresholds ==
    /\ Short \in Nat /\ Medium \in Nat /\ Long \in Nat /\ Wrap \in Nat
    /\ 0 < Short /\ Short < Medium /\ Medium + 1 < Long /\ Long < Wrap /\ 0 < Wrap
    /\ MaxTime \in Nat /\ MaxMoves \in Nat
BY TimeAssumption, BoundAssumption

LEMMA InitKey == Init => KeyInv
<1> SUFFICES ASSUME Init PROVE KeyInv
  OBVIOUS
<1> USE Thresholds DEF Init, Pressed, Released
<1>1. TypeOK
  <2>1. edge \in BOOLEAN /\ disturbed \in BOOLEAN
    OBVIOUS
  <2>2. now \in 0 .. MaxTime /\ start \in 0 .. MaxTime /\ held \in 0 .. MaxTime /\ moves \in 0 .. MaxMoves
    OBVIOUS
  <2>3. timeUse \in 0 .. (Wrap - 1) /\ keyPres \in 0 .. 3
    OBVIOUS
  <2> QED
    BY <2>1, <2>2, <2>3 DEF TypeOK
<1>2. start <= now /\ PressKept /\ Found
  BY DEF PressKept, Found
<1>3. DurationKept
  <2>1. 0 < Wrap => 0 % Wrap = 0
    BY ClockDifference
  <2> QED
    BY <2>1 DEF DurationKept
<1> QED
  BY <1>1, <1>2, <1>3 DEF KeyInv

LEMMA TypeSteps == TypeOK /\ start <= now /\ Next => TypeOK' /\ start' <= now'
<1> SUFFICES ASSUME TypeOK, start <= now, Next PROVE TypeOK' /\ start' <= now'
  OBVIOUS
<1> USE Thresholds
    DEF TypeOK, Tests, Pressed, Released, isrVars, taskVars, keyVars, ghosts
<1>1. CASE Move
  BY <1>1 DEF Move
<1>2. CASE Tick
  BY <1>2 DEF Tick
<1>3. CASE Interrupt \/ Read \/ Clear
  <2>1. CASE Interrupt
    BY <2>1 DEF Interrupt
  <2>2. CASE Read
    BY <2>2 DEF Read
  <2>3. CASE Clear
    BY <2>3 DEF Clear
  <2> QED
    BY <1>3, <2>1, <2>2, <2>3
<1>4. CASE Down
  BY <1>4, ClockDifference DEF Down, OSTimeGet
<1>5. CASE Up
  <2>1. \A d \in Int : d % Wrap \in 0 .. (Wrap - 1)
    BY Z3
  <2>2. (now % Wrap) - timeUse \in Int
    BY ClockDifference
  <2>3. timeUse' \in 0 .. (Wrap - 1)
    BY <1>5, <2>1, <2>2 DEF Up, OSTimeGet
  <2>4. disturbed' \in BOOLEAN
    BY <1>5 DEF Up
  <2>5. held' \in 0 .. MaxTime
    BY <1>5 DEF Up
  <2> QED
    BY <1>5, <2>3, <2>4, <2>5 DEF Up
<1>6. CASE Poll \/ ClearFlag \/ Act
  <2>1. CASE Poll
    BY <2>1 DEF Poll, Task
  <2>2. CASE ClearFlag
    BY <2>2 DEF ClearFlag, Task
  <2>3. CASE Act
    <3>1. CASE keyPres = 3
      <4>1. /\ timeUse' = 0 /\ keyPres' = 0 /\ keyFlag' = 0 /\ now' = 0 /\ start' = 0 /\ held' = 0
            /\ seen' = Released /\ disturbed' = FALSE /\ UNCHANGED <<level, edge, isr, moves>> /\ pc' = "poll"
        BY <2>3, <3>1 DEF Act
      <4>2. timeUse' \in 0 .. (Wrap - 1) /\ keyPres' \in 0 .. 3 /\ start' <= now'
        BY <4>1
      <4>3. now' \in 0 .. MaxTime /\ start' \in 0 .. MaxTime /\ held' \in 0 .. MaxTime
        BY <4>1
      <4>4. keyFlag' \in {0, 1} /\ seen' \in {Pressed, Released} /\ disturbed' \in BOOLEAN
        BY <4>1
      <4> QED
        BY <4>1, <4>2, <4>3, <4>4
    <3>2. CASE keyPres # 3
      BY <2>3, <3>2 DEF Act
    <3> QED
      BY <3>1, <3>2
  <2> QED
    BY <1>6, <2>1, <2>2, <2>3
<1>7. ASSUME NEW i \in Tests, Classify(i) PROVE TypeOK' /\ start' <= now'
  <2>1. Verdict(i) \in Tests \cup {"none", "short", "medium", "long"}
    BY DEF Verdict
  <2>2. Verdict(i) \notin Tests => ClassNumber[Verdict(i)] \in 0 .. 3
    BY <2>1 DEF ClassNumber
  <2> QED
    BY <1>7, <2>1, <2>2 DEF Classify, Task
<1> QED
  BY <1>1, <1>2, <1>3, <1>4, <1>5, <1>6, <1>7 DEF Next, Isr, KeyTask

(* The user, the clock and the interrupt. *)
LEMMA IsrSteps ==
    ASSUME KeyInv, Move \/ Tick \/ Isr
    PROVE  PressKept' /\ DurationKept' /\ (seen' = Released /\ ~disturbed' => Found')
<1>0. TypeOK /\ start <= now /\ now \in Nat /\ start \in Nat /\ held \in Nat
  BY BoundAssumption DEF KeyInv, TypeOK
<1> USE <1>0 DEF Pressed, Released, Quiet, KeyInv, PressKept, DurationKept, isrVars, taskVars, keyVars, ghosts
<1>1. CASE Move
  <2>1. seen = Pressed /\ ~disturbed => start' = start
    BY <1>1 DEF Move, TypeOK
  <2> QED
    BY <1>1, <2>1 DEF Move, Found
<1>2. CASE Tick \/ Interrupt \/ Read
  BY <1>2 DEF Tick, Interrupt, Read, Found
<1>3. CASE Down
  <2>1. seen' = Pressed /\ isr' = "clear" /\ timeUse' = now % Wrap /\ UNCHANGED <<keyFlag, pc, start>>
    BY <1>3 DEF Down, OSTimeGet
  <2>2. ~disturbed' => keyFlag = 0 /\ pc = "poll" /\ start = now
    BY <1>3 DEF Down, TypeOK
  <2> QED
    BY <2>1, <2>2
<1>4. CASE Up
  <2>1. CASE level = Released /\ seen = Pressed /\ ~disturbed
    <3>1. timeUse' = ((now % Wrap) - (start % Wrap)) % Wrap /\ held' = now - start
      BY <1>4, <2>1 DEF Up, OSTimeGet
    <3>2. timeUse' = held' % Wrap
      BY <3>1, ClockDifference
    <3>3. pc' = "poll" /\ seen' = Released
      BY <1>4, <2>1 DEF Up
    <3> QED
      BY <3>2, <3>3 DEF Found
  <2>2. CASE level = Released /\ (seen = Released \/ disturbed)
    BY <1>4, <2>2 DEF Up, TypeOK
  <2>3. CASE level # Released
    BY <1>4, <2>3 DEF Up, Found
  <2> QED
    BY <2>1, <2>2, <2>3 DEF TypeOK
<1>5. CASE Clear
  BY <1>5 DEF Clear, Found, TypeOK
<1> QED
  BY <1>1, <1>2, <1>3, <1>4, <1>5 DEF Isr

(* key_task, of which the interrupt is over. *)
LEMMA TaskSteps ==
    ASSUME KeyInv, KeyTask
    PROVE  PressKept' /\ DurationKept' /\ (seen' = Released /\ ~disturbed' => Found')
<1>0. TypeOK /\ timeUse \in Nat /\ Short \in Nat /\ Medium \in Nat /\ Long \in Nat
  BY TimeAssumption DEF KeyInv, TypeOK
<1> USE <1>0 DEF Pressed, Released, Quiet, KeyInv, PressKept, DurationKept, isrVars, taskVars, keyVars, ghosts
<1>1. CASE Poll
  BY <1>1 DEF Poll, Task, Found
<1>2. ASSUME NEW i \in Tests, Classify(i)
      PROVE  PressKept' /\ DurationKept' /\ (seen' = Released /\ ~disturbed' => Found')
  <2>1. pc = i /\ UNCHANGED <<timeUse, seen, disturbed, held>>
    BY <1>2 DEF Classify, Task
  <2>2. PressKept'
    BY <1>2, <2>1 DEF Tests
  <2>3. ASSUME seen = Released, ~disturbed PROVE Found'
    <3>1. Found
      BY <2>3
    <3>2. CASE Verdict(i) \in Tests
      <4>1. pc' = Verdict(i)
        BY <1>2, <3>2 DEF Classify
      <4> QED
        BY <2>1, <3>1, <3>2, <4>1 DEF Tests, Verdict, Found
    <3>3. CASE Verdict(i) \notin Tests
      <4>1. pc' = "flag" /\ keyPres' = ClassNumber[Verdict(i)]
        BY <1>2, <3>3 DEF Classify
      <4>2. ClassNumber[Verdict(i)] = Class(timeUse)
        BY <2>1, <3>1, <3>3, TimeAssumption DEF Tests, Verdict, Found, Class, ClassNumber
      <4> QED
        BY <2>1, <4>1, <4>2 DEF Found, Class
    <3> QED
      BY <3>2, <3>3
  <2> QED
    BY <2>1, <2>2, <2>3
<1>3. CASE ClearFlag
  BY <1>3 DEF ClearFlag, Task, Found, Class
<1>4. CASE Act
  <2>1. 0 % Wrap = 0
    BY TimeAssumption, ClockDifference
  <2> QED
    BY <1>4, <2>1 DEF Act, Task, Found
<1> QED
  BY <1>1, <1>2, <1>3, <1>4 DEF KeyTask

LEMMA StepsKey == KeyInv /\ [Next]_vars => KeyInv'
<1> SUFFICES ASSUME KeyInv, [Next]_vars PROVE KeyInv'
  OBVIOUS
<1>1. CASE Next
  BY <1>1, TypeSteps, IsrSteps, TaskSteps DEF Next, KeyInv
<1>2. CASE UNCHANGED vars
  BY <1>2 DEF vars, KeyInv, TypeOK, PressKept, DurationKept, Found, Quiet, Class
<1> QED
  BY <1>1, <1>2

THEOREM KeyInvariance == Spec => []KeyInv
BY InitKey, StepsKey, PTL DEF Spec

(* Type correctness: above all, the duration stays within its word. *)
THEOREM TypeCorrect == Spec => []TypeOK
<1>1. KeyInv => TypeOK
  BY DEF KeyInv
<1> QED
  BY <1>1, KeyInvariance, PTL

(* key_task classifies a press by its true duration (exti.c:35-54, main.c:180-194),
   whatever the thresholds, bounces of the contact and wraps of the clock, if the key
   rests meanwhile. *)
THEOREM ClassCorrect == Spec => []ClassRight
<1>1. KeyInv => ClassRight
  <2> SUFFICES ASSUME KeyInv, pc \in {"flag", "act"}, ~disturbed, held < Wrap
               PROVE  keyPres = Class(held)
    BY DEF ClassRight
  <2>1. seen = Released
    BY DEF KeyInv, PressKept, TypeOK
  <2>2. timeUse = held
    BY <2>1, BoundAssumption, ClockDifference DEF KeyInv, DurationKept, TypeOK
  <2> QED
    BY <2>1, <2>2 DEF KeyInv, Found
<1> QED
  BY <1>1, KeyInvariance, PTL
=============================================================================
