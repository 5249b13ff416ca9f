----------------------------- MODULE FactoryKey -----------------------------
(***************************************************************************)
(* The application key: the interrupt of its two edges (exti.c), which keeps *)
(* in one word, timeUse, first the time of the press and then its duration,  *)
(* and key_task (main.c), which polls keyFlag, classifies the duration and   *)
(* restores the factory settings after a press of 5 to 15 s.                *)
(*                                                                          *)
(* timeUse is not volatile and key_task reads it for every comparison (or,   *)
(* if the compiler keeps it in a register, once): the interrupt may come     *)
(* between any two reads.  No tick is served while the interrupt runs, and   *)
(* it runs within milliseconds, a unit of time here being longer.           *)
(***************************************************************************)
EXTENDS Integers

CONSTANTS
    Short, Medium, Long,    \* 2000, 5000 and 15000 ms
    Wrap,                   \* 2^32, the range of OSTimeGet and timeUse
    MaxTime,                \* bound: time since the last start
    MaxMoves                \* bound: presses and releases

ASSUME TimeAssumption == /\ {Short, Medium, Long, Wrap} \subseteq Nat
                         /\ 0 < Short /\ Short < Medium /\ Medium + 1 < Long
                         /\ Long < Wrap
ASSUME BoundAssumption == MaxTime \in Nat /\ MaxMoves \in Nat

VARIABLES
    now,        \* time since the last start
    level,      \* what PG6 reads: 0 is pressed
    edge,       \* the pending bit of EXTI line 6
    isr,        \* where the interrupt handler is
    timeUse,    \* its global
    keyFlag,    \* its global: the key was released
    pc,         \* where key_task is
    keyPres,    \* the class it found
    start,      \* ghost: time of the last press
    held,       \* ghost: duration of the press whose release was last seen
    seen,       \* ghost: what the handler last took the key for
    disturbed,  \* ghost: the last press was not seen as it was
    moves

isrVars == <<edge, isr, timeUse>>
taskVars == <<pc, keyPres>>
keyVars == <<level, start, held, moves>>
ghosts == <<seen, disturbed>>
vars == <<now, level, edge, isr, timeUse, keyFlag, pc, keyPres, start, held,
          seen, disturbed, moves>>

Pressed == 0
Released == 1
Tests == {"gt0", "le2", "gt2", "le5", "gt5", "lt15"}   \* comparisons of key_task

OSTimeGet == now % Wrap

\* A key held through a restart is not known to be pressed.
Init ==
    /\ level \in {Pressed, Released}
    /\ now = 0 /\ start = 0 /\ held = 0 /\ moves = 0
    /\ edge = FALSE /\ isr = "off"
    /\ timeUse = 0 /\ keyFlag = 0
    /\ pc = "poll" /\ keyPres = 0
    /\ seen = Released /\ disturbed = FALSE

-----------------------------------------------------------------------------
(* The user and the clock *)

(* The key changes: a change while the last one is still being handled is the
   contact bouncing, and no press of its own. *)
Move ==
    /\ moves < MaxMoves
    /\ moves' = moves + 1
    /\ level' = 1 - level
    /\ edge' = TRUE
    /\ start' = IF level' = Pressed /\ isr = "off" /\ ~edge THEN now ELSE start
    /\ UNCHANGED <<now, isr, timeUse, keyFlag, taskVars, held, ghosts>>

\* SysTick has the lowest priority: it waits for the handler.
Tick ==
    /\ now < MaxTime
    /\ ~edge /\ isr = "off"
    /\ now' = now + 1
    /\ UNCHANGED <<isrVars, keyFlag, taskVars, keyVars, ghosts>>

-----------------------------------------------------------------------------
(* EXTI9_5_IRQHandler *)

(* HAL_GPIO_EXTI_IRQHandler clears the pending bit and calls the callback, which
   waits 10 ms for the contact to settle. *)
Interrupt ==
    /\ isr = "off" /\ edge
    /\ edge' = FALSE
    /\ isr' = "debounce"
    /\ UNCHANGED <<now, timeUse, keyFlag, taskVars, keyVars, ghosts>>

\* The first reading of PG6; the second one follows only if it reads 1.
Read ==
    /\ isr = "debounce"
    /\ isr' = IF level = Pressed THEN "down" ELSE "up"
    /\ UNCHANGED <<now, edge, timeUse, keyFlag, taskVars, keyVars, ghosts>>

\* A press is seen as it is unless a release is still waiting for key_task.
Down ==
    /\ isr = "down"
    /\ timeUse' = OSTimeGet
    /\ seen' = Pressed
    /\ disturbed' = (keyFlag = 1 \/ pc # "poll" \/ start # now)
    /\ isr' = "clear"
    /\ UNCHANGED <<now, edge, keyFlag, taskVars, keyVars>>

\* Mutant: a signed difference, as if the clock did not wrap.
Up_NoWrap ==
    /\ isr = "up"
    /\ IF level = Released
         THEN /\ timeUse' = IF OSTimeGet >= timeUse THEN OSTimeGet - timeUse ELSE 0
              /\ keyFlag' = 1
              /\ held' = now - start
              /\ seen' = Released
              /\ disturbed' = (disturbed \/ seen = Released)
         ELSE UNCHANGED <<timeUse, keyFlag, held, ghosts>>
    /\ isr' = "clear"
    /\ UNCHANGED <<now, edge, taskVars, level, start, moves>>

Up ==
    /\ isr = "up"
    /\ IF level = Released
         THEN /\ timeUse' = (OSTimeGet - timeUse) % Wrap
              /\ keyFlag' = 1
              /\ held' = now - start
              /\ seen' = Released
              /\ disturbed' = (disturbed \/ seen = Released)
         ELSE UNCHANGED <<timeUse, keyFlag, held, ghosts>>
    /\ isr' = "clear"
    /\ UNCHANGED <<now, edge, taskVars, level, start, moves>>

(* __HAL_GPIO_EXTI_CLEAR_IT at the end of the callback: edges that came while it
   ran are dropped, which is right for bounces only. *)
Clear ==
    /\ isr = "clear"
    /\ edge' = FALSE
    /\ disturbed' = (disturbed \/ level # seen)
    /\ isr' = "off"
    /\ UNCHANGED <<now, timeUse, keyFlag, taskVars, keyVars, seen>>

Isr == Interrupt \/ Read \/ Down \/ Up \/ Clear

-----------------------------------------------------------------------------
(* key_task *)

Task(label) == isr = "off" /\ ~edge /\ pc = label

(* if(keyFlag==1), every 500 ms *)
Poll ==
    /\ Task("poll")
    /\ pc' = IF keyFlag = 1 THEN "gt0" ELSE "poll"
    /\ UNCHANGED <<now, isrVars, keyFlag, keyPres, keyVars, ghosts>>

\* Mutant: the last comparison is turned round.
Verdict_Above(i) ==
    CASE i = "gt0" -> IF timeUse > 0 THEN "le2" ELSE "gt2"
      [] i = "le2" -> IF timeUse <= Short THEN "short" ELSE "gt2"
      [] i = "gt2" -> IF timeUse > Short THEN "le5" ELSE "gt5"
      [] i = "le5" -> IF timeUse <= Medium THEN "medium" ELSE "gt5"
      [] i = "gt5" -> IF timeUse > Medium THEN "lt15" ELSE "none"
      [] i = "lt15" -> IF timeUse > Long THEN "long" ELSE "none"

(* The comparisons of the if ... else if chain, each with a reading of timeUse of
   its own: the next comparison, or the class. *)
Verdict(i) ==
    CASE i = "gt0" -> IF timeUse > 0 THEN "le2" ELSE "gt2"
      [] i = "le2" -> IF timeUse <= Short THEN "short" ELSE "gt2"
      [] i = "gt2" -> IF timeUse > Short THEN "le5" ELSE "gt5"
      [] i = "le5" -> IF timeUse <= Medium THEN "medium" ELSE "gt5"
      [] i = "gt5" -> IF timeUse > Medium THEN "lt15" ELSE "none"
      [] i = "lt15" -> IF timeUse < Long THEN "long" ELSE "none"

ClassNumber == [none |-> 0, short |-> 1, medium |-> 2, long |-> 3]

Classify(i) ==
    /\ Task(i)
    /\ IF Verdict(i) \in Tests
         THEN pc' = Verdict(i) /\ keyPres' = keyPres
         ELSE pc' = "flag" /\ keyPres' = ClassNumber[Verdict(i)]
    /\ UNCHANGED <<now, isrVars, keyFlag, keyVars, ghosts>>

(* keyFlag=0, whatever happened since it was read *)
ClearFlag ==
    /\ Task("flag")
    /\ keyFlag' = 0
    /\ pc' = "act"
    /\ UNCHANGED <<now, isrVars, keyPres, keyVars, ghosts>>

\* keyPres==3: the defaults are written (ParamStore) and the controller restarts.
Act ==
    /\ Task("act")
    /\ pc' = "poll"
    /\ IF keyPres = 3
         THEN /\ timeUse' = 0 /\ keyPres' = 0
              /\ keyFlag' = 0
              /\ now' = 0 /\ start' = 0 /\ held' = 0
              /\ seen' = Released /\ disturbed' = FALSE
              /\ UNCHANGED <<level, edge, isr, moves>>
         ELSE UNCHANGED <<now, isrVars, keyFlag, keyPres, keyVars, ghosts>>

KeyTask == Poll \/ (\E i \in Tests : Classify(i)) \/ ClearFlag \/ Act

Next == Move \/ Tick \/ Isr \/ KeyTask

Spec == Init /\ [][Next]_vars /\ WF_vars(Isr) /\ WF_vars(KeyTask)

-----------------------------------------------------------------------------
(* Properties *)

(* Every variable has its type: a duration fits its word whatever the clock does. *)
TypeOK ==
    /\ now \in 0 .. MaxTime
    /\ level \in {Pressed, Released}
    /\ edge \in BOOLEAN
    /\ isr \in {"off", "debounce", "up", "down", "clear"}
    /\ timeUse \in 0 .. (Wrap - 1)
    /\ keyFlag \in {0, 1}
    /\ pc \in {"poll", "flag", "act"} \cup Tests
    /\ keyPres \in 0 .. 3
    /\ start \in 0 .. MaxTime
    /\ held \in 0 .. MaxTime
    /\ seen \in {Pressed, Released}
    /\ disturbed \in BOOLEAN
    /\ moves \in 0 .. MaxMoves

\* main.c:76: up to 2 s, to 5 s, below 15 s, anything else.
Class(duration) ==
    IF duration \in 1 .. Short THEN 1
    ELSE IF duration \in (Short + 1) .. Medium THEN 2
    ELSE IF duration \in (Medium + 1) .. (Long - 1) THEN 3
    ELSE 0

Quiet == isr = "off" /\ ~edge

(* key_task finds the class of the time the key was really down, over bounces of
   the contact and over the wrap of the clock, if no new press came before it had
   looked at the last one (exti.c:35-54, main.c:180-194). *)
ClassRight ==
    (pc \in {"flag", "act"} /\ Quiet /\ ~disturbed /\ held < Wrap)
        => keyPres = Class(held)

(* A press of more than 5 and less than 15 s ends in the factory reset unless the
   key is pressed again first (main.c:186-201). *)
LongPressActs ==
    (Quiet /\ keyFlag = 1 /\ ~disturbed /\ Class(held) = 3)
        ~> ((pc = "act" /\ keyPres = 3) \/ disturbed)
=============================================================================
