----------------------------- MODULE LwipTimers -----------------------------
(***************************************************************************)
(* The list of lwIP's timers: in order of expiry, each with the time that    *)
(* is left after the one before it (next_timeout).                           *)
(***************************************************************************)
EXTENDS Integers, Sequences, FiniteSets, Functions

CONSTANTS
    Timers,         \* the handlers
    Interval,       \* after how many milliseconds each is to be called
    Permanent       \* the handlers that arm themselves again whenever they are called

ASSUME TimersAssumption ==
    /\ Interval \in [Timers -> Nat \ {0}]
    /\ Permanent \subseteq Timers /\ Permanent # {} /\ IsFiniteSet(Permanent)

VARIABLES
    timers,         \* next_timeout, first element first
    due             \* ghost: what is left of each armed timer's interval

timerVars == <<timers, due>>

Armed(h) == \E i \in DOMAIN timers : timers[i].h = h

(* When the elements of the list expire, by their number; 0 stands for now. *)
Expiry(list) ==
    LET sum[n \in 0 .. Len(list)] == IF n = 0 THEN 0 ELSE sum[n - 1] + list[n].time
    IN  sum

(* sys_timeout: the new element goes behind all that expire no later. *)
Place(list, h) ==
    CHOOSE n \in 0 .. Len(list) :
        /\ Expiry(list)[n] <= Interval[h]
        /\ n < Len(list) => Expiry(list)[n + 1] > Interval[h]

SysTimeout(list, h) ==
    LET n == Place(list, h)
        e == [h |-> h, time |-> Interval[h] - Expiry(list)[n]]
    IN  [i \in 1 .. Len(list) + 1 |->
            CASE i <= n     -> list[i]
              [] i = n + 1  -> e
              [] i = n + 2  -> [list[i - 1] EXCEPT !.time = @ - e.time]
              [] OTHER      -> list[i - 1]]

(* sys_timeouts_init: a call of sys_timeout for each, at the same moment, leaves them
   in the order of their intervals. *)
InOrderOfInterval(order) ==
    /\ \A h \in Permanent : \E i \in DOMAIN order : order[i] = h
    /\ \A i, j \in DOMAIN order : i < j => /\ order[i] # order[j]
                                          /\ Interval[order[i]] <= Interval[order[j]]

TimersInit ==
    /\ \E order \in [1 .. Cardinality(Permanent) -> Permanent] :
          /\ InOrderOfInterval(order)
          /\ timers = [i \in DOMAIN order |->
                 [h    |-> order[i],
                  time |-> Interval[order[i]] - (IF i = 1 THEN 0 ELSE Interval[order[i - 1]])]]
    /\ due = [h \in Timers |-> IF h \in Permanent THEN Interval[h] ELSE 0]

Passed(n) == [h \in Timers |-> IF due[h] < n THEN 0 ELSE due[h] - n]

(* tcp_timer_needed: a timer that is off and needed is armed. *)
TimerNeeded(h) ==
    /\ ~Armed(h)
    /\ timers' = SysTimeout(timers, h)
    /\ due' = [due EXCEPT ![h] = Interval[h]]

(* The first timer is taken from the list and its handler called: it arms the timer
   again, tcpip_tcp_timer only if there are still connections. *)
CallHandler ==
    LET h == Head(timers).h IN
    \/ /\ timers' = SysTimeout(Tail(timers), h)
       /\ due' = [due EXCEPT ![h] = Interval[h]]
    \/ /\ h \notin Permanent
       /\ timers' = Tail(timers)
       /\ UNCHANGED due

(* sys_arch_mbox_fetch's result for a wait of so many ticks: the wait and one, but for
   no tick 0xffffffff, which as milliseconds and with the one is 4294967. *)
TimeNeeded(waited) == IF waited > 0 THEN waited + 1 ELSE 4294967

\* Mutant: the time spent waiting for a message is not taken off.
MessageFetched_Waits(waited) ==
    /\ due' = Passed(1)
    /\ UNCHANGED timers

(* sys_timeouts_mbox_fetch, when a message has come after so many ticks. *)
MessageFetched(waited) ==
    LET first == Head(timers).time
        spent == TimeNeeded(waited)
    IN  /\ timers' = [timers EXCEPT ![1].time = IF spent < first THEN first - spent ELSE 0]
        /\ due' = Passed(IF waited = 0 THEN first ELSE 1)

TimersTypeOK ==
    /\ timers \in Seq([h : Timers, time : Nat])
    /\ \A i \in DOMAIN timers : timers[i].time <= Interval[timers[i].h]
    /\ due \in [Timers -> Nat]
    /\ \A h \in Timers : due[h] <= Interval[h]
=============================================================================
