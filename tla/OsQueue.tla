------------------------------ MODULE OsQueue ------------------------------
(***************************************************************************)
(* The message queue of uC/OS-II under a mailbox of lwIP that one task       *)
(* reads: OSQPost, OSQPend, and what a tick does to the task that waits.     *)
(* A message for a waiting task does not pass through the ring; it is        *)
(* handed over in the task's control block.                                  *)
(***************************************************************************)
EXTENDS Naturals, Sequences

CONSTANTS
    QueueSize,      \* OSQSize
    Msg,            \* the messages
    None,           \* no message
    Timeout         \* OSQPend's result OS_ERR_TIMEOUT

ASSUME QueueAssumption == QueueSize \in Nat \ {0} /\ {None, Timeout} \cap Msg = {} /\ None # Timeout

VARIABLES
    q,              \* the queue, and of the task's control block what belongs to it
    got             \* what OSQPend returned; None while the task has nothing in hand

queueVars == <<q, got>>

Slots == 0 .. QueueSize - 1

QueueInit ==
    /\ q = [ring    |-> [i \in Slots |-> None],
            in      |-> 0,          \* OSQIn
            out     |-> 0,          \* OSQOut
            entries |-> 0,          \* OSQEntries
            waits   |-> FALSE,      \* the task is in the wait list (OSEventGrp)
            stat    |-> "ok",       \* its OSTCBStatPend: "ok" or "to"
            dly     |-> 0,          \* its OSTCBDly
            handed  |-> None]       \* its OSTCBMsg
    /\ got = None

After(i) == (i + 1) % QueueSize

-----------------------------------------------------------------------------
\* Mutant: a post does not overrule a timeout that the task has not seen yet.
EventTaskRdy_KeepsStat(m) == [q EXCEPT !.waits = FALSE, !.dly = 0, !.handed = m]

EventTaskRdy(m) == [q EXCEPT !.waits = FALSE, !.dly = 0, !.stat = "ok", !.handed = m]

Insert(m) == [q EXCEPT !.ring[q.in] = m, !.in = After(@), !.entries = @ + 1]

Full == q.entries >= QueueSize

(* sys_mbox_valid looks at the ring only. *)
MboxValid == ~Full

OSQPost(m) ==
    q' = IF q.waits THEN EventTaskRdy(m) ELSE IF Full THEN q ELSE Insert(m)

Extracted == [q EXCEPT !.ring[q.out] = None, !.out = After(@), !.entries = @ - 1]

\* Mutant: the conversion to ticks loses one.
EventTaskWait_Floor(timeout) ==
    [q EXCEPT !.waits = TRUE, !.stat = "ok", !.dly = IF timeout > 1 THEN timeout - 1 ELSE 1]

EventTaskWait(timeout) == [q EXCEPT !.waits = TRUE, !.stat = "ok", !.dly = timeout]

(* OSQPend up to the point where the task runs on or waits... *)
OSQPend(timeout) ==
    IF q.entries > 0
      THEN q' = Extracted /\ got' = q.ring[q.out]
      ELSE q' = EventTaskWait(timeout) /\ UNCHANGED got

Ready == ~q.waits \/ q.stat = "to"

(* ... and from there on, once it is ready and runs. *)
OSQPended ==
    /\ Ready
    /\ got' = IF q.stat = "ok" THEN q.handed ELSE Timeout
    /\ q' = [q EXCEPT !.waits = FALSE, !.stat = "ok", !.handed = None]

(* OSTimeTick for the task. *)
OSTimeTick ==
    q' = IF q.dly = 0 THEN q
         ELSE [q EXCEPT !.dly = @ - 1, !.stat = IF q.dly = 1 THEN "to" ELSE @]

-----------------------------------------------------------------------------
QueueTypeOK ==
    /\ q \in [ring : [Slots -> Msg \cup {None}], in : Slots, out : Slots,
              entries : 0 .. QueueSize, waits : BOOLEAN, stat : {"ok", "to"},
              dly : Nat, handed : Msg \cup {None}]
    /\ got \in Msg \cup {None, Timeout}

(* The messages of the queue in order: the one handed over is older than the ring's. *)
Contents ==
    (IF q.handed = None THEN <<>> ELSE <<q.handed>>)
      \o [i \in 1 .. q.entries |-> q.ring[(q.out + i - 1) % QueueSize]]

Abstract == INSTANCE Mailbox WITH Capacity <- QueueSize + 1, box <- Contents

(* The queue is a mailbox: nothing overtakes, nothing is lost or taken twice, and the
   task does not see a timeout when a message has been given to it, although a tick
   may have made it ready already (os_core.c:966-970, OS_EventTaskRdy). *)
Fifo == Abstract!Fifo
=============================================================================
