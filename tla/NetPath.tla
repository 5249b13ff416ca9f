------------------------------ MODULE NetPath ------------------------------
(***************************************************************************)
(* The way of a frame and of a call into lwIP, and back to the wire: the     *)
(* receive interrupt over the rings of the Ethernet DMA, the mailbox of the  *)
(* tcpip thread, the thread with its timers, the one task that calls lwIP.   *)
(*                                                                          *)
(* The Ethernet interrupt has the highest priority: tasks and ticks go on    *)
(* only when none is pending.  The DMA goes on all the time.                 *)
(***************************************************************************)
EXTENDS OsQueue, EthDma, LwipTimers

CONSTANTS
    Inpkt,          \* the elements of the pool MEMP_TCPIP_MSG_INPKT
    Api,            \* the message of the server's call
    Pbufs           \* frames PBUF_POOL has room for (a full one takes three pbufs)

ASSUME PathAssumption ==
    /\ Msg = Inpkt \cup {Api} /\ Api \notin Inpkt /\ IsFiniteSet(Inpkt)
    /\ Pbufs \in Nat

VARIABLES
    isr,            \* where ETH_IRQHandler is; "idle" when it is not running
    quiet,          \* ghost: a frame came after the last test and before the clearing
    free,           \* elements of Inpkt that are free
    pbufs,          \* pbufs that are free
    kept,           \* frames lwIP keeps for the server
    pc,             \* where tcpip_thread is
    waited,         \* in a fetch, the ticks since it read the time
    server          \* the server task: "runs", its "call" is in the mailbox, or the
                    \* call has been carried out and "waits" to be answered

pathVars == <<isr, quiet, free, pbufs, kept, pc, waited, server>>
vars == <<queueVars, dmaVars, timerVars, pathVars>>

Init ==
    /\ QueueInit /\ DmaInit /\ TimersInit
    /\ isr = "idle" /\ quiet = FALSE
    /\ free = Inpkt /\ pbufs = Pbufs /\ kept = 0
    /\ pc = "fetch" /\ waited = 0
    /\ server = "runs"

Saturated(n) == IF \A h \in Timers : n > Interval[h] THEN n - 1 ELSE n

-----------------------------------------------------------------------------
(* The Ethernet DMA.                                                         *)

Arrive ==
    /\ rx' = Arrived
    /\ quiet' = (quiet \/ (isr = "clear" /\ rx.own[rx.at]))
    /\ UNCHANGED <<queueVars, tx, timerVars, isr, free, pbufs, kept, pc, waited, server>>

Send == Transmit /\ UNCHANGED <<queueVars, rx, timerVars, pathVars>>

-----------------------------------------------------------------------------
(* ETH_IRQHandler.  low_level_output masks it between TransmitFrame's steps. *)

IrqEnter ==
    /\ isr = "idle" /\ rx.rs /\ pc # "poll"
    /\ isr' = "test"
    /\ quiet' = FALSE
    /\ UNCHANGED <<queueVars, dmaVars, timerVars, free, pbufs, kept, pc, waited, server>>

\* Mutant: a frame lwIP refuses keeps its pbuf.
TcpipInput_Leaks ==
    IF MboxValid /\ free # {}
      THEN LET m == CHOOSE m \in free : TRUE
           IN  OSQPost(m) /\ free' = free \ {m} /\ pbufs' = pbufs - 1
      ELSE UNCHANGED <<q, free>> /\ pbufs' = pbufs - 1

(* tcpip_input of a frame in a pbuf; ethernetif_input frees the pbuf when it fails. *)
TcpipInput ==
    IF MboxValid /\ free # {}
      THEN LET m == CHOOSE m \in free : TRUE
           IN  OSQPost(m) /\ free' = free \ {m} /\ pbufs' = pbufs - 1
      ELSE UNCHANGED <<q, free, pbufs>>

(* A turn of the loop: ethernetif_input. *)
IrqTake ==
    /\ isr = "test" /\ FrameWaits
    /\ rx' = LowLevelInput
    /\ IF pbufs = 0 THEN UNCHANGED <<q, free, pbufs>> ELSE TcpipInput
    /\ UNCHANGED <<got, tx, timerVars, isr, quiet, kept, pc, waited, server>>

\* Mutant: one frame per interrupt, an if in place of the while.
IrqDone_AfterOne ==
    /\ isr = "test"
    /\ isr' = "clear"
    /\ UNCHANGED <<queueVars, dmaVars, timerVars, quiet, free, pbufs, kept, pc, waited, server>>

IrqDone ==
    /\ isr = "test" /\ ~FrameWaits
    /\ isr' = "clear"
    /\ UNCHANGED <<queueVars, dmaVars, timerVars, quiet, free, pbufs, kept, pc, waited, server>>

(* The two flags are cleared one after the other; a frame in between is as late. *)
IrqClear ==
    /\ isr = "clear"
    /\ rx' = ClearFlag
    /\ isr' = "idle"
    /\ UNCHANGED <<queueVars, tx, timerVars, quiet, free, pbufs, kept, pc, waited, server>>

Irq == IrqEnter \/ IrqTake \/ IrqDone \/ IrqClear

-----------------------------------------------------------------------------
(* tcpip_thread: sys_timeouts_mbox_fetch, and what is done with a message.   *)

NoIrq == isr = "idle" /\ ~rx.rs

(* A timer whose time is over is called without a look into the mailbox; else
   sys_arch_mbox_fetch reads the time, ... *)
Fetch ==
    /\ pc = "fetch"
    /\ pc' = IF Head(timers).time > 0 THEN "pend" ELSE "timer"
    /\ UNCHANGED <<queueVars, dmaVars, timerVars, isr, quiet, free, pbufs, kept, waited, server>>

(* ... waits in OSQPend for at most the time of the first timer ... *)
Pend ==
    /\ pc = "pend"
    /\ OSQPend(Head(timers).time)
    /\ IF got' = None
         THEN pc' = "wait" /\ UNCHANGED timerVars
         ELSE pc' = "message" /\ MessageFetched(waited)
    /\ waited' = IF pc' = "wait" THEN waited ELSE 0
    /\ UNCHANGED <<dmaVars, isr, quiet, free, pbufs, kept, server>>

(* ... and returns. *)
Pended ==
    /\ pc = "wait"
    /\ OSQPended
    /\ IF got' = Timeout
         THEN pc' = "timer" /\ UNCHANGED timerVars
         ELSE pc' = "message" /\ MessageFetched(waited)
    /\ waited' = 0
    /\ UNCHANGED <<dmaVars, isr, quiet, free, pbufs, kept, server>>

(* Whatever the thread does, it may send a frame at the end of it. *)
Then == pc' \in {"output", "fetch"} /\ got' = None

TimersOn ==
    \/ UNCHANGED timerVars
    \/ \E h \in Timers \ Permanent : TimerNeeded(h)

(* sent_tcp, poll_tcp or err_tcp: a write or close that had to wait may come to its
   end, and the caller is signalled. *)
MayAnswer == server' = server \/ (server = "waits" /\ server' = "runs")

(* TCPIP_MSG_INPKT: lwIP is done with the frame, or keeps it for the server. *)
Input ==
    /\ pc = "message" /\ got \in Inpkt
    /\ free' = free \cup {got}
    /\ \/ pbufs' = pbufs + 1 /\ UNCHANGED kept
       \/ kept' = kept + 1 /\ UNCHANGED pbufs
    /\ TimersOn /\ Then /\ MayAnswer
    /\ UNCHANGED <<q, dmaVars, isr, quiet, waited>>

(* TCPIP_MSG_API: the call is carried out, and the caller signalled unless do_write or
   do_close has to wait for room or memory: then nothing is signalled yet. *)
Call ==
    /\ pc = "message" /\ got = Api
    /\ server' \in {"runs", "waits"}
    /\ TimersOn /\ Then
    /\ UNCHANGED <<q, dmaVars, isr, quiet, free, pbufs, kept, waited>>

(* The timer of TCP (the only one that is not permanent) may answer a call. *)
Timer ==
    /\ pc = "timer"
    /\ CallHandler /\ Then
    /\ IF Head(timers).h \in Permanent THEN UNCHANGED server ELSE MayAnswer
    /\ UNCHANGED <<q, dmaVars, isr, quiet, free, pbufs, kept, waited>>

(* low_level_output: without a descriptor the frame is dropped. *)
Output ==
    /\ pc = "output"
    /\ IF TxFree THEN tx' = TransmitFrame /\ pc' = "poll"
                 ELSE pc' = "fetch" /\ UNCHANGED tx
    /\ UNCHANGED <<queueVars, rx, timerVars, isr, quiet, free, pbufs, kept, waited, server>>

Poll ==
    /\ pc = "poll" /\ isr = "idle"
    /\ tx' = PollDemand
    /\ pc' = "fetch"
    /\ UNCHANGED <<queueVars, rx, timerVars, isr, quiet, free, pbufs, kept, waited, server>>

Thread ==
    \/ Poll
    \/ NoIrq /\ (Fetch \/ Pend \/ Pended \/ Input \/ Call \/ Timer \/ Output)

-----------------------------------------------------------------------------
(* The server task runs while the thread waits; the tick.                    *)

ThreadWaits == pc = "wait" /\ ~Ready

(* tcpip_apimsg: the message is posted and the semaphore waited for. *)
ApiMsg ==
    /\ NoIrq /\ ThreadWaits
    /\ server = "runs" /\ MboxValid
    /\ OSQPost(Api)
    /\ server' = "call"
    /\ UNCHANGED <<got, dmaVars, timerVars, isr, quiet, free, pbufs, kept, pc, waited>>

(* The server has done with what lwIP kept for it (netbuf_delete). *)
Release ==
    /\ NoIrq /\ ThreadWaits
    /\ server = "runs" /\ kept > 0
    /\ kept' = kept - 1 /\ pbufs' = pbufs + 1
    /\ UNCHANGED <<queueVars, dmaVars, timerVars, isr, quiet, free, pc, waited, server>>

(* SysTick_Handler. *)
Tick ==
    /\ NoIrq /\ pc # "poll"
    /\ OSTimeTick
    /\ due' = Passed(1)
    /\ waited' = IF pc \in {"pend", "wait"} THEN Saturated(waited + 1) ELSE waited
    /\ UNCHANGED <<got, dmaVars, timers, isr, quiet, free, pbufs, kept, pc, server>>

Next == Arrive \/ Send \/ Irq \/ Thread \/ ApiMsg \/ Release \/ Tick

(* Time passes, the DMA sends, and the thread has the highest priority of the tasks:
   whenever interrupts leave them time again and again, it goes on. *)
Spec ==
    /\ Init /\ [][Next]_vars
    /\ WF_vars(Send) /\ WF_vars(Irq) /\ SF_vars(Thread) /\ SF_vars(Tick)

-----------------------------------------------------------------------------
(* Every element of a pool is where it should be: an input message is free, in the
   mailbox or in the thread's hand; a pbuf is free, with such a message, or kept for
   the server (pbuf_alloc and memp_malloc may fail at every frame); the server's call
   has one message, and the mailbox is empty when the server looks whether it is
   valid, which is why tcpip_apimsg never gives up and sys_mbox_post never spins. *)
PoolsAccounted ==
    LET used == Inpkt \ free
        box  == Contents \o (IF got \in Msg THEN <<got>> ELSE <<>>)
    IN  /\ QueueTypeOK /\ DmaTypeOK /\ TimersTypeOK
        /\ Range(box) = used \cup (IF server = "call" THEN {Api} ELSE {})
        /\ Len(box) = Cardinality(Range(box))
        /\ pbufs + kept + Cardinality(used) = Pbufs
        /\ ThreadWaits => q.entries = 0

(* The rings stay in order, and whoever has work in them has been told: a frame waits
   without an interrupt only if it came between the last test of ETH_IRQHandler and
   the clearing of its flags; RBUS stays set only while there is no descriptor; and
   the sending DMA stands still before a frame only until low_level_output has
   written DMATPDR. *)
RingsAwake ==
    /\ InOrder
    /\ FrameWaits => rx.rs \/ isr = "test" \/ quiet
    /\ rx.rbus => Held = RxBufs
    /\ tx.tbus /\ tx.own[tx.at] => pc = "poll"

(* No timer is called before its interval is over by the tick, except that each
   message counts a millisecond and one fetched in the tick the wait began in makes
   up all that is left of the first timer (timers.c:257, sys_arch.c:138). *)
TimerNotEarly == pc = "timer" => due[Head(timers).h] = 0

(* The thread serves all of its sources: no call stays in the mailbox, whatever frames
   and timers come, and a permanent timer is called again and again, whatever messages
   come, unless frames come so fast that the loop of ETH_IRQHandler never ends.  When
   a call that has been carried out is answered is the business of the connection: a
   write behind a closed window never is (see NetconnServer). *)
ThreadServes ==
    []<>NoIrq =>
        /\ []<>(server # "call")
        /\ \A h \in Permanent : []<>(due[h] = Interval[h])
=============================================================================
