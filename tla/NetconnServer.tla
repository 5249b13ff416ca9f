--------------------------- MODULE NetconnServer ---------------------------
(***************************************************************************)
(* tcp_server_thread as a server of connections: the netconn calls it makes *)
(* (api_lib.c), the message handlers that carry them out in the tcpip       *)
(* thread (api_msg.c), the callbacks by which the TCP core reports data, end *)
(* of stream, resets and timeouts, the mailboxes of sys_arch.c, the pools   *)
(* the calls draw from, the clients, and the watchdog.                      *)
(*                                                                          *)
(* What a frame is does not matter here (see FramePipeline): it is a series *)
(* of writes.  A command is a number, the NULL message of a mailbox is 0.   *)
(* Results other than the fatal ones (ERR_TIMEOUT, ERR_MEM) change nothing  *)
(* when they are stored in last_err and are written ERR_OK there.           *)
(***************************************************************************)
EXTENDS Integers, Sequences, FiniteSets

CONSTANTS
    Conns,          \* netconns left for clients (MEMP_NUM_NETCONN less the listener)
    Queues,         \* OS queues left for recvmboxes (OS_MAX_QS less two)
    BoxSize,        \* MAX_QUEUE_ENTRIES, the messages a mailbox holds
    Netbufs,        \* MEMP_NUM_NETBUF
    Writes,         \* bound: netconn_write calls of one frame
    BusyLimit,      \* turns of the serving loop without a pause the watchdog bears
    MaxClients,     \* bound: connections made in a behaviour
    MaxSends,       \* bound: commands a client sends on a connection
    ClientStalls    \* a client may stop reading for good, its window closed

ASSUME PoolAssumption == /\ Queues \in Nat /\ BoxSize \in Nat \ {0}
                         /\ Netbufs \in Nat /\ Writes \in Nat \ {0}
ASSUME BoundAssumption == /\ BusyLimit \in Nat \ {0}
                          /\ MaxClients \in Nat /\ MaxSends \in Nat
                          /\ ClientStalls \in BOOLEAN
ASSUME ConnAssumption == IsFiniteSet(Conns)

Fatal == {"ERR_RST", "ERR_ABRT", "ERR_CLSD"}    \* ERR_IS_FATAL, of those that occur
Closed == {"ERR_CLSD", "ERR_RST"}               \* the results tcp_server_thread tests
NULL == 0
None == [used |-> FALSE, pcb |-> FALSE, last_err |-> "ERR_OK", mbox |-> FALSE,
         box |-> <<>>]
NoPeer == [side |-> "none", sent |-> 0, obeyed |-> 0, dropped |-> FALSE,
           unheard |-> FALSE, shut |-> FALSE]

VARIABLES
    nc,             \* the netconns: pool slot, pcb, last_err, recvmbox
    peer,           \* the client at the other end of each, and its commands
    acceptmbox,     \* connections the listener has not accepted yet
    netbufs,        \* free netbufs
    queues,         \* free OS queues
    pc,             \* where tcp_server_thread is
    cur,            \* newconn
    err,            \* its local err
    left,           \* writes of the frame still to do
    busy,           \* turns of the serving loop since the thread last blocked
    clients         \* connections made so far (bound)

vars == <<nc, peer, acceptmbox, netbufs, queues, pc, cur, err, left, busy, clients>>

Labels == {"accept", "serve", "send", "send_wait", "recv", "pend", "late", "obey",
           "ack", "ack_wait", "close", "closing", "delete"}
Sides == {"none", "open", "fin", "gone", "owed"}

Results == {"ERR_OK"} \cup Fatal
Netconn == [used : BOOLEAN, pcb : BOOLEAN, last_err : Results, mbox : BOOLEAN,
            box : Seq(Nat)]
Peer == [side : Sides, sent : Nat, obeyed : Nat, dropped : BOOLEAN, unheard : BOOLEAN,
         shut : BOOLEAN]

TypeOK ==
    /\ nc \in [Conns -> Netconn]
    /\ \A c \in Conns : Len(nc[c].box) <= BoxSize
    /\ peer \in [Conns -> Peer]
    /\ acceptmbox \in Seq(Conns)
    /\ netbufs \in 0 .. Netbufs
    /\ queues \in 0 .. Queues
    /\ pc \in Labels
    /\ cur \in Conns
    /\ err \in Results
    /\ left \in 0 .. Writes
    /\ busy \in 0 .. BusyLimit
    /\ clients \in Nat

Serving == pc # "accept"
Waiting == {acceptmbox[i] : i \in DOMAIN acceptmbox}

(* sys_mbox_valid: a mailbox that is full counts as invalid. *)
Valid(c) == nc[c].mbox /\ Len(nc[c].box) < BoxSize

Init ==
    /\ nc = [c \in Conns |-> None]
    /\ peer = [c \in Conns |-> NoPeer]
    /\ acceptmbox = <<>>
    /\ netbufs = Netbufs
    /\ queues = Queues
    /\ pc = "accept"
    /\ cur \in Conns
    /\ err = "ERR_OK"
    /\ left = 0
    /\ busy = 0
    /\ clients = 0

(* A reset of the controller: every pool full, no connection. *)
Restart ==
    /\ nc' = [c \in Conns |-> None]
    /\ peer' = [c \in Conns |-> NoPeer]
    /\ acceptmbox' = <<>>
    /\ netbufs' = Netbufs
    /\ queues' = Queues
    /\ pc' = "accept"
    /\ err' = "ERR_OK"
    /\ left' = 0
    /\ busy' = 0
    /\ UNCHANGED <<cur, clients>>

-----------------------------------------------------------------------------
(* The clients and the TCP core: callbacks run in the tcpip thread.          *)

threadVars == <<netbufs, pc, cur, err, left, busy>>

(* accept_function: netconn_alloc takes a netconn and, for the recvmbox, an OS
   queue; without either the new connection is aborted and nothing is left. *)
Connect(c) ==
    /\ clients < MaxClients
    /\ ~nc[c].used
    /\ queues > 0
    /\ nc' = [nc EXCEPT ![c] = [None EXCEPT !.used = TRUE, !.pcb = TRUE, !.mbox = TRUE]]
    /\ queues' = queues - 1
    /\ acceptmbox' = Append(acceptmbox, c)
    /\ peer' = [peer EXCEPT ![c] = [NoPeer EXCEPT !.side = "open"]]
    /\ clients' = clients + 1
    /\ UNCHANGED threadVars

(* The callbacks of a connection being closed are gone (do_close_internal). *)
Listens(c) == nc[c].pcb /\ ~(c = cur /\ pc = "closing")

\* Mutant: a plain store.
SafeErr_Overwrites(last, e) == e

(* NETCONN_SET_SAFE_ERR: a fatal error is never overwritten. *)
SafeErr(last, e) == IF last \in Fatal THEN last ELSE e

\* Mutant: the message goes to the front of the queue.
Post_Front(c, m) ==
    nc' = IF Valid(c)
            THEN [nc EXCEPT ![c].box = <<m>> \o @,
                            ![c].last_err = SafeErr(@, "ERR_OK")]
            ELSE nc

(* recv_tcp: without a valid mailbox the data are acknowledged and freed. *)
Post(c, m) ==
    nc' = IF Valid(c)
            THEN [nc EXCEPT ![c].box = Append(@, m),
                            ![c].last_err = SafeErr(@, "ERR_OK")]
            ELSE nc

(* recv_tcp with data: the next command of the client. *)
Data(c) ==
    /\ Listens(c)
    /\ peer[c].side = "open"
    /\ peer[c].sent < MaxSends
    /\ Post(c, peer[c].sent + 1)
    /\ peer' = [peer EXCEPT ![c].sent = @ + 1,
                            ![c].dropped = @ \/ ~Valid(c)]
    /\ UNCHANGED <<acceptmbox, queues, clients, threadVars>>

\* Mutant: the end of the stream is not passed on.
Fin_Silent(c) ==
    /\ Listens(c)
    /\ peer[c].side = "open"
    /\ peer' = [peer EXCEPT ![c].side = "fin"]
    /\ UNCHANGED <<nc, acceptmbox, queues, clients, threadVars>>

(* recv_tcp without data: the client has closed its side; a full mailbox does
   not take the message, and the end of the stream is not reported again. *)
Fin(c) ==
    /\ Listens(c)
    /\ peer[c].side = "open"
    /\ Post(c, NULL)
    /\ peer' = [peer EXCEPT ![c].side = "fin", ![c].unheard = ~Valid(c)]
    /\ UNCHANGED <<acceptmbox, queues, clients, threadVars>>

(* The client stops reading, whether or not it has closed its side: the data it is
   sent close its window, which stays closed, also when the client is lost afterwards. *)
Stall(c) ==
    /\ ClientStalls
    /\ Serving
    /\ c = cur
    /\ peer[c].side \in {"open", "fin"}
    /\ ~peer[c].shut
    /\ peer' = [peer EXCEPT ![c].shut = TRUE]
    /\ UNCHANGED <<nc, acceptmbox, queues, clients, threadVars>>

(* The client or the network is lost; "owed": there are data it has not
   acknowledged, as when a write waits for room. *)
Vanish(c) ==
    /\ peer[c].side \in {"open", "fin"}
    /\ \E side \in {"gone", "owed"} :
          /\ c = cur /\ pc \in {"send_wait", "ack_wait"} => side = "owed"
          /\ peer' = [peer EXCEPT ![c].side = side]
    /\ UNCHANGED <<nc, acceptmbox, queues, clients, threadVars>>

(* Where a write of label "send" or "ack" leads once it has returned e.  When the
   acknowledgement fails the loop is left before netbuf_delete. *)
Return(here, e) ==
    /\ err' = e
    /\ IF e \in Closed
         THEN pc' = "close" /\ UNCHANGED <<left, netbufs>>
         ELSE CASE here = "send" -> /\ left' = left - 1
                                    /\ pc' = IF left = 1 THEN "recv" ELSE "send"
                                    /\ UNCHANGED netbufs
                [] here = "ack"  -> /\ netbufs' = netbufs + 1
                                    /\ pc' = "serve"
                                    /\ UNCHANGED left

(* err_tcp: the pcb is gone, last_err says why, a NULL message wakes a recv, a
   write or close under way returns the error. *)
ErrTcp(c, e) ==
    /\ nc[c].pcb
    /\ nc' = [nc EXCEPT ![c].pcb = FALSE, ![c].last_err = e,
                        ![c].box = IF Valid(c) THEN Append(@, NULL) ELSE @]
    /\ IF c # cur \/ pc \notin {"send_wait", "ack_wait", "closing"}
         THEN UNCHANGED threadVars
         ELSE /\ CASE pc = "send_wait" -> Return("send", e)
                   [] pc = "ack_wait"  -> Return("ack", e)
                   [] pc = "closing"   -> /\ pc' = "delete"
                                          /\ UNCHANGED <<err, left, netbufs>>
              /\ UNCHANGED <<cur, busy>>
    /\ UNCHANGED <<acceptmbox, queues, clients>>

(* The client resets the connection: there is no window any more. *)
Rst(c) ==
    /\ peer[c].side \in {"open", "fin"}
    /\ ErrTcp(c, "ERR_RST")
    /\ peer' = [peer EXCEPT ![c].side = "gone", ![c].shut = FALSE]

(* tcp_slowtmr: data stay unacknowledged until the retransmissions run out.  Of a
   closed window there are none: it is probed, and the probes are not counted. *)
Timeout(c) ==
    /\ peer[c].side = "owed"
    /\ ~peer[c].shut
    /\ ErrTcp(c, "ERR_ABRT")
    /\ peer' = [peer EXCEPT ![c].side = "gone"]

(* sent_tcp or poll_tcp: a write that waited for room goes on to its end; there is
   none behind a closed window. *)
WriteDone ==
    /\ pc \in {"send_wait", "ack_wait"}
    /\ peer[cur].side \in {"open", "fin"}
    /\ ~peer[cur].shut
    /\ Return(IF pc = "send_wait" THEN "send" ELSE "ack", "ERR_OK")
    /\ UNCHANGED <<nc, peer, acceptmbox, queues, clients, cur, busy>>

(* poll_tcp: a close that found no memory for its segment is tried again. *)
CloseDone ==
    /\ pc = "closing"
    /\ nc[cur].pcb
    /\ nc' = [nc EXCEPT ![cur].pcb = FALSE]
    /\ pc' = "delete"
    /\ UNCHANGED <<peer, acceptmbox, queues, clients, netbufs, cur, err, left, busy>>

Tcpip ==
    \/ \E c \in Conns : \/ Connect(c) \/ Data(c) \/ Fin(c) \/ Stall(c) \/ Vanish(c)
                        \/ Rst(c) \/ Timeout(c)
    \/ WriteDone
    \/ CloseDone

-----------------------------------------------------------------------------
(* tcp_server_thread.                                                        *)

coreVars == <<peer, acceptmbox, clients>>

\* Mutant: the connection made last is accepted first.
Accept_Last ==
    /\ pc = "accept"
    /\ acceptmbox # <<>>
    /\ cur' = acceptmbox[Len(acceptmbox)]
    /\ acceptmbox' = SubSeq(acceptmbox, 1, Len(acceptmbox) - 1)
    /\ err' = "ERR_OK"
    /\ pc' = "serve"
    /\ UNCHANGED <<nc, peer, netbufs, queues, left, busy, clients>>

(* netconn_accept with a connection waiting, and the entry of the loop. *)
Accept ==
    /\ pc = "accept"
    /\ acceptmbox # <<>>
    /\ cur' = Head(acceptmbox)
    /\ acceptmbox' = Tail(acceptmbox)
    /\ err' = "ERR_OK"
    /\ pc' = "serve"
    /\ UNCHANGED <<nc, peer, netbufs, queues, left, busy, clients>>

(* netconn_accept pauses for 10 ms when none is waiting. *)
AcceptTimeout ==
    /\ pc = "accept"
    /\ acceptmbox = <<>>
    /\ busy' = 0
    /\ UNCHANGED <<nc, queues, coreVars, netbufs, pc, cur, err, left>>

Turn == busy' = IF busy < BusyLimit THEN busy + 1 ELSE busy

(* A turn of the loop that finds a frame waiting. *)
ServeFrame ==
    /\ pc = "serve"
    /\ pc' = "send"
    /\ left' = Writes
    /\ Turn
    /\ UNCHANGED <<nc, queues, coreVars, netbufs, cur, err>>

(* A turn without a frame: the result of an earlier write is looked at. *)
ServeIdle ==
    /\ pc = "serve"
    /\ pc' = IF err \in Closed THEN "close" ELSE "recv"
    /\ Turn
    /\ UNCHANGED <<nc, queues, coreVars, netbufs, cur, err, left>>

(* netconn_write: do_write returns a fatal last_err at once.  Otherwise the data
   fit into the send buffer, or the thread sleeps until they do. *)
WriteCall(here, wait) ==
    /\ pc = here
    /\ IF nc[cur].last_err \in Fatal
         THEN Return(here, nc[cur].last_err) /\ UNCHANGED <<peer, busy>>
         ELSE /\ peer' = [peer EXCEPT ![cur].side = IF @ = "gone" THEN "owed" ELSE @]
              /\ \/ Return(here, "ERR_OK") /\ UNCHANGED busy
                 \/ pc' = wait /\ busy' = 0 /\ UNCHANGED <<netbufs, err, left>>
    /\ UNCHANGED <<nc, acceptmbox, queues, clients, cur>>

Send == WriteCall("send", "send_wait")
Ack == WriteCall("ack", "ack_wait")

(* netconn_recv up to the pend: an invalid mailbox is ERR_CONN, an empty pool
   ERR_MEM, a fatal last_err is returned; of these the loop tests only ERR_CLSD. *)
RecvCall ==
    /\ pc = "recv"
    /\ IF ~Valid(cur) \/ netbufs = 0 \/ nc[cur].last_err \in Fatal
         THEN /\ pc' = IF Valid(cur) /\ netbufs > 0 /\ nc[cur].last_err = "ERR_CLSD"
                         THEN "close" ELSE "serve"
              /\ UNCHANGED <<netbufs, busy>>
         ELSE /\ netbufs' = netbufs - 1
              /\ pc' = "pend"
              /\ busy' = IF nc[cur].box = <<>> THEN 0 ELSE busy
    /\ UNCHANGED <<nc, queues, coreVars, cur, err, left>>

(* The pend ends with a command. *)
PendData ==
    /\ pc = "pend"
    /\ nc[cur].box # <<>>
    /\ Head(nc[cur].box) # NULL
    /\ nc' = [nc EXCEPT ![cur].box = Tail(@)]
    /\ peer' = [peer EXCEPT ![cur].obeyed = Head(nc[cur].box)]
    /\ pc' = "obey"
    /\ UNCHANGED <<acceptmbox, queues, clients, netbufs, cur, err, left, busy>>

(* The pend ends with the NULL message: end of stream, or an error meanwhile. *)
PendNull ==
    /\ pc = "pend"
    /\ nc[cur].box # <<>>
    /\ Head(nc[cur].box) = NULL
    /\ nc' = [nc EXCEPT ![cur].box = Tail(@),
                        ![cur].last_err = SafeErr(@, "ERR_CLSD")]
    /\ netbufs' = netbufs + 1
    /\ pc' = "close"
    /\ UNCHANGED <<coreVars, queues, cur, err, left, busy>>

(* Nothing within recv_timeout; err_tcp may still come before the result is
   stored and the netbuf given back. *)
PendTimeout ==
    /\ pc = "pend"
    /\ nc[cur].box = <<>>
    /\ pc' = "late"
    /\ UNCHANGED <<nc, queues, coreVars, netbufs, cur, err, left, busy>>

RecvTimeout ==
    /\ pc = "late"
    /\ nc' = [nc EXCEPT ![cur].last_err = SafeErr(@, "ERR_OK")]
    /\ netbufs' = netbufs + 1
    /\ pc' = "serve"
    /\ UNCHANGED <<queues, coreVars, cur, err, left, busy>>

(* PollMessage: the command is carried out; two of them reset the controller. *)
Obey ==
    /\ pc = "obey"
    /\ \/ /\ pc' = "ack"
          /\ UNCHANGED <<nc, queues, coreVars, netbufs, cur, err, left, busy>>
       \/ Restart

(* do_close for a netconn with a pcb: netconn_drain empties a valid mailbox and
   gives its queue back, a full one it takes for one already deleted; the pcb is
   closed or not; the result of the call is stored. *)
DoClose(pcb) ==
    /\ nc' = [nc EXCEPT ![cur].box = IF Valid(cur) THEN <<>> ELSE @,
                        ![cur].mbox = @ /\ ~Valid(cur),
                        ![cur].pcb = pcb,
                        ![cur].last_err = SafeErr(@, "ERR_OK")]
    /\ queues' = IF Valid(cur) THEN queues + 1 ELSE queues

\* Mutant: the thread does not wait for a close that is tried again.
Close_NoWait ==
    /\ pc = "close"
    /\ IF nc[cur].pcb
         THEN DoClose(FALSE) \/ DoClose(TRUE)
         ELSE UNCHANGED <<nc, queues>>
    /\ pc' = "delete"
    /\ UNCHANGED <<coreVars, netbufs, cur, err, left, busy>>

(* netconn_close: the pcb is closed at once, or once there is memory for the
   segment; without a pcb, ERR_VAL. *)
Close ==
    /\ pc = "close"
    /\ IF nc[cur].pcb
         THEN \/ DoClose(FALSE) /\ pc' = "delete" /\ UNCHANGED busy
              \/ DoClose(TRUE) /\ pc' = "closing" /\ busy' = 0
         ELSE pc' = "delete" /\ UNCHANGED <<nc, queues, busy>>
    /\ UNCHANGED <<coreVars, netbufs, cur, err, left>>

\* Mutant: a queue is given back whether or not there is a mailbox.
Delete_FreesTwice ==
    /\ pc = "delete"
    /\ nc' = [nc EXCEPT ![cur] = None]
    /\ queues' = queues + 1
    /\ peer' = [peer EXCEPT ![cur] = NoPeer]
    /\ pc' = "accept"
    /\ UNCHANGED <<acceptmbox, clients, netbufs, cur, err, left, busy>>

\* Mutant: the mailbox is not drained again.
Delete_NoDrain ==
    /\ pc = "delete"
    /\ nc' = [nc EXCEPT ![cur] = None]
    /\ queues' = queues
    /\ peer' = [peer EXCEPT ![cur] = NoPeer]
    /\ pc' = "accept"
    /\ UNCHANGED <<acceptmbox, clients, netbufs, cur, err, left, busy>>

(* netconn_delete: do_delconn drains, netconn_free gives the netconn back. *)
Delete ==
    /\ pc = "delete"
    /\ nc' = [nc EXCEPT ![cur] = None]
    /\ queues' = IF Valid(cur) THEN queues + 1 ELSE queues
    /\ peer' = [peer EXCEPT ![cur] = NoPeer]
    /\ pc' = "accept"
    /\ UNCHANGED <<acceptmbox, clients, netbufs, cur, err, left, busy>>

Thread ==
    \/ Accept \/ AcceptTimeout \/ ServeFrame \/ ServeIdle \/ Send \/ RecvCall
    \/ PendData \/ PendNull \/ PendTimeout \/ RecvTimeout
    \/ Obey \/ Ack \/ Close \/ Delete

\* Mutant: the watchdog is not running.
Watchdog_Off == FALSE /\ UNCHANGED vars

(* led_task, below tcp_server_thread, feeds the watchdog whenever that thread
   pauses; a loop that never pauses starves it, and the watchdog resets. *)
Watchdog == busy = BusyLimit /\ Restart

Next == Tcpip \/ Thread \/ Watchdog

(* tcp_server_thread is outranked by the tcpip thread only; the retransmission
   timer and poll_tcp run; a client that is there and has not closed its window
   reads; frames keep coming; the watchdog runs. *)
Fairness ==
    /\ WF_vars(Thread) /\ SF_vars(ServeFrame)
    /\ WF_vars(WriteDone) /\ WF_vars(CloseDone)
    /\ \A c \in Conns : WF_vars(Timeout(c))
    /\ WF_vars(Watchdog)

Spec == Init /\ [][Next]_vars /\ Fairness

-----------------------------------------------------------------------------
Held == pc \in {"pend", "late", "obey", "ack", "ack_wait"}
InUse == {c \in Conns : nc[c].used}
Served == IF Serving THEN {cur} ELSE {}

(* Whatever way a connection ends, its netconn comes back exactly once: each one
   taken from the pool waits to be accepted or is being served, none is both or
   waits twice; the TCP core never calls back into one that has been given back,
   and netconn_free meets a netconn without pcb (its assertion, api_msg.c:659). *)
NetconnsKept ==
    /\ InUse = Waiting \cup Served
    /\ Waiting \cap Served = {}
    /\ Cardinality(Waiting) = Len(acceptmbox)
    /\ \A c \in Conns : nc[c].pcb => nc[c].used
    /\ pc = "delete" => ~nc[cur].pcb

(* As long as its mailbox has never been full, a client's commands are obeyed in
   the order sent, each once: what has arrived and is not obeyed waits, in front of
   the NULL messages that end the connection. *)
CommandsInOrder ==
    \A c \in InUse : nc[c].mbox /\ ~peer[c].dropped =>
        LET due == peer[c].sent - peer[c].obeyed
        IN  /\ due \in 0 .. Len(nc[c].box)
            /\ \A i \in DOMAIN nc[c].box :
                  nc[c].box[i] = IF i <= due THEN peer[c].obeyed + i ELSE NULL

Commands == [c \in Conns |-> [sent |-> peer[c].sent, obeyed |-> peer[c].obeyed,
                               lost |-> peer[c].dropped]]

Abstract == INSTANCE ClientService WITH
    line <- acceptmbox, served <- Served, client <- Commands

(* Through timeouts, errors, closes that are tried again and mailboxes that overflow,
   each client is served in its turn, alone, and no command of it is obeyed twice, out
   of order, or while another client is served; one is skipped only if the mailbox was
   full or gone when one arrived (tcp_server_demo.c, api_msg.c). *)
ServesInTurn == Abstract!Spec

(* A fatal error stays until the netconn is given back, so that every later call
   sees it (the comment "don't overwrite fatal errors", api_msg.c:242). *)
FatalStays ==
    [][\A c \in Conns : nc[c].last_err \in Fatal /\ nc'[c].used
                            => nc'[c].last_err \in Fatal]_vars

(* The pools shrink in two ways only: a netbuf is lost with an acknowledgement
   that meets a closed connection (the breaks before netbuf_delete,
   tcp_server_demo.c:334, 462 and 516), an OS queue with a netconn that is deleted
   while its mailbox is full (sys_arch.c:164). *)
NetbufTotal == netbufs + (IF Held THEN 1 ELSE 0)
QueueTotal == queues + Cardinality({c \in Conns : nc[c].mbox})
PoolsShrinkTwoWays ==
    [][/\ NetbufTotal' < NetbufTotal => pc \in {"ack", "ack_wait"} /\ pc' = "close"
       /\ QueueTotal' < QueueTotal => pc = "delete" /\ Len(nc[cur].box) = BoxSize]_vars

(* A client that is lost while served is let go: its error reaches a write or a
   pending recv, or else the loop that ignores it starves the watchdog.  Not so one
   that had closed its window: its write waits for ever (tcp.c:831-841). *)
LostLetGo ==
    (Serving /\ peer[cur].side \in {"gone", "owed"} /\ ~peer[cur].shut) ~> ~Serving

(* A client that closes its side is let go, unless its window is or gets closed, its
   mailbox is full or was when the end of the stream came, or all the netbufs are
   lost: then a write waits, or netconn_recv fails before it looks into the mailbox,
   or finds nothing there. *)
ClosedLetGo ==
    (/\ Serving
     /\ peer[cur].side = "fin"
     /\ ~peer[cur].unheard
     /\ ~peer[cur].shut
     /\ Len(nc[cur].box) < BoxSize
     /\ netbufs > 0) ~> ~Serving \/ peer[cur].shut

-----------------------------------------------------------------------------
(* What a comment says. *)

(* api_msg.c:230-239: recv_tcp frees data only of a connection whose recvmbox is
   deleted, for data that are acknowledged must not be lost. *)
DropsOnlyDeleted ==
    [][\A c \in Conns : peer'[c].dropped /\ ~peer[c].dropped => ~nc[c].mbox]_vars

=============================================================================
