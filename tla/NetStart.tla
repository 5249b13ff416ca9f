------------------------------ MODULE NetStart ------------------------------
(***************************************************************************)
(* The start of the network as main does it, over the memory pool: the      *)
(* allocations of ETH_Mem_Malloc and lwip_comm_mem_malloc, the PHY, the     *)
(* mailbox of tcpip_init, the start of the Ethernet DMA, with the retries   *)
(* of lwip_comm_init and of main; afterwards the mailboxes of connections.  *)
(* The debug console works on the same pool all the time.                   *)
(***************************************************************************)
EXTENDS MemPool, DebugConsole, Functions

CONSTANTS
    EthMemory,      \* the pointers ETH_Mem_Malloc sets, in order
    LwipMemory,     \* the pointers lwip_comm_mem_malloc sets, in order
    MaxRetry,       \* times LAN8720_Init is tried again
    MaxMailboxes    \* bound: mailboxes made after the start

ASSUME RetryAssumption == MaxRetry \in Nat /\ MaxMailboxes \in Nat
(* Every piece has a pointer of its own. *)
ASSUME MemoryAssumption ==
    /\ EthMemory \in Seq(Program) /\ LwipMemory \in Seq(Program)
    /\ IsInjective(LwipMemory) /\ Range(EthMemory) \cap Range(LwipMemory) = {}
    /\ {"mbox", "recvmbox"} \subseteq Program \ (Range(EthMemory) \cup Range(LwipMemory))

(* The heap of lwIP is at least as large as any of the Ethernet driver's pieces
   (lwip_comm.c:64, lan8720.c:165-168). *)
ASSUME HeapAssumption ==
    \E h \in DOMAIN LwipMemory : \A i \in DOMAIN EthMemory :
        Size[EthMemory[i]] <= Size[LwipMemory[h]]

VARIABLES
    pc,             \* where main is; later, the task that makes mailboxes
    todo,           \* pointers left to allocate or to free there
    retry,          \* lwip_comm_init's
    link,           \* the PHY has a link and can agree on a speed
    mailboxes,      \* mailboxes made after the start (bound)
    conFreed        \* ghost: the console has freed memory

startVars == <<pc, todo, retry, link, mailboxes, conFreed>>
vars == <<poolVars, consoleVars, startVars>>

Init ==
    /\ PoolInit /\ ConsoleInit
    /\ pc = "eth" /\ todo = EthMemory
    /\ retry = 0
    /\ link \in BOOLEAN
    /\ mailboxes = 0
    /\ conFreed = FALSE

Go(label, list) == pc' = label /\ todo' = list

-----------------------------------------------------------------------------
(* lwip_comm_init, called by main until it returns 0.                        *)

(* The allocations of ETH_Mem_Malloc, and of lwip_comm_mem_malloc. *)
Allocate ==
    /\ pc \in {"eth", "lwip"}
    /\ todo # <<>>
    /\ Malloc(Head(todo))
    /\ Go(pc, Tail(todo))
    /\ UNCHANGED <<retry, link, mailboxes, conFreed>>

(* The test after them looks at the addresses of the pointers, which are not 0. *)
EthAllocated ==
    /\ pc = "eth" /\ todo = <<>> /\ call = NoCall
    /\ Go("lwip", LwipMemory)
    /\ UNCHANGED <<poolVars, retry, link, mailboxes, conFreed>>

\* Mutant: the results are joined by "and".
LwipAllocated_OneIsEnough ==
    /\ pc = "lwip" /\ todo = <<>> /\ call = NoCall
    /\ IF \A i \in DOMAIN LwipMemory : ptr[LwipMemory[i]] = NULL
         THEN Go("free", LwipMemory)
         ELSE Go("reset", <<>>)
    /\ UNCHANGED <<poolVars, retry, link, mailboxes, conFreed>>

LwipAllocated ==
    /\ pc = "lwip" /\ todo = <<>> /\ call = NoCall
    /\ IF \E i \in DOMAIN LwipMemory : ptr[LwipMemory[i]] = NULL
         THEN Go("free", LwipMemory)
         ELSE Go("reset", <<>>)
    /\ UNCHANGED <<poolVars, retry, link, mailboxes, conFreed>>

(* lwip_comm_mem_free, and main's next call: ETH_Mem_Malloc overwrites its pointers. *)
FreeLwip ==
    /\ pc = "free"
    /\ IF todo = <<>>
         THEN call = NoCall /\ Go("eth", EthMemory) /\ UNCHANGED poolVars
         ELSE FreeCall(Head(todo)) /\ Go("free", Tail(todo))
    /\ UNCHANGED <<retry, link, mailboxes, conFreed>>

(* LAN8720_Init resets the PHY with interrupts masked... *)
PhyReset ==
    /\ pc = "reset"
    /\ Go("link", <<>>)
    /\ UNCHANGED <<poolVars, retry, link, mailboxes, conFreed>>

\* Mutant: the tries are counted over the calls of lwip_comm_init.
PhyInit_CountsOn ==
    /\ pc = "link"
    /\ IF link /\ retry < MaxRetry THEN Go("tcpip", <<>>) /\ UNCHANGED retry
       ELSE IF retry < MaxRetry THEN Go("reset", <<>>) /\ retry' = retry + 1
       ELSE Go("reset", <<>>) /\ UNCHANGED retry
    /\ UNCHANGED <<poolVars, link, mailboxes, conFreed>>

(* ... and HAL_ETH_Init waits for the link and the negotiation, each for a time.
   When all tries fail, lwip_comm_init returns and leaves its memory behind. *)
PhyInit ==
    /\ pc = "link"
    /\ IF link THEN Go("tcpip", <<>>) /\ retry' = 0
       ELSE IF retry < MaxRetry THEN Go("reset", <<>>) /\ retry' = retry + 1
       ELSE Go("eth", EthMemory) /\ retry' = 0
    /\ UNCHANGED <<poolVars, link, mailboxes, conFreed>>

\* Mutant: the queue's memory is taken for granted.
TcpipInit_NoMemory ==
    /\ pc = "tcpip"
    /\ Go("mbox_new", <<>>)
    /\ UNCHANGED <<poolVars, retry, link, mailboxes, conFreed>>

(* tcpip_init: sys_mbox_new asks for its mailbox, and clears it before the pointer
   is tested; then netif_add starts the DMA on the descriptors. *)
TcpipInit ==
    /\ pc = "tcpip"
    /\ Malloc("mbox")
    /\ Go("mbox_new", <<>>)
    /\ UNCHANGED <<retry, link, mailboxes, conFreed>>

MboxNew ==
    /\ pc = "mbox_new" /\ call = NoCall
    /\ Go("started", <<>>)
    /\ UNCHANGED <<poolVars, retry, link, mailboxes, conFreed>>

Start ==
    \/ Allocate \/ EthAllocated \/ LwipAllocated \/ FreeLwip
    \/ PhyReset \/ PhyInit \/ TcpipInit \/ MboxNew

-----------------------------------------------------------------------------
(* Once started: sys_mbox_new and sys_mbox_free of a connection.             *)

RecvmboxNew ==
    /\ pc = "started" /\ "recvmbox" \notin owned
    /\ mailboxes < MaxMailboxes
    /\ mailboxes' = mailboxes + 1
    /\ Malloc("recvmbox")
    /\ Go("recvmbox_new", <<>>)
    /\ UNCHANGED <<retry, link, conFreed>>

(* mymemset, and OSQCreate, which may find no queue: then the memory goes back. *)
RecvmboxMade ==
    /\ pc = "recvmbox_new" /\ call = NoCall
    /\ Go("started", <<>>)
    /\ \/ UNCHANGED poolVars
       \/ ptr["recvmbox"] # NULL /\ FreeCall("recvmbox")
    /\ UNCHANGED <<retry, link, mailboxes, conFreed>>

RecvmboxFree ==
    /\ pc = "started" /\ "recvmbox" \in owned
    /\ FreeCall("recvmbox")
    /\ UNCHANGED startVars

Mailboxes == RecvmboxNew \/ RecvmboxMade \/ RecvmboxFree

-----------------------------------------------------------------------------
(* The world, the interrupts, the whole.                                     *)

Masked == pc = "reset"

(* The cable is plugged in; only HAL_ETH_Init looks. *)
LinkUp ==
    /\ ~link /\ pc = "link"
    /\ link' = TRUE
    /\ UNCHANGED <<poolVars, consoleVars, pc, todo, retry, mailboxes, conFreed>>

(* usmart_scan of a complete line: "malloc" and "free" are in the table of names,
   the operator frees what he has allocated; other lines are unknown names. *)
UsmartScan ==
    /\ Scanned
    /\ CASE buf = <<"malloc">> ->
              \E k \in Console : ConsoleMalloc(k) /\ UNCHANGED conFreed
         [] buf = <<"free">> /\ Console \cap owned # {} ->
              \E k \in Console : ConsoleFree(k) /\ conFreed' = TRUE
         [] OTHER -> UNCHANGED <<poolVars, conFreed>>
    /\ UNCHANGED <<pc, todo, retry, link, mailboxes>>

Operator ==
    /\ Arrive \/ \E l \in Lines : Type(l)
    /\ UNCHANGED <<poolVars, startVars>>

Interrupt ==
    /\ ~Masked
    /\ \/ UartIsr /\ UNCHANGED <<poolVars, startVars>>
       \/ UsmartScan

(* The program waits for an interrupt that is pending and not masked.  The bytes of
   a line touch nothing that a call to the pool touches, so it is enough to look at
   calls in which no line is on its way: it has arrived before the call. *)
Task ==
    /\ Masked \/ rdr = <<>>
    /\ call = NoCall \/ wire = <<>>
    /\ \/ (Start \/ Mailboxes) /\ UNCHANGED consoleVars
       \/ PoolStep /\ UNCHANGED <<consoleVars, startVars>>

Next == Task \/ Interrupt \/ Operator \/ LinkUp

(* main runs, and nothing else but the interrupts; a line that was begun is ended. *)
Spec == Init /\ [][Next]_vars /\ WF_vars(Task) /\ WF_vars(Interrupt) /\ WF_vars(Operator)

-----------------------------------------------------------------------------
TypeOK ==
    /\ PoolTypeOK /\ ConsoleTypeOK
    /\ pc \in {"eth", "lwip", "free", "reset", "link", "tcpip", "mbox_new",
               "started", "recvmbox_new"}
    /\ retry \in 0 .. MaxRetry /\ mailboxes \in 0 .. MaxMailboxes
    /\ link \in BOOLEAN /\ conFreed \in BOOLEAN

(* No block of memory has two owners, none is lost by freeing, and what myfree reads
   is the length of the run (my_mem_malloc, my_mem_free), over failed and repeated
   starts, as long as the console did not take what a call had just found free. *)
BlocksOwned == TypeOK /\ (~raced => Disjoint /\ OwnedMarked /\ OthersFree)

(* The DMA is not started on descriptors or buffers at address 0, although the test
   of lan8720.c:169 cannot fail: when one of them was refused, so is the heap, unless
   the console freed memory in between. *)
DmaMemoryOwned ==
    pc \in {"reset", "link", "tcpip", "mbox_new", "started", "recvmbox_new"} /\ ~conFreed =>
        \A i \in DOMAIN EthMemory : EthMemory[i] \in owned

(* sys_mbox_new, which clears what it was given before it looks (sys_arch.c:61-63), was
   given something, unless failed starts or the console have eaten the pool. *)
MailboxGiven ==
    pc = "mbox_new" /\ call = NoCall /\ leaked = {} /\ Console \cap owned = {} /\ ~conFreed =>
        ptr["mbox"] # NULL

(* Address 0 is not used as memory: neither by the DMA nor by sys_mbox_new. *)
NullNeverUsed == DmaMemoryOwned /\ MailboxGiven

(* A link that comes up is used, unless a start finds the pool too small; that takes
   memory which earlier starts left behind or the console holds.  (Then the next one
   leaves its Ethernet buffers behind, too, and main calls lwip_comm_init for ever.) *)
LinkUsed ==
    link ~> \/ pc = "started"
            \/ pc = "free" /\ (leaked # {} \/ Console \cap owned # {})
=============================================================================
