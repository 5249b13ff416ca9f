# NetCamera: a verification development

NetCamera is the firmware of an industrial network camera (`src/Software/NetCamera`):
an STM32F429 with uC/OS-II and lwIP 1.4.1 takes JPEG frames from an MT9D111 sensor
through the DCMI interface and a DMA stream, and serves them over TCP to one client at
a time, which may send commands between the frames. This directory holds TLA+ models
of the firmware's own logic, the TLC runs that check them, and TLAPS proofs.

File names below are short: `tcp_server_demo.c` is
`LWIP/lwip_app/tcp_server_demo/tcp_server_demo.c`, and so on; `PROJECT.json` has the
full paths, and under `map` the source lines of every definition.

1. [The system](#1-the-system): parts, state, interactions, hazards
2. [The modules](#2-the-modules): how each model corresponds to the code
3. [The runs](#3-the-runs): what each shows, its bounds, why they are enough
4. [Fairness](#4-fairness)
5. [What is proved](#5-what-is-proved)
6. [Findings](#6-findings), and disagreements without a run of their own
7. [What is abstracted or not modelled](#7-what-is-abstracted-or-not-modelled)
8. [Plan](#8-plan)

## 1. The system

### Who runs

| Actor | Priority | What it does |
|---|---|---|
| Ethernet, DCMI, EXTI, UART, TIM interrupts | above all tasks | hand over received frames, end of image, key edges, console bytes; the timer executes console lines |
| `tcpip_thread` (lwIP) | 5 | TCP core; carries out the netconn calls as messages; runs the callbacks `recv_tcp`, `err_tcp`, `sent_tcp`, `poll_tcp` |
| `tcp_server_thread` | 6 | boots the sensor, accepts a client, sends frames, obeys commands |
| `key_task` | 8 | polls the application key every 500 ms, restores the defaults |
| `display_task` | 9 | prints the address once |
| `led_task` | 10 | feeds the watchdog (about 32 s) every second |

### Components

**Frame pipeline** (`tcp_server_demo.c:52-120, 215-300, 345-430`, `dcmi.c`, the HAL's
DCMI interrupt). State: `buf_flag`, `jpeg_data_ok`, `jpeg_data_len`, two SDRAM buffers,
the DMA stream and its counter. At every end of frame the interrupt
(`jpeg_data_process`) records the length if no recorded frame waits, flips `buf_flag`
and arms the DMA with the other buffer. The thread sends the buffer `buf_flag` does not
write, in chunks of 1 KB, and marks the frame processed. Nothing locks anything: the
sender relies on being faster than the sensor. *Correct when* the sender never takes the
buffer that is being written, sends one frame under its own length, consumes a frame
only by sending it, and frames keep being recorded and, unless the sensor keeps changing
the buffer between the sender's two looks at `buf_flag`, dealt with.

**Connection server** (`tcp_server_thread`, `api_lib.c`, `api_msg.c`, `sys_arch.c`).
State: the netconn pool, the receive mailboxes (OS queues), the netbuf pool, `last_err`
of each connection, the accept mailbox. The thread calls `netconn_accept`, `_write`,
`_recv`, `_close`, `_delete`; the calls are carried out in the tcpip thread, which at any
point in between may run a callback for data, end of stream, reset or timeout. *Correct
when* every netconn comes back exactly once whatever way the connection ends, callbacks
never meet a freed netconn, commands are obeyed in order, a fatal error is never
forgotten, and a client that is gone is let go unless it had closed its window.

**Saved parameters** (`stmflash.c`, `SaveParaList`, `DefaultList`). A block in a
flash sector of its own, its copy in RAM, the flash lock and the HAL's own lock. It is read by
`lwip_comm_init` (address), the start of `tcp_server_thread` (blank check),
`MT9D111_Jpeg_Config` (size), and again for every frame (`MT9D111_Greate_Header`);
it is written by every set command and by `key_task`. *Correct when* an update is atomic
to the client, a word is programmed only when it is erased, flash ends locked, restarts
lose nothing, and the three users of the picture size agree.

**Application key** (`exti.c`, `key_task`). State: `timeUse` (first the time of the press,
then its duration), `keyFlag`, the pending bit of the EXTI line. *Correct when* the class
a press is given is the one of its duration, and a long press acts.

**Command protocol** (`protocol.c`). State: `ValidCmd` and `ParaLen`, globals that
outlive a command and a connection, and `SaveParaList`. One TCP segment is taken for one
command; the reply is written by the thread from the globals. *Correct when* what is
stored is what was sent, the size is one the sensor supports, and a reply answers the
segment just received and counts its own bytes. The code does not reach this for
every parameter it accepts: where it reads something else than was sent, the properties
say so and promise the rest.

**Memory pools** (`malloc.c`). State: the table of blocks of the internal pool. `mymalloc`
and `myfree` are called by the start, by every mailbox that is made or freed, and from a
timer interrupt by the operator of the debug console; nothing locks the table. *Correct
when* no block has two owners and what is freed can be had again.

**Network start** (`lwip_comm.c`, `lan8720.c`, `main.c`). State: the pointers to the
driver's rings and buffers and to the heap, pools and stacks of lwIP, a counter of tries.
`lwip_comm_init` allocates, resets the PHY, tries for a link, and is called again by `main`
when it fails. *Correct when* an allocation that failed is noticed before its address is
used, and a link that comes up is used.

**Debug console** (`usart.c`, `usmart.c`). State: `USART_RX_BUF` and `USART_RX_STA`, filled by
the UART's interrupt and emptied by a timer's, which executes the line. *Correct when* a
line is executed as it was sent.

**Ethernet driver** (`ethernetif.c`, `lan8720.c`, the HAL's ring functions). State: two
rings of descriptors, shared with the DMA by their OWN bits; the DMA's status flags.
`ETH_IRQHandler` takes frames out of one ring, `low_level_output` puts frames into the
other. *Correct when* the rings stay in order, every frame that is stored raises an
interrupt or is taken, and a frame to be sent wakes the DMA.

**tcpip thread** (`tcpip.c`, `timers.c`, `sys_arch.c`, the queues and ticks of uC/OS-II).
State: the mailbox and the pools of messages and pbufs, the list of timers. The interrupt
posts frames, the server posts calls, the thread fetches with the time of its first timer
and takes what the wait has cost off that timer. *Correct when* the mailbox is a FIFO that
loses nothing, every element of a pool comes back, timers run when their time has passed,
and frames, calls and timers are all served.

**Watchdog** (`iwdg.c`, `led_task`): an action of the models whose tasks can starve it.
**Sensor configuration** (`mt9d111.c`, `sccb.c`), **board support**, **display**: register
writes and output only. **uC/OS-II, lwIP core, HAL**: vendored; modelled where the program
depends on them.

### How they meet

```
 sensor -> DMA -> [buffer 1 | buffer 2] <- tcp_server_thread -> netconn -> client
              DCMI interrupt ^ buf_flag, jpeg_data_ok/_len          |  ^
                                                           commands v  | replies
 key -> EXTI interrupt -> timeUse, keyFlag -> key_task     PollMessage (protocol.c)
                                                 |                  |
                                                 v                  v
                                         SaveParaList (RAM) <-> flash block
                                                 ^
              boot: lwip_comm_init, tcp_server_thread, MT9D111_* read it
 led_task -> watchdog -> reset of everything but flash and SDRAM
```

The frame pipeline meets the connection server in the result of a write (a lost
connection ends a transmission), and meets the protocol in the commands between two
frames, two of which (`setipa`, `setsiz`) restart the controller. The protocol meets the
parameters in `SaveParaList` and `STMFLASH_Write`; the key meets them in the same two,
from a task of lower priority. Below all of this is the network path: frames and calls
reach the tcpip thread through one mailbox, and `NetconnServer` starts where `NetPath`
ends, at the functions the thread calls for a frame or a call. The memory pool is under
every mailbox. The hard behaviours are listed one by one, at their lines,
under `hazards` in `PROJECT.json`, each with the properties that would catch it.

## 2. The modules

| Module | Extends | Models | Checked by | Proofs |
|---|---|---|---|---|
| `DcmiCapture` | | sensor, DMA, buffers, end-of-frame interrupt | through `FramePipeline` | `FramePipeline_proofs` |
| `FramePipeline` | `DcmiCapture` | `DcmiCapture` composed with the sending thread | `pipeline_*` | `FramePipeline_proofs` |
| `NetconnServer` | | the thread as a server of connections, netconn handlers, callbacks, pools, watchdog | `server`, `server_drop` | `NetconnServer_proofs` |
| `ClientService` | | what the server promises its clients | refined by `NetconnServer` | `NetconnServer_proofs` |
| `FlashWrite` | | `STMFLASH_Write` and the HAL flash functions under it | through `ParamStore` | `ParamStore_proofs` |
| `ParamStore` | `FlashWrite` | `FlashWrite` composed with boot, set commands, frames, `key_task`, power cuts | `params_*` | `ParamStore_proofs` |
| `AtomicParams` | | what the saved parameters promise a client | refined by `ParamStore` | `ParamStore_proofs` |
| `FactoryKey` | | the key's interrupt and `key_task` | `key` | `FactoryKey_proofs` |
| `Command` | | the commands and what `Scan_Params` and `Pro_*` make of a parameter | through `CommandServer` | `CommandServer_proofs` |
| `CommandServer` | `Command` | `PollMessage`, the reply, connections and restarts | `commands` | `CommandServer_proofs` |
| `MemPool` | | `mymalloc` and `myfree` block by block | through `NetStart` | `NetStart_proofs` |
| `DebugConsole` | | the receive interrupt of the UART, the line, its execution | through `NetStart` | `NetStart_proofs` |
| `NetStart` | `MemPool`, `DebugConsole` | both composed with `lwip_comm_init` and its retries, and with mailboxes made later | `memory` | `NetStart_proofs` |
| `OsQueue` | | a message queue of uC/OS-II with one reader: posts, waits, ticks | through `NetPath` | `NetPath_proofs` |
| `Mailbox` | | what lwIP expects of a mailbox | refined by `OsQueue` | `NetPath_proofs` |
| `EthDma` | | the rings, the DMA, the driver's operations on them | through `NetPath` | `NetPath_proofs` |
| `LwipTimers` | | the list of timers, what a fetch takes off it | through `NetPath` | `LwipTimers_proofs` |
| `NetPath` | `OsQueue`, `EthDma`, `LwipTimers` | all three composed with `ETH_IRQHandler`, `tcpip_thread`, the server's calls, the tick | `network` | `NetPath_proofs` |

The `MC*` modules define the values their `.cfg` files give to the constants. Operators
named after another one with a suffix (`FlipBuffer_NoWrap`, `Close_NoWait`, ...) are
faulty versions of it. `PROJECT.json` pairs them with the property that tells them from
the code ("mutants"): they show that the property depends on the code.

### DcmiCapture and FramePipeline

The variables are the globals of `tcp_server_demo.c:52-59` (`buf_flag`, `jpeg_data_ok`,
`jpeg_data_len`), the DMA stream (`dma`: enabled, target, NDTR), the DCMI bits the code
uses (`capture`, `ovf_it`, `frame_pending`), the buffers (`mem`), and the thread's locals
(`pc`, `err`, `tx`). A word in `mem` carries the DMA run, the frame and the position it
came from, so a property can say whose word the client got; the program cannot see
these tags.

| Action | Code |
|---|---|
| `SensorWord`, `Overflow`, `FrameEnd` | sensor and DMA; FIFO overflow and what `HAL_DCMI_IRQHandler` does about it; end-of-frame flag |
| `FrameIsr` = `RecordFrame` + `FlipBuffer` | `HAL_DCMI_IRQHandler`, `jpeg_data_process` |
| `Boot` | `MT9D111_Init` until it succeeds, `jpeg_test` |
| `Accept`, `First`, `Second`, `Idle` | `netconn_accept`, the three branches of the loop |
| `Logo`, `Header`, `Chunk`, `ChunksDone`, `Tail_`, `SendEnd` | the five kinds of write of a frame and the tests after them |
| `Recv`, `Command`, `Done` | `netconn_recv`, `PollMessage` and its reply, `jpeg_data_ok=2` |

A `netconn_write` copies its data (`NETCONN_COPY`) in one step of the model: what may
change in between is what changes between two writes. `LateIsr` lets the sensor start a
frame before the interrupt of the last one has run; `Lossy` lets the FIFO overflow.

The sensor is free running: frames never end. Frames are numbered from 1 to
`FrameTags` and round again, which keeps the state finite; a new DMA run takes a number the
recorded frame does not have, and words of older runs are forgotten, so that two different
runs are never taken for one. Without `Traced` frame and position are not noted, only the run.

### NetconnServer

`nc` holds per netconn what `struct netconn` holds (`pcb`, `last_err`, `recvmbox`),
`netbufs` and `queues` the free elements of the pools, `peer` the client at the other
end and which commands it sent. An `OS_MAX_QS` of 4 leaves two queues for receive
mailboxes (`tcpip_thread` and the accept mailbox have the others). A frame is `Writes`
writes.

| Action | Code |
|---|---|
| `Connect` | `accept_function`, `netconn_alloc` |
| `Data`, `Fin` | `recv_tcp` with and without a pbuf |
| `Rst`, `Timeout` | `err_tcp`, called by `tcp_input` and `tcp_slowtmr` |
| `WriteDone`, `CloseDone` | `do_writemore` from `sent_tcp`/`poll_tcp`; `do_close_internal` from `poll_tcp` |
| `Stall`, `Vanish` | the client's window closes for good (`shut`); it or the network is lost |
| `Accept`, `AcceptTimeout` | `netconn_accept` |
| `ServeFrame`, `ServeIdle`, `Send`, `Ack` | the loop and its writes (`netconn_write`, `do_write`) |
| `RecvCall`, `PendData`, `PendNull`, `PendTimeout`, `RecvTimeout` | `netconn_recv` before and after it sleeps, with the window in which `err_tcp` may come |
| `Obey` | `PollMessage`, which may restart the controller |
| `Close`, `Delete` | `do_close`, `netconn_drain`, `do_delconn`, `netconn_free` |
| `Watchdog` | `led_task` starved by a loop that never pauses |

`Valid` is `sys_mbox_valid`, which takes a full mailbox for an invalid one; every
handler that asks it behaves accordingly.

A window that is `shut` stays so whatever the client does next, an end of stream or
silence: `do_writemore` finds no room, and `tcp_slowtmr` only probes it and counts no
retransmission (`tcp.c:831-841`), so neither `WriteDone` nor `Timeout` is enabled. Only a
reset ends such a write.

`ClientService` is the abstract specification: a line of connections, one that is served, and
of each client how many commands it has sent, which was obeyed last, and whether one of them
was lost. Clients are served one at a time in the order in which they joined; a command is
obeyed while its client is served, in the order sent and at most once, and one is skipped only
if one was lost; the first of the line is served when nobody is; only a restart sends everybody
away. `NetconnServer` refines it with the mapping at `Abstract`: the line is the accept mailbox,
the one served is `newconn` until it is deleted. All of the netconn layer (handlers, mailboxes
and pools, errors, what happens in the window before a sleep) maps to nothing.

### FlashWrite, ParamStore, AtomicParams

`FlashWrite` has one program counter per task inside `STMFLASH_Write`, the FLASH_CR lock
and status bits, and the HAL's `pFlash.Lock`; two tasks may be inside at once. Its
actions are the calls: `Unlock`, `Scan`, `Erase`, `EraseReturns`, `Program`,
`Programming`, `ProgramReturns`, `Lock`. `ParamStore` adds who calls it: `BootNet`
(`lwip_comm_default_ip_set`), `BootThread` (blank check), `Config`
(`MT9D111_Jpeg_Config`), `SetCommand`, `FrameLogo`, `FrameHeader`
(`MT9D111_Greate_Header`), `LongPress` and `Copy` (`key_task`), and what interrupts it:
`SystemReset`, `Watchdog`, `PowerCut`. Priorities are part of the model: `key_task`
takes a step only while the thread is blocked, and the thread may come back between any
two of its steps. `AtomicParams` is the abstract specification: a set command changes
its own fields only, a long press restores every field, a power cut harms only a block
that is being written. `ParamStore` refines it with the mapping given at `Atomic`.

### FactoryKey

`Move` is the user or a bounce; `Interrupt`, `Read`, `Down`, `Up`, `Clear` are the steps of
the handler; `Poll`, `Classify`, `ClearFlag`, `Act` those of `key_task`, with a step for
every comparison because each may read `timeUse` again. `now % Wrap` is `OSTimeGet`. The
ghosts `start`, `held` and `seen` say how long the key was really down, and `disturbed`
that the program had no chance to know: the key went down before the previous release
was looked at, or an edge fell into the handler.

### Command and CommandServer

A parameter is its kind (array or not) and its numbers; `TextLen` is the length its text
has, which is what `ParaLen`, `Lenth` and the limit of 20 characters depend on. `Residues` is
what an earlier parameter may have left behind it in `Para[20]`: digits, which belong to a
plain number (`Followed`), and the end of an array, which belongs to an array (`Overread`).
`FieldValue` is what `Pro_*` and `PollMessage` store, with what the stack held (`Garbage`)
for each number that was not found; `Pro_setsiz` computes with one of those too (`Given`).

`Receive` is `PollMessage` on one segment with all its ways out (`Unknown`, `BadParameter`,
`SetCommand`, `GetCommand`, `SetAndRestart`); `Reply` is the write and the `memset`
after it; `Send` cuts a command in two wherever the network pleases; `ConnectionLost`
leaves the loop with `ValidCmd` as it is; `FrameHeader` reads the block into
`SaveParaList`.

Two ghosts say what a client may expect: `told` is what the set commands meant, `misread`
the fields whose last set command was not read as sent (`ReadAsSent`): it had the wrong
number of numbers, one of ten digits, no brackets around several, or something behind it in
`Para[20]`. The code accepts all of these.

### MemPool, DebugConsole, NetStart

`memmap` is the table; a call of the program looks at one block per step (`Scan`) and
marks or clears in a step of its own (`Mark`, `Clear`), so that the console's calls, which
are whole because they run in an interrupt, may come between any two. `ptr` is what the
pointers hold, `owned` whose block it still is, `leaked` the blocks whose only pointer was
overwritten by a repeated start. `raced` records that the console took a block a call had
just counted as free: then two owners are possible, and `BlocksOwned` is not promised.

`Arrive`, `UartIsr`, `Collect` carry a byte from the wire to the data register and from
there to the line; `Scanned` and `UsmartScan` execute it. `Allocate`, `EthAllocated`,
`LwipAllocated`, `FreeLwip`, `PhyReset`, `PhyInit`, `TcpipInit`, `MboxNew` are the start in the
order of the code, `RecvmboxNew`, `RecvmboxMade`, `RecvmboxFree` the mailboxes of
connections. `LAN8720_Init` masks interrupts while it resets the PHY (`Masked`); a byte
that meets an unread one in the data register is lost. Which function a line calls is
reduced to the two that change the pool.

### OsQueue, EthDma, LwipTimers, NetPath

`q` is the queue's ring and of the waiting task's control block what belongs to it: its
place in the wait list, `OSTCBStatPend`, `OSTCBDly` and the message handed over. `OSQPend`
is split where the task sleeps (`OSQPend`, `OSQPended`). `rx` and `tx` are the rings with
the DMA's and the driver's descriptor; `Arrive` and `Send` are the DMA, which goes on
between any two steps of the program. `timers` is `next_timeout` with its differences;
the ghost `due` counts each armed timer's interval down by the tick.

| Action | Code |
|---|---|
| `IrqEnter`, `IrqTake`, `IrqDone`, `IrqClear` | `ETH_IRQHandler`: entry, a turn of its loop (`low_level_input`, `tcpip_input`), the last test, the clearing of the flags |
| `Fetch`, `Pend`, `Pended` | `sys_timeouts_mbox_fetch` and `sys_arch_mbox_fetch` up to the reading of the time, to the wait, and to the return |
| `Input`, `Call`, `Timer` | `tcpip_thread`'s cases, and the call of a timer's handler; a call is carried out by `Call` and answered then or by a later frame or timer (`MayAnswer`: `do_writemore` from `sent_tcp` and `poll_tcp`), or never |
| `Output`, `Poll` | `low_level_output`: the descriptor changes owner; the DMA is told. In between interrupts are masked, which is also why the HAL's lock, which `HAL_ETH_GetReceivedFrame` would not wait for, is always free in the interrupt |
| `ApiMsg`, `Release` | the server task: `tcpip_apimsg`, `netbuf_delete` |
| `Tick` | `SysTick_Handler` |

What lwIP does with a frame or a call is a choice: it keeps the frame for the server or
frees it, arms the TCP timer or not, sends a frame or not.

## 3. The runs

`tlc -config <cfg> <module>`, in this directory. Times are with two workers.

| Run | Distinct states | What it asks |
|---|---|---|
| `pipeline_faults` | 219 563 | Do interrupt and sender agree on buffers, length and marks with late interrupts, overflows, frames as large as a buffer, failing writes and restarts? Are frames recorded for ever, and dealt with unless an interrupt keeps falling between the two tests of `buf_flag`? |
| `pipeline_clean` | 1 092 829 | Without capture faults, is a frame delivered word for word? |
| `pipeline_length` | stops early | Is the length announced the one of the frame sent? (No.) |
| `server` | 752 444 | Are clients served one at a time in the order they came (`ServesInTurn`)? Are netconns, netbufs and queues accounted for, commands in order, callbacks safe, and are lost and closed clients let go whose window is open? |
| `server_drop` | stops early | Are data dropped of deleted connections only? (No.) |
| `params_alone` | about 134 000 | One actor at a time, power cuts anywhere: is the store atomic, do its users agree? |
| `params_race` | about 482 000 | Thread and `key_task` in the flash functions at once, with failing operations: does flash end locked, is nothing programmed over, does the camera come back? |
| `params_reset` | stops early | Does a long press leave the defaults in flash while a client is served? (No.) |
| `key` | 367 000 | Is the class of a press right, and is a long one acted upon? |
| `commands` | 1 814 738 | With parameters of the wrong numbers and remains of earlier ones: is every field stored as sent whose command was read so, is the size supported, are replies framed and to the point? |
| `memory` | 1 159 330 | With a console at work between any two steps, a late cable and failing starts: has a block two owners, is a null pointer used, is a line executed as sent, is the link used? |
| `network` | 667 392 | With rings and pools running out, ticks against posts, posts against ticks: do rings, mailbox and pools stay sound, do timers run when due, are frames, calls and timers all attended to? |

**Bounds, and why they are enough.**

* *Pipeline.* Two words a buffer with frames of up to two words make the length wrap
  (a frame exactly as large as the buffer); chunks of two words give a chunk, a
  remainder and none. `pipeline_clean` has buffers of six words and frames of four, so
  frames of one or two chunks, with and without remainder, never fill a buffer.
  Frames, restarts and connections are not bounded. Two numbers for frames
  (`FrameTags`) tell a frame from the one before and after it; what is older was
  forgotten. `pipeline_faults` needs the runs only (`Traced = FALSE`).
* *Server.* Two netconns and two queues, two netbufs, all of which may be lost or in use; a
  mailbox of two, so that it can be full with commands alone, with an end of stream, or
  with the message of `err_tcp`; two commands a client and three clients, so that each
  netconn is used again. Two writes a frame: a failure may be followed by another write.
  `BusyLimit` 2 stands for the 32 s of the watchdog: what matters is whether the loop ever
  pauses.
* *Parameters.* Two values (the default and another), three words of five: a field in a
  word with another one, a field in two words (the address), one alone. Two set
  commands and two power cuts, one of which may hit the repair of the other. In
  `params_race` two words, one set command and one press: two tasks in
  `STMFLASH_Write`, each at every step of the other.
* *Key.* Thresholds 1, 2, 5 instead of 2000, 5000, 15000 ms, the clock wraps at 7 and
  time runs to 8, so a press may lie across the wrap and last longer than every
  threshold; five edges are two presses and a bounce. (Six edges and time to 9 give
  1.1 million states and the same answer.)
* *Commands.* Three segments with every kind of field: scalar, truncated to eight bits
  (`setbrt 300`), array, size beyond the sensor, no parameter; and with what is accepted
  though it is wrong: an array for a scalar (`setcon [1,2]`), too few numbers (`setipa [1,2]`,
  `setsiz 500`), ten digits (`setrat 1000000000`). Behind a parameter nothing, or six digits
  and the last number of an array, with which some numbers grow to ten characters and others
  do not. `Garbage` is a negative number and one that does not fit in 16 bits, each missing
  element having its own. Two losses of the connection or restarts.
* *Memory.* A pool of 11 blocks for two pieces of the driver (2 blocks each), three of
  lwIP (1, 2, 1), a mailbox each for the thread and a connection, and a console that asks
  for 6: room for one start and a half, so that the second start fails in lwIP's pieces
  and the next in the driver's, and the console's piece alone or with a failed start may
  take what is needed. Two lines with room for two letters, the third letter too long;
  one retry of `LAN8720_Init`.
* *Network.* Rings of two and one descriptors, both of which fill up; two messages and
  three pbufs, so that the messages run out before the pbufs and, with frames kept for the
  server, after them; a mailbox of two, one less than the messages that may be under way,
  of which one is handed over. Intervals of 2 for a permanent timer and 1 for the one
  armed on demand: it goes before the other or behind it, and a message may take off a
  part of 2 or all of it (with 3 for 2 there are 1 240 080 states and the same answer).
  Nothing bounds the number of frames, ticks or calls.

No bound is a state constraint: all are guards of actions of the environment.
Deadlock is checked in every run but `server`, where a client that has closed its window may
hold the thread in a write for good (that is what the program does, see
[findings](#6-findings)), and `memory`, which ends when the operator and the connections
have done what their bounds allow.

**What the properties say** is stated above each of them in the modules. The ones worth
reading first: `SentFromRecordedRun`, `DeliveredExactly` (FramePipeline),
`NetconnsKept`, `CommandsInOrder`, `ServesInTurn`, `LostLetGo` (NetconnServer), `AtomicStore`,
`ProgramsErasedOnly`, `NeverRunsBlank` (ParamStore), `ClassRight` (FactoryKey),
`RepliesAnswer` (CommandServer), `BlocksOwned` (NetStart), `RingsAwake`, `TimerNotEarly`
(NetPath), `Fifo` (OsQueue).

## 4. Fairness

* `FramePipeline`: `WF(Thread)`: the thread is the highest-priority task but one, and the
  netconn calls are taken to return (that they may not, with a client that stops
  reading, is in `NetconnServer`). `WF(FrameIsr)`: nothing masks the interrupt for good.
  `WF` of `SensorWord` and `FrameEnd`: the sensor is free running. None of this keeps an
  interrupt from falling between `First` and `Second` in every turn of the loop: nothing
  in the program keeps the two apart. `FrameHandled` therefore has that case as an alternative; without it TLC finds
  the behaviour in which a waiting frame is passed over for ever.
* `NetconnServer`: `WF(Thread)` as above, a thread that waits not being enabled.
  `SF(ServeFrame)`: frames keep coming, which is `NextFrameRecorded` of the pipeline;
  strong, because the thread is at the test only once per turn. `WF(WriteDone)`: a client
  whose window is not `shut` and that has not vanished makes room by reading, also after its
  end of stream. `WF(CloseDone)`: `poll_tcp` runs and memory comes back. `WF(Timeout)`: the
  retransmission timer, which runs out only while the window is open. `WF(Watchdog)`: hardware.
* `ParamStore`: `WF(Tcp)`, `WF(Key)`, `WF(Watchdog)`. `Key` is enabled only while the thread is
  blocked; the thread blocks in every turn of its loop (10 ms in `netconn_recv`), so the
  fairness of `Key` asks nothing the priorities deny.
* `FactoryKey`: `WF(Isr)`, `WF(KeyTask)`. The user owes nothing.
* `CommandServer`: none; only safety is stated.
* `NetStart`: `WF(Task)`: `main` runs alone. `WF(Interrupt)`: interrupts are masked for the reset
  of the PHY only. `WF(Operator)`: a line that was begun is ended. The cable owes nothing.
* `NetPath`: `WF(Send)`: the DMA sends what it is told to. `WF(Irq)`: the highest priority.
  `SF(Thread)`, `SF(Tick)`: the highest priority among the tasks, and hardware; strong,
  because each goes on only while no Ethernet interrupt is pending. If frames came so fast
  for ever that the loop of `ETH_IRQHandler` never ended, nothing else would run: this is
  the premise of `ThreadServes`, not part of the fairness. That a call carried out is answered
  is neither assumed nor claimed.

## 5. What is proved

Eight modules of proofs, one for each component but one that two share. Their theorems
hold for every value of the constants that satisfies the assumptions declared with them
(`ASSUME` in the module that declares the constant; the runs evaluate each): any buffer,
frame and chunk size; any number of netconns, queues, netbufs and clients; any layout of
the block in words that puts each field in exactly one of them; any thresholds of the key and
any width of its clock; any set of commands, malformed ones included, and anything behind their
parameters; any pool, pieces, mailboxes and console lines;
any rings, queue size, messages and timers. Bounds such as `MaxSegments` or `MaxClients` are
constants too: the theorems hold for each of their values, so for behaviours of any length.

| Module | The theorem everything rests on |
|---|---|
| `FramePipeline_proofs` | `Invariance`: `Spec => []IInv` |
| `NetconnServer_proofs` | `ServerInvariance`: `Spec => []ServerInv` |
| `ParamStore_proofs` | `RaceInvariance`: `Spec => []RaceInv`; `AloneInvariance`: `Spec => []AloneInv` under `AloneAssumption` |
| `FactoryKey_proofs` | `KeyInvariance`: `Spec => []KeyInv` |
| `CommandServer_proofs` | `InvariantHolds`: `Spec => []IInv`; `CommandsFit`: `Spec => []BInv` |
| `NetStart_proofs` | `StartInvariance`: `Spec => [](StartInv /\ ConsoleInv)`; `DriverInvariance`: `Spec => []DriverInv` |
| `LwipTimers_proofs` | lemmas about the list of timers, for `NetPath_proofs` |
| `NetPath_proofs` | `RingsStayAwake`, `PathInvariance`: `Spec => [](QueueInv /\ TimersInv)`, `PoolsKept` |

Each of them is proved with a lemma for the initial states, one for each group of actions,
and one that puts the steps together.

### The pipeline

| Theorem | Property |
|---|---|
| `TypeCorrect` | `TypeOK`: every word sent is read inside a buffer |
| `IdleBufferTaken` | `SenderTakesIdleBuffer` |
| `RecordedKept` | `RecordedFrameKept` |
| `SentFromOneRun` | `SentFromRecordedRun` |
| `OnlySendingConsumes` | `ConsumedBySending` |
| `DeliveredInOrder` | `DeliveredExactly`, if `CleanCapture` |
| `OnlyRecordedSent`, `LengthNeverChanges` | `SendingOnlyRecorded`, `LengthFrozen` (no run: steps of the argument) |

The interesting invariants are not inductive one by one. That the client is sent words of
one DMA run needs that the recorded frame lies in the buffer `buf_flag` makes the sender
take (`RecordedFrameKept`), which needs that the interrupt records before it flips, that
what the DMA has stored since it was armed is of the present run (`RunFilled`), and that the
DMA writes the other buffer (`SenderTakesIdleBuffer`); and the sender's locals must follow
from the globals as long as no frame has overtaken it (`SendsRecordedBuffer`), which needs
that a frame is being sent only while it is marked (`SendingOnlyRecorded`).
`NothingCapturedAtBoot` carries all of this over a restart, which keeps the SDRAM. The
conjunction, with `TypeOK`, is `IInv`. The arithmetic of chunk and remainder is in
`ChunkArithmetic` and `WordsAreCells`.

`DeliveredExactly` is about the words of one *frame*, in order and complete, and holds only
if the capture is clean: `CleanCapture`: `Traced`, `~LateIsr`, `~Lossy`, `MaxFrameWords < BufWords` (as in run
`pipeline_clean`; the first makes the model note the words, each of the others is needed, see
[findings](#6-findings)). Then the run stored so far is a beginning of the sensor's
current frame (`CapturedInOrder`), a recorded frame is a whole one with its true length
(`RecordedWhole`), and what was sent is its beginning (`SentInOrder`): `DInv`.

### The connection server

| Theorem | Property |
|---|---|
| `TypeCorrect` | `TypeOK`: no pool exceeds what it began with, no mailbox its size |
| `NetconnsReturn` | `NetconnsKept` |
| `ObeyedInOrder` | `CommandsInOrder` |
| `ServesClients` | `ServesInTurn`: `NetconnServer` implements `ClientService`, step by step |
| `FatalErrorsStay` | `FatalStays` |
| `TwoLeaks` | `PoolsShrinkTwoWays` |

`ServerInv` says who has a netconn (`Owned`: it waits once in the accept mailbox or it is
served), that a netconn in the pool is as `netconn_alloc` finds it (`FreeIsNone`), that what
the pools lost stays lost (`PoolsBounded`), and of each client what order needs: as long as no
message of it was dropped, the commands it has sent and the thread has not obeyed are those in
its mailbox and in the thread's hands, so that a connection that may still bring data has
nothing but commands in its mailbox. The proof of `CommandsInOrder` needs what its first form,
which looked only at the last command obeyed, did not say; the property now states of every
client how many commands were obeyed and which comes next. `PoolsShrinkTwoWays` counts the
queues by the cardinality of the set of netconns with a mailbox, one lemma per handler.

`ServesClients` needs two more conjuncts, which the safety properties did without. `Rising`: the
commands in a mailbox were sent after the last one taken and rise, whether or not others were
lost, and a netconn without a mailbox has none; so the next command taken is never a repetition.
`Vacant`: a netconn in the pool has no client at its other end, so that `accept_function` maps
to a client that joins. Every step on one netconn is of one of four forms: nothing of its
commands changes (`Quiet`), a command comes or is lost (`CommandComes`), an end of stream comes
(`EndComes`), the thread takes a message (`MessageTaken`). The first and the third map to a
stutter, the second to `Command`, the fourth to `Obey`, since the thread obeys what it takes
or sends its client away. `Connect`, `Accept`, `Delete` and `Restart` map to `Join`, `Serve`,
`Leave` and `Restart`. `CommandsInOrder` follows from the same forms.

### The saved parameters

| Theorem | Property | Hypothesis |
|---|---|---|
| `TypeCorrect` | `TypeOK` | |
| `LocksLeft` | `LeavesLocked` | |
| `ErasedOnlyProgrammed` | `ProgramsErasedOnly` | |
| `SizesAgree` | `FrameSizes` | `AloneAssumption` |
| `AddressKept` | `AddressStored` | `AloneAssumption` |
| `BlankReplaced` | `NeverRunsBlank` | `AloneAssumption`, `Erased \notin Values` |
| `AtomicStored` | `AtomicStore`: `ParamStore` implements `AtomicParams` | `AloneAssumption` |
| `DefaultsHold` | `DefaultsRestored`, of which run `params_reset` shows that it fails otherwise | `AloneAssumption` |

`RaceInv` is about two tasks at once, failing flash included: `LocksHeld` (the HAL's lock is
that of the task inside the HAL; FLASH_CR is unlocked only by a task that is in
`STMFLASH_Write`; an error bit is that of a call just returned), `Control` (where one task is,
where the other may be), and that a task that has passed its scan, and has not been
interrupted, has blank words before it. That an interrupted task programs nothing that is not
blank rests on the other one leaving FLASH_CR locked.

`AloneAssumption == ~Concurrent /\ ~FlashFails` is the case the comments of the code have in
mind: a client waits while `key_task` writes, and the flash works (run `params_alone`). There
`AloneInv` relates the words written so far, the copy the task writes from, and what `tcp`
took from the block at boot; the refinement maps every step of `STMFLASH_Write` to a stutter
but the one that completes the block. `Erased \notin Values` excludes `setmod 255` and
`setcap 255`, with which the theorem is false (see [findings](#6-findings)).

### The key

| Theorem | Property |
|---|---|
| `TypeCorrect` | `TypeOK` (no run checks it) |
| `ClassCorrect` | `ClassRight` |

`KeyInv`: while a press is seen as it is, `timeUse` holds the time of the press, and after the
release the duration, both modulo the clock (`PressKept`, `DurationKept`); at each comparison of
`key_task`, what the previous ones found is true of `timeUse` (`Found`). `ClockDifference` is the
arithmetic: the difference of two times modulo the clock, with the correction `EXTI9_5_IRQHandler`
makes, is the duration modulo the clock.

### The commands

| Theorem | Property |
|---|---|
| `RepliesAreAnswers` | `RepliesAnswer` |
| `SizesFit` | of `Pro_setsiz` what `SizeSupported` asks of the block |
| `TypeCorrect` | `TypeOK` |
| `StoredIsSent` | `StoredAsSent` |
| `SizeIsSupported` | `SizeSupported` |
| `RepliesFramed` | `ReplyFramed` |

None has a hypothesis besides the assumptions of the module: `Commands` is any set of
commands with any parameters, `Residues` and `Garbage` are anything. Where the code goes wrong
the properties themselves say so: `StoredAsSent` is about the fields outside `misread`,
`SizeSupported` about a size that is not in it, `ReplyFramed` about get commands and set
commands whose field is not in it. What is claimed of a misread command is that it touches no
other field, that its own keeps its width (`TypeOK`), and that the next command of the field
that is read as sent mends it.

`IInv` is `Received` (the inbox holds whole commands, cuts or nothing that was not sent),
`RamIsBlock` (`SaveParaList` is what the block holds) and `Pending`: between segments
`ValidCmd` is clear, and while a segment is answered it answers that segment, unless a reply
is left that could not be written.

`BInv` adds `Stored`: block and RAM are one list within the widths of `SavePara_TypeDef`, which
outside `misread` is what was meant, with a size that fits the sensor; `Framed`: `Lenth` and
`ParaLen` count the reply to the command just accepted alike; and the bounds of every text: the
longest, the list of commands, makes `ParaLen` 97. Each set command has two cases
(`ValueStored`). If it is read as sent, `Scanned` says that `Scan_Params` returns its numbers.
If not, `ScanTyped` says that it returns numbers, which needs that the selection `Taken` has a
number at each position (`TakenTyped`: the position of a number among those taken is an
injection between finite sets of one size), and `ValueTyped` that what is stored has the
width of the field, whatever the stack held.

### Memory, start, console

| Theorem | Property | Hypothesis |
|---|---|---|
| `OneOwner` | `BlocksOwned` | |
| `LinesWhole` | `ExecutedAsSent` | |
| `DriverGetsMemory` | `DmaMemoryOwned`, the first half of `NullNeverUsed` | |
| `NullNotUsed` | `NullNeverUsed` | `LaidOut(place)` |

`PoolTypes` and `PoolOwners`: a block is marked exactly if it is in one piece that someone owns,
leaked, or marked by the call under way, and the piece the call is at is nobody's. An interrupted
call may have counted a block as free that the console took meanwhile; everything about owners is
under `~raced` for that reason. `StartOwners` says which pieces the start may still ask for
(those that are fresh), so that a repeated start overwrites pointers but takes no owner's block.

`DriverInv` is why the DMA is never started at address 0, although the test after the four
allocations of the driver cannot fail. A search of `my_mem_malloc` has found no room above
where it is and counts from a marked block (`Searched`), so that when it ends without a result,
each piece as large or larger would be refused, too, while nothing is freed (`Full`, `Refused`);
the heap, asked for later and larger (`HeapAssumption`), then is refused, and that result is
tested. At the PHY every piece of the driver is owned (`Supplied`). A console that frees memory
makes room again, and all of this is under `~conFreed`.

That `sys_mbox_new` is given the memory it clears does need room. `LaidOut(place)` names a
place for each piece of one start and for the mailbox, each ending where the one before it
begins, as the search, which runs downwards, finds them; the code's pool has 1600 blocks of 64
bytes (`malloc.h:22`), and one start takes about 60 KB: 15 buffers of 1524 bytes with their
descriptors, the heap of 16 000, some 15 KB of pools and the stacks. `RoomInv`: as long as
nothing has leaked and the console neither holds nor freed memory, either this is the first
start, whose pieces lie as `place` says, the call under way being about to find the next place
(`First`); or a repeated one, whose next answer overwrites a pointer and so leaks (`Again`); or
the start is over (`Started`).

`LineInv` follows a line from the wire through the data register into the line buffer, byte by
byte.

### The network path

| Theorem | Property |
|---|---|
| `RingsStayAwake` | `RingsAwake` |
| `TimersNotEarly` | `TimerNotEarly` |
| `QueueIsMailbox` | `Fifo`: `OsQueue` implements `Mailbox`, step by step |
| `PoolsKept` | `PoolsAccounted` |

`RingsInv`: the descriptors the DMA owns are one arc of the ring, from its index to the driver's,
and whoever has work was told. `QueueInv`: the ring of `OSQ`, the wait list and the message handed
over hold each message once, and the ring is empty while the task waits. `TimersInv`: the sum of
the differences up to a timer is at least what is left of its interval, up to the
milliseconds a message counts too much; `LwipTimers_proofs` has what insertion and removal do to
these sums. `PoolsInv` adds that each message and each pbuf is in one place.

### What proving changed in the models

* `FactoryKey`: a restart clears `keyFlag`, a variable of the program, which the model had kept.
* `CommandsInOrder` and the assumptions `WordsAssumption` (every field in exactly one word) and
  `MemoryAssumption` (each piece has one pointer) were too weak, and now say what the code has.
* Operators that the provers could not compute were reformulated, with the same values: the
  sums of `LwipTimers` and the text lengths of `Command` as recursive functions and
  cardinalities, the selection of the numbers in `Scan_Params` as a set of indices (`Taken`).
* `NullNeverUsed` (NetStart) became the conjunction of two claims: one holds for every pool, the
  other only for a pool with room for one start.

### Only model-checked

* **Liveness** (`FrameHandled`, `NextFrameRecorded`, `LostLetGo`, `ClosedLetGo`, `LongPressRestarts`,
  `LongPressActs`, `LinkUsed`, `ThreadServes`): temporal formulas under fairness, and ENABLED,
  are out of the provers' reach.
* The three properties of the runs that end in a counterexample ([findings](#6-findings)).

## 6. Findings

Each has a run that ends in a counterexample.

1. **A frame goes out under another frame's length** (`pipeline_length`,
   `tcp_server_demo.c:228`). The interrupt keeps `jpeg_data_len` at the first waiting
   frame but flips `buf_flag` for each one, and the sender takes the buffer by the flag:
   the newer frame is announced, and cut or padded, with the older one's length.
2. **Data of a connection in use are acknowledged and dropped** (`server_drop`,
   `sys_arch.c:164`). `sys_mbox_valid` calls a full mailbox invalid, which `recv_tcp`
   takes for "recvmbox already deleted"; `netconn_recv` then fails until something
   drains the mailbox, which nothing does.
3. **A long press may not restore the defaults** (`params_reset`, `mt9d111.c:504`). The
   thread, serving a client, reloads `SaveParaList` from the half-written block while
   `key_task` writes it from there.

Met while reading, without a run of their own:

* A reply that could not be written is sent to the next client: the `memset` of `ValidCmd`
  (`tcp_server_demo.c:518`) comes after the `break` (`tcp_server_demo.c:328`).
  `RepliesAnswer` excepts it.
* A number may be stored with digits that were not sent: `PollMessage` copies the characters of
  the parameter into `Para[20]` on its stack and no terminator with them
  (`protocol.c:127`); `Scan_Params`, which is to read "the integer or the array" of the string
  (`protocol.c:297`, in Chinese), reads on. What lies there is up to the build and to earlier
  calls, an earlier, longer parameter for example: with a 7 behind it `setmod 1` is stored
  as 17. `StoredAsSent` excepts the field.
* A parameter with fewer numbers than its field has is accepted, and the rest is what the stack
  held: `setsiz 500` and `setsiz [640]` store it as the height and compute the width with it
  (`protocol.c:414-429`), `setipa [1,2]` as two parts of the address. So does a number of
  ten digits for its whole field, since `Scan_Params` then returns 0 and writes nothing
  (`protocol.c:316`). `SizeSupported` and `StoredAsSent` except them.
* The reply to such a command is misframed: `setcon [1,2]` has Lenth 15+2+1 and a number of ten
  digits 15+0+1, but 29 bytes are written, with one value (`protocol.c:174`,
  `tcp_server_demo.c:327`). `ReplyFramed` excepts them.
* A waiting frame may be passed over: the thread tests `buf_flag==1` and then `buf_flag==0`
  (`tcp_server_demo.c:225`, 353); an interrupt between the two makes both tests fail, and it
  may fall there in every turn. `FrameHandled` excepts it.
* lwIP's timers are to be called "after that the timer should expire" (`timers.c:257`),
  but a message fetched in the tick in which the wait began reports 4294967 ms
  (`sys_arch.c:138`, `>` where `sys_arch_sem_wait` has `>=`) and makes up all that is left
  of the first timer. `TimerNotEarly` excepts it, and the millisecond each message counts
  too much.
* A frame that is stored between the last test of `ETH_IRQHandler` and the clearing of the
  flags (`lan8720.c:135-141`) waits for the next frame. `RingsAwake` excepts it.
* Every start that fails for want of a link leaves its memory behind (`lwip_comm.c:147`);
  when the pool is eaten up, no link that comes later is used. `LinkUsed` excepts it.
* `ETH_Mem_Malloc` tests the addresses of its pointers (`lan8720.c:169`) and so "never returns
  failure"; what saves it is that the heap, allocated later and larger, is refused too.
  `NullNeverUsed` says so.
* An end of stream that meets a full mailbox is lost, and `netconn_recv` then times out for
  ever. `ClosedLetGo` excepts it.
* The console is set up (`main.c:113`) before the pool is (`main.c:118`): what it allocated in
  between would be wiped. The timer's first interrupt is at once (`HAL_TIM_Base_Init` sets the
  update flag) and the next ones every 10 ms, since the handler sets the period to 100 ticks
  of 0.1 ms (`usmart.c:175`), where the comment at its start (`usmart.c:204`) says 100 ms;
  the model begins after the pool is set up.
* `jpeg_data_process` arms the DMA with the buffer of a waiting frame when two frames
  end while one waits (`tcp_server_demo.c:89-103`); the sender then sends words of two
  frames. The properties of the pipeline say `overtaken = 0` for that reason.
* After a FIFO overflow the truncated frame is recorded like a whole one
  (`stm32f4xx_hal_dcmi.c:478`, `tcp_server_demo.c:80`).
* A netconn deleted while its mailbox is full leaves the OS queue behind
  (`api_msg.c:660`); two of them leave none for new clients.
* A failed acknowledgement leaves its netbuf behind (`tcp_server_demo.c:334`, 462, 516);
  after two, `netconn_recv` fails for every client until a restart.
  `PoolsShrinkTwoWays` says that these two are the only ways.
* `netconn_write` has no timeout (`lwipopts.h:94` sets one for receiving only): a client
  that keeps its window closed holds the thread for good, and no other client is served:
  whether it answers the probes, half-closes or is gone, for the probes of a closed window are
  not counted (`tcp.c:831-841`). `LostLetGo` and `ClosedLetGo` except it.
* The address is read before a blank block is repaired (`lwip_comm.c:91-114`): the first
  boot runs at 255.255.255.255. `AddressStored` excepts that boot.
* After a failed erase `STMFLASH_Write` goes on and programs words that are not erased
  (`stmflash.c:69-86`); a command is acknowledged whether or not the flash was written.
* `setmod` and `setcap` of 255 both make the next boot take the block for a blank one.
* `timeUse` is a time between press and release. If a release is looked at after the
  next press, 5 to 15 s after the start of the system, that time is classified as a long
  press (`exti.c:42`, `main.c:186`). `ClassRight` excepts a press that overtakes
  `key_task`.
* `LAN8720_WritePHY` reads the register (`lan8720.c:111-115`); it is not called.
* `lwip_comm_init` documents the results 1 to 3 and returns 1 to 4
  (`lwip_comm.c:135-171`).

## 7. What is abstracted or not modelled

*Pipeline*: the text of logo and header; words of 32 bits are opaque; `delay_us(10)`; the
test at `tcp_server_demo.c:484` of a result that cannot be a closed connection there any
more.

*Server*: results of netconn calls other than the fatal ones are one value in
`last_err`; a freed mailbox (NULL) queried by `sys_mbox_valid` is taken for invalid
(`OSQQuery` rejects a null pointer); the listening netconn and its queue are always
there; the TCP core is its callbacks.

*Parameters*: `mode` and `cap`, read and written together, are one field, and the rate,
brightness, contrast, exposure and polarity, which nothing reads back at boot, share the
word of others; the erase and the programming of a word stall the core, so each is atomic
for the tasks; a power cut leaves the word or block under way at any value. That an erase
with FLASH_CR locked does nothing, and programming then sets PGSERR, is the reference
manual's, not the repository's. Without `FlashFails` two set commands with three words
were also checked (1.08 million states).

*Key*: a unit of time is longer than the handler; no tick is served while it runs, since
SysTick has the lowest priority.

*Commands*: flash writes succeed at once (`ParamStore` has their steps); two commands in
one segment are not sent, the second would be ignored; text that is not decimal; the side
effects of `setbrt`, `setcon` and `setexp` on PWM and sensor; numbers of more than ten
characters count as ten; behind a parameter lies the rest of an earlier one, if anything. The
floating-point products of `Pro_setsiz` are taken for exact quotients: 0.75 is exact in
binary, and 4.0/3.0, a double slightly below the true quotient, rounds back to the
integer when multiplied by a multiple of three up to 768.

*Memory, start, console*: the external and the core-coupled pool, from which nothing is
allocated after the start; `myrealloc`, which nothing calls; what `HAL_ETH_Init` writes to
registers; the text of console lines, and the console's functions that read and write any
address, which could break anything.

*Network*: a frame has one element of the pool of pbufs (a full frame takes three of 512 bytes,
so `Pbufs` is the number of frames the pool has room for); a call is not only answered by
`tcpip_thread` itself: writing and closing end in callbacks, which frames and timers bring
(`MayAnswer`), and whether they do is in `NetconnServer`. A frame fits into one descriptor of 1524 bytes (the MTU is 1500), so the loops
over several descriptors run once. Store-and-forward is on and forwarding of frames with
errors off (`stm32f4xx_hal_eth.c:1736-1740`), so no descriptor carries ES and no underflow
(TUS) occurs. Out-of-order segments are not queued, so the pool of pbufs posts no
callbacks. One task calls lwIP (`tcp_server_thread`), one call at a time. A handler sends
at most one frame; several are several handlers. Reception goes on with the next frame
when a descriptor has come back, poll demand or not (reference manual), so RBUS is a flag
only. The clock does not wrap (49 days).

*Not modelled*: the components marked so in `PROJECT.json`, with reasons. The repository has
about 258 000 lines, of which the camera's own program is some 8 000 (a third of them an LCD driver it does not call); the rest is the
vendor's register definitions (`stm32f429xx.h`), the HAL drivers for peripherals the camera
does not use, lwIP with protocols that are switched off (PPP, SNMP, DHCP, IPv6), uC/OS-II
and uC/LIB, fonts and examples. There is nothing of the program's behaviour in them to
model, and so the map covers a small share of all lines, but most of those in which the
camera keeps state that two actors share. Of the camera's own files, what is left out
writes registers in a fixed order (`mt9d111.c`, `sccb.c`, `myiic.c`, `pcf8574.c`, `timer.c`,
`sdram.c`, `delay.c`, `sys.c`), prints, or is not called (`lcd.c`, `key.c`).

## 8. Plan

Done, in this order: the pipeline (the camera's purpose) with its proofs, the connection
server, the parameters with their abstract specification, the key, the commands with
their proofs, memory and network start with the console, the network path.

Left:

1. Composition of `FactoryKey` with the press of `ParamStore`.

Theorems worth adding, now that every safety property of the passing runs has one:

2. Each run of a start that fails leaves at most one set of pieces behind: the leaked blocks are
   bounded by the repeats (`lwip_comm.c:147`).
3. `EthDma` against two queues of frames, as `OsQueue` against `Mailbox`; the ring would have to
   carry which frame is in which descriptor.
4. The steps `LostLetGo` and `ThreadServes` rest on, as action properties: what a step brings
   nearer and none takes back. The temporal argument itself stays with TLC.
