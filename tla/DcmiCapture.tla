---------------------------- MODULE DcmiCapture ----------------------------
(***************************************************************************)
(* The capture half of the frame pipeline: the image sensor, the DCMI      *)
(* interface, DMA2 stream 1 in circular mode, the two SDRAM frame buffers  *)
(* and the end-of-frame interrupt (jpeg_data_process).                     *)
(*                                                                         *)
(* The sensor is free running: it emits words whatever the software does.  *)
(* The DMA moves each word to the buffer it was last armed with.  The      *)
(* interrupt handler records how long the frame was, flips the buffer and  *)
(* arms the DMA again.  A word in memory carries where it came from (which *)
(* DMA run stored it, which frame and which word of the frame it is): the  *)
(* program does not see these tags, the properties do.  There is no last   *)
(* frame: numbers of frames and runs are used again.                       *)
(***************************************************************************)
EXTENDS Integers

CONSTANTS
    BufWords,       \* jpeg_buf_size: words in each of the two buffers
    MaxFrameWords,  \* longest frame the sensor emits, in words
    Traced,         \* the history tells frames and words apart, not runs only
    FrameTags,      \* bound: numbers that tell one frame from another
    LateIsr,        \* the sensor may start a frame before the ISR has run
    Lossy           \* the DCMI FIFO may overflow

ASSUME BufAssumption == BufWords \in Nat \ {0}
ASSUME SensorAssumption == MaxFrameWords \in Nat \ {0}
ASSUME TraceAssumption == Traced \in BOOLEAN /\ FrameTags \in Nat \ {0}
ASSUME FaultAssumption == LateIsr \in BOOLEAN /\ Lossy \in BOOLEAN

Buffers == {1, 2}               \* jpeg_data_buf, jpeg_data_buf2
Index == 0 .. (BufWords - 1)
Cell == [run : Nat, frame : Nat, word : Nat]
NoCell == [run |-> 0, frame |-> 0, word |-> 0]

VARIABLES
    buf_flag,       \* 0 or 1, flipped by every end-of-frame interrupt
    jpeg_data_ok,   \* 0 no frame yet, 1 frame to process, 2 frame processed
    jpeg_data_len,  \* words in the frame recorded last
    dma,            \* the DMA stream: enabled, target buffer, NDTR
    ovf_it,         \* overflow interrupt enabled
    capture,        \* DCMI_CR_CAPTURE
    frame_pending,  \* FRAMERI: end of frame raised, interrupt not yet served
    sensor,         \* frame being emitted and words of it emitted so far
    mem,            \* contents of the two buffers
    run,            \* history: the DMA run, from one arming to the next
    ended,          \* history: the frame that ended last, and its true length
    pub,            \* history: what jpeg_data_len describes
    overtaken       \* history: 1 when a frame ended since jpeg_data_ok became 1

dcmiVars == <<buf_flag, jpeg_data_ok, jpeg_data_len, dma, ovf_it, capture,
              frame_pending, sensor, mem, run, ended, pub, overtaken>>

hwVars == <<capture, frame_pending, sensor, mem, ended>>

DcmiTypeOK ==
    /\ buf_flag \in {0, 1}
    /\ jpeg_data_ok \in {0, 1, 2}
    /\ jpeg_data_len \in Index
    /\ dma \in [on : BOOLEAN, buf : Buffers, ndtr : 1 .. BufWords]
    /\ ovf_it \in BOOLEAN
    /\ capture \in BOOLEAN
    /\ frame_pending \in BOOLEAN
    /\ sensor \in [frame : Nat, word : Nat]
    /\ mem \in [Buffers -> [Index -> Cell]]
    /\ run \in Nat
    /\ ended \in [frame : Nat, words : Nat]
    /\ pub \in [run : Nat, frame : Nat, words : Nat, buf : Buffers]
    /\ overtaken \in {0, 1}

-----------------------------------------------------------------------------
(* Frames are numbered round and round, and compared for equality only. *)
NextFrame == IF sensor.frame < FrameTags THEN sensor.frame + 1 ELSE 1

(* What the history notes of the number of a frame or of a word. *)
Noted(n) == IF Traced THEN n ELSE 0

(* Two numbers tell the DMA runs apart: a new run takes the one the recorded run
   does not have, and the words of every other run are forgotten. *)
StartRun(kept) ==
    /\ run' = IF kept = 1 THEN 2 ELSE 1
    /\ mem' = [b \in Buffers |-> [i \in Index |->
                   IF mem[b][i].run = kept THEN mem[b][i] ELSE NoCell]]

(* DCMI_DMA_Init(target, ..., jpeg_buf_size, ...): HAL_DMA_DeInit, HAL_DMA_Init
   and HAL_DMA_Start leave the stream enabled, with NDTR reloaded. *)
Armed(target) == [on |-> TRUE, buf |-> target, ndtr |-> BufWords]

(* The stream after a reset: disabled, not yet armed. *)
Disarmed == [on |-> FALSE, buf |-> 1, ndtr |-> BufWords]

\* Mutant: the two buffers exchanged.
NextTarget_Swapped(flag) == IF flag = 0 THEN 1 ELSE 2

(* The buffer jpeg_data_process arms for the next frame. *)
NextTarget(flag) == IF flag = 0 THEN 2 ELSE 1

(* The buffer the sender takes for a value of buf_flag (p = ...). *)
SendBuffer(flag) == IF flag = 1 THEN 1 ELSE 2

(* Words the DMA has stored since it was armed, as the counter shows them. *)
Transferred == BufWords - dma.ndtr

DcmiInit ==
    /\ buf_flag = 0
    /\ jpeg_data_ok = 0
    /\ jpeg_data_len = 0
    /\ dma = Disarmed
    /\ ovf_it = FALSE
    /\ capture = FALSE
    /\ frame_pending = FALSE
    /\ sensor = [frame |-> 1, word |-> 0]
    /\ mem = [b \in Buffers |-> [i \in Index |-> NoCell]]
    /\ run = 0
    /\ ended = [frame |-> 0, words |-> 0]
    /\ pub = [run |-> 0, frame |-> 0, words |-> 0, buf |-> 1]
    /\ overtaken = 0

-----------------------------------------------------------------------------
(* jpeg_test: DCMI_Init enables the interrupts, the DMA is armed with the first
   buffer, DCMI_Start turns the capture on. *)
StartCapture ==
    /\ ovf_it' = TRUE
    /\ dma' = Armed(1)
    /\ StartRun(pub.run)
    /\ capture' = TRUE
    /\ UNCHANGED <<buf_flag, jpeg_data_ok, jpeg_data_len, frame_pending,
                   sensor, ended, pub, overtaken>>

(* NVIC_SystemReset: the program's variables and the peripherals restart, the
   SDRAM keeps its contents.  The history goes on counting. *)
SystemReset ==
    /\ buf_flag' = 0
    /\ jpeg_data_ok' = 0
    /\ jpeg_data_len' = 0
    /\ dma' = Disarmed
    /\ ovf_it' = FALSE
    /\ capture' = FALSE
    /\ frame_pending' = FALSE
    /\ sensor' = [frame |-> NextFrame, word |-> 0]
    /\ overtaken' = 0
    /\ UNCHANGED <<mem, run, ended, pub>>

(* The sensor may emit a word: a frame is never longer than MaxFrameWords, and
   unless LateIsr the vertical blanking outlasts the interrupt latency. *)
SensorReady ==
    /\ capture
    /\ sensor.word < MaxFrameWords
    /\ frame_pending => LateIsr

NextWord == sensor' = [sensor EXCEPT !.word = @ + 1]

(* One word through the DMA: circular mode reloads NDTR when it runs out.  With
   the stream disabled the word is lost. *)
SensorWord ==
    /\ SensorReady
    /\ NextWord
    /\ IF dma.on
         THEN /\ mem' = [mem EXCEPT ![dma.buf][Transferred] =
                            [run   |-> run,
                             frame |-> Noted(sensor.frame),
                             word  |-> Noted(sensor.word)]]
              /\ dma' = [dma EXCEPT !.ndtr = IF @ = 1 THEN BufWords ELSE @ - 1]
         ELSE UNCHANGED <<mem, dma>>
    /\ UNCHANGED <<buf_flag, jpeg_data_ok, jpeg_data_len, ovf_it, capture,
                   frame_pending, run, ended, pub, overtaken>>

(* The FIFO overflows and a word is lost.  The first time, the overflow branch of
   HAL_DCMI_IRQHandler disables its own interrupt and aborts the DMA stream; the
   interrupt is never enabled again, so later overflows only lose the word. *)
Overflow ==
    /\ Lossy
    /\ SensorReady
    /\ NextWord
    /\ ovf_it' = FALSE
    /\ dma' = IF ovf_it THEN [dma EXCEPT !.on = FALSE] ELSE dma
    /\ UNCHANGED <<buf_flag, jpeg_data_ok, jpeg_data_len, capture,
                   frame_pending, mem, run, ended, pub, overtaken>>

(* End of frame: the raw flag is set; a flag not yet served stays one flag. *)
FrameEnd ==
    /\ capture
    /\ sensor.word > 0
    /\ frame_pending => LateIsr
    /\ frame_pending' = TRUE
    /\ ended' = [frame |-> Noted(sensor.frame), words |-> Noted(sensor.word)]
    /\ sensor' = [frame |-> NextFrame, word |-> 0]
    /\ UNCHANGED <<buf_flag, jpeg_data_ok, jpeg_data_len, dma, ovf_it, capture,
                   mem, run, pub, overtaken>>

\* Mutant: one word too many (kept inside the buffer).
FrameLength_OneMore == IF dma.ndtr = 1 THEN Transferred ELSE Transferred + 1

(* jpeg_buf_size-__HAL_DMA_GET_COUNTER(&DMADMCI_Handler) *)
FrameLength == Transferred

(* A frame is recorded: its length, and the mark that it waits for the sender. *)
Record ==
    /\ jpeg_data_len' = FrameLength
    /\ jpeg_data_ok' = 1
    /\ pub' = [run |-> run, frame |-> ended.frame, words |-> ended.words,
               buf |-> dma.buf]
    /\ overtaken' = 0

\* Mutant: a waiting frame that is overtaken is dropped by the interrupt.
Overtake_Drop ==
    /\ overtaken' = 1
    /\ jpeg_data_ok' = 0
    /\ UNCHANGED <<jpeg_data_len, pub>>

(* A frame is not recorded: one is still waiting. *)
Overtake ==
    /\ overtaken' = 1
    /\ UNCHANGED <<jpeg_data_len, jpeg_data_ok, pub>>

\* Mutant: only the state "no frame yet" accepts a frame.
RecordFrame_OnlyFirst == IF jpeg_data_ok = 0 THEN Record ELSE Overtake

(* jpeg_data_process, first part: the length is taken only while no recorded
   frame is waiting. *)
RecordFrame == IF jpeg_data_ok # 1 THEN Record ELSE Overtake

\* Mutant: buf_flag is not brought back to 0.
FlipBuffer_NoWrap ==
    /\ dma' = Armed(NextTarget(buf_flag))
    /\ StartRun(pub'.run)
    /\ buf_flag' = IF buf_flag < 2 THEN buf_flag + 1 ELSE buf_flag

(* jpeg_data_process, second part: the DMA goes to the other buffer, whether or
   not the sender is done with it. *)
FlipBuffer ==
    /\ dma' = Armed(NextTarget(buf_flag))
    /\ StartRun(pub'.run)
    /\ buf_flag' = IF buf_flag + 1 = 2 THEN 0 ELSE buf_flag + 1

(* The frame branch of HAL_DCMI_IRQHandler and HAL_DCMI_FrameEventCallback. *)
FrameIsr ==
    /\ frame_pending
    /\ frame_pending' = FALSE
    /\ RecordFrame
    /\ FlipBuffer
    /\ UNCHANGED <<ovf_it, capture, sensor, ended>>

DcmiNext == SensorWord \/ Overflow \/ FrameEnd \/ FrameIsr

=============================================================================
