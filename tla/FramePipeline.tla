--------------------------- MODULE FramePipeline ---------------------------
(***************************************************************************)
(* DcmiCapture composed with tcp_server_thread, the task that sends the    *)
(* frames: boot, accept, the two "send picture" branches of the serving    *)
(* loop, the idle branch, the command each of them may receive, and every  *)
(* way out of the loop.  netconn calls return any result a cfg allows; what *)
(* the client got is kept word by word, so that the properties can compare *)
(* it with what the sensor emitted.                                        *)
(***************************************************************************)
EXTENDS DcmiCapture, Sequences

CONSTANTS
    ChunkWords,     \* words in one netconn_write of the picture (1024 bytes)
    WriteErrors     \* results of netconn_write besides ERR_OK

ASSUME ChunkAssumption == ChunkWords \in Nat \ {0}
ASSUME ErrorAssumption == WriteErrors \subseteq {"ERR_CLSD", "ERR_RST", "other"}

WriteResults == {"ERR_OK"} \cup WriteErrors
Closed == {"ERR_CLSD", "ERR_RST"}       \* the results that end a connection

VARIABLES
    pc,             \* where tcp_server_thread is
    err,            \* its local err
    tx              \* its locals p, len, i, and what the client got so far

vars == <<dcmiVars, pc, err, tx>>
threadVars == <<pc, err, tx>>

Labels == {"boot", "accept", "first", "second", "logo", "header", "chunks",
           "tail", "end", "recv", "command", "done", "idle", "idle_recv",
           "idle_command"}

NoTx == [buf |-> 1, len |-> 0, i |-> 0, sent |-> <<>>, whole |-> TRUE,
         next |-> "first"]

TypeOK ==
    /\ DcmiTypeOK
    /\ pc \in Labels
    /\ err \in WriteResults
    /\ tx \in [buf : Buffers, len : Index, i : Nat, sent : Seq(Cell),
               whole : BOOLEAN, next : {"first", "second"}]

Init ==
    /\ DcmiInit
    /\ pc = "boot"
    /\ err = "ERR_OK"
    /\ tx = NoTx

-----------------------------------------------------------------------------
goto(label) == pc' = label

(* MT9D111_Init is retried until it succeeds, then jpeg_test. *)
Boot ==
    /\ pc = "boot"
    /\ StartCapture
    /\ goto("accept")
    /\ UNCHANGED <<err, tx>>

(* netconn_accept: only ERR_OK enters the serving loop.  What a branch left in its
   locals is not kept here nor after Done: Begin sets them all. *)
Accept ==
    /\ pc = "accept"
    /\ \/ err' = "ERR_OK" /\ goto("first")
       \/ err' \in WriteResults \ {"ERR_OK"} /\ goto("accept")
    /\ tx' = NoTx
    /\ UNCHANGED dcmiVars

(* break: netconn_close, netconn_delete and back to netconn_accept.  The frame
   being sent keeps its jpeg_data_ok. *)
Break == goto("accept")

(* A sending branch is entered: the length is copied, p set to the buffer. *)
Begin(buffer, next) ==
    /\ tx' = [NoTx EXCEPT !.buf = buffer, !.len = jpeg_data_len, !.next = next]
    /\ goto("logo")

\* Mutant: buf_flag is not tested.
First_AnyFlag ==
    /\ pc = "first"
    /\ IF jpeg_data_ok = 1
         THEN Begin(SendBuffer(1), "second")
         ELSE goto("second") /\ UNCHANGED tx
    /\ UNCHANGED <<dcmiVars, err>>

(* if (jpeg_data_ok==1 && buf_flag==1) *)
First ==
    /\ pc = "first"
    /\ IF jpeg_data_ok = 1 /\ buf_flag = 1
         THEN Begin(SendBuffer(1), "second")
         ELSE goto("second") /\ UNCHANGED tx
    /\ UNCHANGED <<dcmiVars, err>>

(* if (jpeg_data_ok==1 && buf_flag==0) ... else, evaluated after the first branch *)
Second ==
    /\ pc = "second"
    /\ IF jpeg_data_ok = 1 /\ buf_flag = 0
         THEN Begin(SendBuffer(0), "first")
         ELSE goto("idle") /\ UNCHANGED tx
    /\ UNCHANGED <<dcmiVars, err>>

(* netconn_write followed by the test for a closed connection. *)
Write(results, label) ==
    \E e \in results : /\ err' = e
                       /\ IF e \in Closed THEN Break ELSE goto(label)

Logo ==
    /\ pc = "logo"
    /\ Write(WriteResults, "header")
    /\ UNCHANGED <<dcmiVars, tx>>

Header ==
    /\ pc = "header"
    /\ Write(WriteResults, "chunks")
    /\ UNCHANGED <<dcmiVars, tx>>

\* Mutant: the remainder is taken of the wrong quantity.
LastWords_OffByOne == (tx.len + 1) % ChunkWords

(* len_m and len_n *)
WholeChunks == tx.len \div ChunkWords
LastWords == tx.len % ChunkWords

(* n words of the buffer being sent, from word lo on, as they are now. *)
Words(lo, n) == [j \in 1 .. n |-> mem[tx.buf][lo + j - 1]]

(* for(i = 0; i < len_m; i++): the loop stops at the first result other than
   ERR_OK, but only a closed connection leaves the branch. *)
Chunk ==
    /\ pc = "chunks"
    /\ tx.i < WholeChunks
    /\ \/ /\ err' = "ERR_OK"
          /\ tx' = [tx EXCEPT !.i = @ + 1,
                              !.sent = @ \o Words(tx.i * ChunkWords, ChunkWords)]
          /\ UNCHANGED pc
       \/ /\ tx' = [tx EXCEPT !.whole = FALSE]
          /\ Write(WriteErrors, "tail")
    /\ UNCHANGED dcmiVars

ChunksDone ==
    /\ pc = "chunks"
    /\ tx.i = WholeChunks
    /\ IF err \in Closed THEN Break ELSE goto("tail")
    /\ UNCHANGED <<dcmiVars, err, tx>>

(* The remainder; netconn_write of no byte at all returns ERR_OK. *)
Tail_ ==
    /\ pc = "tail"
    /\ Write(IF LastWords = 0 THEN {"ERR_OK"} ELSE WriteResults, "end")
    /\ tx' = IF err' = "ERR_OK"
               THEN [tx EXCEPT !.sent = @ \o Words(WholeChunks * ChunkWords,
                                                  LastWords)]
               ELSE [tx EXCEPT !.whole = FALSE]
    /\ UNCHANGED dcmiVars

SendEnd ==
    /\ pc = "end"
    /\ Write(WriteResults, "recv")
    /\ UNCHANGED <<dcmiVars, tx>>

(* netconn_recv: a command, a closed connection, or nothing within 10 ms. *)
Recv(here, command, next) ==
    /\ pc = here
    /\ \/ goto(command)
       \/ Break
       \/ goto(next)
    /\ UNCHANGED <<dcmiVars, err, tx>>

(* PollMessage and the acknowledgement.  Two commands reset the controller. *)
Command(here, next) ==
    /\ pc = here
    /\ \/ /\ Write(WriteResults, next)
          /\ UNCHANGED <<dcmiVars, tx>>
       \/ /\ SystemReset
          /\ goto("boot")
          /\ err' = "ERR_OK"
          /\ tx' = NoTx

\* Mutant: the frame is not marked as processed.
Done_NoMark ==
    /\ pc = "done"
    /\ goto(tx.next)
    /\ tx' = NoTx
    /\ UNCHANGED <<dcmiVars, err>>

(* jpeg_data_ok=2 *)
Done ==
    /\ pc = "done"
    /\ jpeg_data_ok' = 2
    /\ goto(tx.next)
    /\ tx' = NoTx
    /\ UNCHANGED <<buf_flag, jpeg_data_len, dma, ovf_it, run, pub, overtaken,
                   hwVars, err>>

(* The else branch: the result of an earlier write is tested before receiving. *)
Idle ==
    /\ pc = "idle"
    /\ IF err \in Closed THEN Break ELSE goto("idle_recv")
    /\ UNCHANGED <<dcmiVars, err, tx>>

Receive == Recv("recv", "command", "done") \/ Recv("idle_recv", "idle_command", "first")
Obey == Command("command", "done") \/ Command("idle_command", "first")

Thread ==
    \/ Boot \/ Accept \/ First \/ Second \/ Logo \/ Header \/ Chunk \/ ChunksDone
    \/ Tail_ \/ SendEnd \/ Receive \/ Obey \/ Done \/ Idle

Capture == DcmiNext /\ UNCHANGED threadVars

Next == Thread \/ Capture

(* The highest-priority interrupt, a free-running sensor, and a task that no
   application task outranks (netconn calls return, see the README). *)
Spec ==
    /\ Init
    /\ [][Next]_vars
    /\ WF_vars(Thread)
    /\ WF_vars(FrameIsr /\ UNCHANGED threadVars)
    /\ WF_vars(FrameEnd /\ UNCHANGED threadVars)
    /\ WF_vars(SensorWord /\ UNCHANGED threadVars)

-----------------------------------------------------------------------------
Sending == pc \in {"logo", "header", "chunks", "tail", "end", "recv", "command",
                   "done"}

(* The DMA is never armed with the buffer buf_flag makes the sender take
   (the two readings of buf_flag, tcp_server_demo.c:52-53 and 89-103): at the
   instant a sending branch is entered, its buffer is not being written. *)
SenderTakesIdleBuffer == dma.buf # SendBuffer(buf_flag)

(* From the interrupt that records a frame until the next one, every word that
   jpeg_data_len announces is in the buffer the sender would take and was stored
   by the DMA run that ended with the recorded frame (jpeg_data_process). *)
RecordedFrameKept ==
    jpeg_data_ok = 1 /\ overtaken = 0 =>
        /\ pub.buf = SendBuffer(buf_flag)
        /\ \A i \in 0 .. (jpeg_data_len - 1) : mem[pub.buf][i].run = pub.run

(* As long as no later frame has ended since the frame being sent was recorded,
   the client has been sent words of that frame's DMA run only, under that
   frame's length. *)
SentFromRecordedRun ==
    Sending /\ overtaken = 0 =>
        /\ tx.len = jpeg_data_len
        /\ \A j \in 1 .. Len(tx.sent) : tx.sent[j].run = pub.run

(* A frame is being sent only while it is marked as waiting: no interrupt and no
   other branch marks it otherwise under the sender's feet. *)
SendingOnlyRecorded == Sending => jpeg_data_ok = 1

(* Transmission complete, no write failed, no later frame: the client holds
   exactly the words of the recorded frame, in order, and was announced their
   number (the arithmetic of len_m, len_n and the chunk loop).  Holds of a
   capture without overflow, late interrupt or oversized frame. *)
DeliveredExactly ==
    pc \in {"recv", "command", "done"} /\ tx.whole /\ overtaken = 0 =>
        /\ Len(tx.sent) = pub.words
        /\ tx.len = pub.words
        /\ \A j \in 1 .. Len(tx.sent) :
               tx.sent[j].frame = pub.frame /\ tx.sent[j].word = j - 1

(* The length of a waiting frame is never changed: the interrupt leaves it alone
   until the sender has marked the frame processed (the jpeg_data_ok!=1 guard). *)
LengthFrozen ==
    [][jpeg_data_ok = 1 /\ jpeg_data_ok' = 1 => jpeg_data_len' = jpeg_data_len]_vars

(* A waiting frame stops waiting only when it has been sent to its end or the
   controller restarts: a lost connection does not consume it. *)
ConsumedBySending ==
    [][jpeg_data_ok = 1 /\ jpeg_data_ok' # 1 => pc = "done" \/ pc' = "boot"]_vars

(* A served client's waiting frame is eventually dealt with or the client is gone,
   unless frames go on ending between the two tests of buf_flag: an interrupt
   there flips the flag after the first test and before the second, so both fail,
   and a free-running sensor may do that in every turn of the loop. *)
FrameHandled ==
    \/ jpeg_data_ok = 1 /\ pc # "accept" ~> jpeg_data_ok # 1 \/ pc = "accept"
    \/ []<><<FrameIsr /\ pc = "second">>_vars

(* A processed frame makes room: another one is recorded, or the controller
   restarts. *)
NextFrameRecorded ==
    jpeg_data_ok = 2 ~> jpeg_data_ok = 1 \/ pc = "boot"

-----------------------------------------------------------------------------
(* What a comment says of the same variables. *)

(* tcp_server_demo.c:55: jpeg_data_len is the length of the JPEG data in the
   buffer, so what a sending branch announces is the length of the frame in the
   buffer it sends. *)
AnnouncedLengthIsBuffers ==
    [][pc' = "logo" /\ pc # "logo" /\ ~frame_pending => tx'.len = ended.words]_vars

=============================================================================
