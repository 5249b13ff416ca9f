------------------------ MODULE FramePipeline_proofs ------------------------
(* Proofs about FramePipeline, for every value of its constants. *)
EXTENDS FramePipeline, SequenceTheorems, TLAPS

(* What the DMA has stored since it was armed is in the buffer it is armed with. *)
RunFilled == \A i \in 0 .. (Transferred - 1) : mem[dma.buf][i].run = run

(* Before jpeg_test nothing captures, and buf_flag has its initial value. *)
NothingCapturedAtBoot ==
    pc = "boot" => ~capture /\ ~frame_pending /\ buf_flag = 0

(* The branch being executed sends the buffer the recorded frame is in. *)
SendsRecordedBuffer == Sending /\ overtaken = 0 => tx.buf = pub.buf

IInv ==
    /\ TypeOK
    /\ SenderTakesIdleBuffer
    /\ RunFilled
    /\ NothingCapturedAtBoot
    /\ RecordedFrameKept
    /\ SendingOnlyRecorded
    /\ SendsRecordedBuffer
    /\ SentFromRecordedRun

-----------------------------------------------------------------------------
(* A new run: the words of the run that is kept stay, the numbers stay in their types. *)
LEMMA RunStarted ==
    ASSUME mem \in [Buffers -> [Index -> Cell]], NEW kept \in Nat, StartRun(kept)
    PROVE  /\ run' \in Nat
           /\ mem' \in [Buffers -> [Index -> Cell]]
           /\ \A b \in Buffers, i \in Index : mem[b][i].run = kept => mem'[b][i] = mem[b][i]
<1>1. NoCell \in Cell
  BY DEF NoCell, Cell
<1>2. \A b \in Buffers, i \in Index : mem[b][i] \in Cell
  OBVIOUS
<1> QED
  BY <1>1, <1>2 DEF StartRun

(* What the history notes are numbers. *)
LEMMA NotedNumbers ==
    ASSUME sensor \in [frame : Nat, word : Nat]
    PROVE  NextFrame \in Nat /\ Noted(sensor.frame) \in Nat /\ Noted(sensor.word) \in Nat
BY TraceAssumption DEF NextFrame, Noted

(* The chunk loop and the remainder stay inside the announced length: chunk i of
   len_m ends at or before len, and len_m chunks and len_n words make len. *)
LEMMA ChunkArithmetic ==
    ASSUME NEW len \in Nat, NEW C \in Nat \ {0}
    PROVE  /\ len \div C \in Nat
           /\ len % C \in 0 .. (C - 1)
           /\ (len \div C) * C \in Nat
           /\ (len \div C) * C + (len % C) = len
           /\ \A i \in Nat : i < len \div C => i * C \in Nat /\ i * C + C <= len
<1> DEFINE q == len \div C
           r == len % C
<1>1. q \in Nat /\ r \in 0 .. (C - 1) /\ len = C * q + r
  BY Z3
<1>2. q * C = C * q /\ q * C \in Nat
  BY <1>1, Z3
<1>3. ASSUME NEW i \in Nat, i < q PROVE i * C \in Nat /\ i * C + C <= len
  <2> DEFINE d == q - (i + 1)
  <2>1. d \in Nat /\ q = d + i + 1
    BY <1>1, <1>3
  <2>2. d * C \in Nat /\ i * C \in Nat
    BY <2>1, Z3
  <2>3. q * C = d * C + i * C + C
    <3>1. \A a, b, c \in Int : (a + b) * c = a * c + b * c
      BY Z3
    <3>2. d \in Int /\ i \in Int /\ C \in Int /\ 1 * C = C
      BY <2>1
    <3>3. (d + i) * C = d * C + i * C
      BY <3>1, <3>2
    <3>4. ((d + i) + 1) * C = (d + i) * C + 1 * C
      BY <3>1, <3>2
    <3>5. q * C = ((d + i) + 1) * C
      BY <2>1
    <3> HIDE DEF d
    <3> QED
      BY <3>2, <3>3, <3>4, <3>5
  <2> QED
    BY <1>1, <1>2, <2>2, <2>3
<1> QED
  BY <1>1, <1>2, <1>3


(* What Words returns: n cells of the buffer, one by one. *)
LEMMA WordsAreCells ==
    ASSUME TypeOK, NEW lo \in Nat, NEW n \in Nat, lo + n <= tx.len
    PROVE  /\ Words(lo, n) \in Seq(Cell)
           /\ Len(Words(lo, n)) = n
           /\ \A j \in 1 .. n :
                /\ Words(lo, n)[j] = mem[tx.buf][lo + j - 1]
                /\ lo + j - 1 \in 0 .. (tx.len - 1)
<1>1. tx.len \in Index /\ tx.buf \in Buffers /\ mem \in [Buffers -> [Index -> Cell]]
  BY DEF TypeOK, DcmiTypeOK
<1>2. \A j \in 1 .. n : lo + j - 1 \in 0 .. (tx.len - 1) /\ lo + j - 1 \in Index
  BY <1>1, BufAssumption DEF Index
<1>3. \A j \in 1 .. n : mem[tx.buf][lo + j - 1] \in Cell
  BY <1>1, <1>2
<1>4. Words(lo, n) \in [1 .. n -> Cell]
  BY <1>3 DEF Words
<1>5. Words(lo, n) \in Seq(Cell) /\ Len(Words(lo, n)) = n
  BY <1>4
<1> QED
  BY <1>2, <1>5 DEF Words

(* A step of the thread that leaves the capture alone, sends no word of the
   picture and does not enter a sending branch keeps the invariant. *)
LEMMA ControlStep ==
    ASSUME IInv, UNCHANGED dcmiVars,
           tx' = tx \/ tx' = [tx EXCEPT !.whole = FALSE],
           pc' \in Labels, err' \in WriteResults,
           pc' = "boot" => pc = "boot",
           Sending' => Sending
    PROVE  IInv'
<1> USE DEF IInv, dcmiVars
<1>1. TypeOK'
  <2>1. DcmiTypeOK'
    BY DEF TypeOK, DcmiTypeOK
  <2>2. tx' \in [buf : Buffers, len : Index, i : Nat, sent : Seq(Cell),
                 whole : BOOLEAN, next : {"first", "second"}]
    <3>1. tx \in [buf : Buffers, len : Index, i : Nat, sent : Seq(Cell),
                  whole : BOOLEAN, next : {"first", "second"}]
      BY DEF TypeOK
    <3> HIDE DEF IInv, dcmiVars
    <3> QED
      BY <3>1
  <2> HIDE DEF IInv, dcmiVars
  <2> QED
    BY <2>1, <2>2 DEF TypeOK
<1>2. SenderTakesIdleBuffer' /\ RunFilled' /\ RecordedFrameKept'
  BY DEF SenderTakesIdleBuffer, RunFilled, RecordedFrameKept, Transferred
<1>3. NothingCapturedAtBoot'
  BY DEF NothingCapturedAtBoot
<1>4. tx'.buf = tx.buf /\ tx'.len = tx.len /\ tx'.sent = tx.sent
  BY DEF TypeOK
<1>5. SendingOnlyRecorded' /\ SendsRecordedBuffer' /\ SentFromRecordedRun'
  BY <1>4 DEF SendingOnlyRecorded, SendsRecordedBuffer, SentFromRecordedRun
<1> QED
  BY <1>1, <1>2, <1>3, <1>5

(* A step that sends n more words of the buffer, all within the announced
   length, keeps the invariant. *)
LEMMA SendingStep ==
    ASSUME IInv, UNCHANGED dcmiVars, pc \in {"chunks", "tail"},
           pc' \in Labels \ {"boot"}, err' \in WriteResults,
           NEW lo \in Nat, NEW n \in Nat, lo + n <= tx.len,
           NEW i \in Nat,
           tx' = [tx EXCEPT !.i = i, !.sent = @ \o Words(lo, n)]
    PROVE  IInv'
<1> DEFINE w == Words(lo, n)
<1> USE DEF IInv
<1>1. /\ tx.sent \in Seq(Cell) /\ w \in Seq(Cell) /\ Len(w) = n
      /\ \A j \in 1 .. n : w[j] = mem[tx.buf][lo + j - 1]
                           /\ lo + j - 1 \in 0 .. (tx.len - 1)
  BY WordsAreCells DEF TypeOK
<1> HIDE DEF w
<1>2. /\ tx.sent \o w \in Seq(Cell)
      /\ Len(tx.sent \o w) = Len(tx.sent) + n
      /\ \A j \in 1 .. Len(tx.sent) + n :
            (tx.sent \o w)[j] = IF j <= Len(tx.sent) THEN tx.sent[j]
                                                     ELSE w[j - Len(tx.sent)]
  <2>1. /\ tx.sent \o w \in Seq(Cell)
        /\ Len(tx.sent \o w) = Len(tx.sent) + Len(w)
        /\ \A j \in 1 .. Len(tx.sent) + Len(w) :
              (tx.sent \o w)[j] = IF j <= Len(tx.sent) THEN tx.sent[j]
                                                       ELSE w[j - Len(tx.sent)]
    <3> HIDE DEF IInv
    <3> QED
      BY ONLY <1>1, ConcatProperties
  <2> QED
    BY ONLY <1>1, <2>1
<1>3. tx' = [tx EXCEPT !.i = i, !.sent = tx.sent \o w]
  BY DEF w
<1>4. TypeOK'
  BY <1>2, <1>3 DEF TypeOK, DcmiTypeOK, dcmiVars
<1>5. SenderTakesIdleBuffer' /\ RunFilled' /\ RecordedFrameKept'
  BY DEF SenderTakesIdleBuffer, RunFilled, RecordedFrameKept, Transferred, dcmiVars
<1>6. NothingCapturedAtBoot'
  BY DEF NothingCapturedAtBoot
<1>7. Sending
  BY DEF Sending
<1>8. SendingOnlyRecorded' /\ SendsRecordedBuffer'
  BY <1>3, <1>7 DEF SendingOnlyRecorded, SendsRecordedBuffer, dcmiVars, TypeOK
<1>9. SentFromRecordedRun'
  <2> SUFFICES ASSUME overtaken = 0
               PROVE  /\ tx'.len = jpeg_data_len
                      /\ \A j \in 1 .. Len(tx'.sent) : tx'.sent[j].run = pub.run
    BY DEF SentFromRecordedRun, dcmiVars
  <2>1. /\ tx.len = jpeg_data_len /\ tx.buf = pub.buf
        /\ \A j \in 1 .. Len(tx.sent) : tx.sent[j].run = pub.run
        /\ \A k \in 0 .. (jpeg_data_len - 1) : mem[pub.buf][k].run = pub.run
    BY <1>7 DEF SentFromRecordedRun, SendsRecordedBuffer, SendingOnlyRecorded,
                RecordedFrameKept
  <2>2. tx'.len = tx.len /\ tx'.sent = tx.sent \o w
    BY <1>3 DEF TypeOK
  <2>3. ASSUME NEW j \in 1 .. Len(tx.sent) + n
        PROVE  (tx.sent \o w)[j].run = pub.run
    <3>1. CASE j <= Len(tx.sent)
      BY <1>1, <1>2, <2>1, <3>1
    <3>2. CASE ~(j <= Len(tx.sent))
      <4>1. Len(tx.sent) \in Nat
        BY <1>1
      <4>2. j - Len(tx.sent) \in 1 .. n
        BY <3>2, <4>1
      <4>3. (tx.sent \o w)[j] = w[j - Len(tx.sent)]
        BY <1>2, <3>2
      <4>4. /\ w[j - Len(tx.sent)] = mem[tx.buf][lo + (j - Len(tx.sent)) - 1]
            /\ lo + (j - Len(tx.sent)) - 1 \in 0 .. (tx.len - 1)
        BY ONLY <1>1, <4>2
      <4> QED
        BY ONLY <2>1, <4>3, <4>4
    <3> QED
      BY <3>1, <3>2
  <2> QED
    BY <1>2, <2>1, <2>2, <2>3
<1> QED
  BY <1>4, <1>5, <1>6, <1>8, <1>9


-----------------------------------------------------------------------------
LEMMA InitInvariant == Init => IInv
<1> SUFFICES ASSUME Init PROVE IInv
  OBVIOUS
<1> USE BufAssumption DEF Init, DcmiInit, Disarmed
<1>1. TypeOK
  <2>1. NoTx \in [buf : Buffers, len : Index, i : Nat, sent : Seq(Cell),
                  whole : BOOLEAN, next : {"first", "second"}]
    BY DEF NoTx, Buffers, Index
  <2>2. mem \in [Buffers -> [Index -> Cell]]
    BY DEF NoCell, Cell
  <2>3. dma \in [on : BOOLEAN, buf : Buffers, ndtr : 1 .. BufWords]
    BY DEF Buffers
  <2> QED
    <3>1. 0 \in Index /\ 1 \in Buffers
      BY DEF Index, Buffers
    <3>2. DcmiTypeOK
      BY <2>2, <2>3, <3>1 DEF DcmiTypeOK
    <3>3. pc \in Labels /\ err \in WriteResults
      BY DEF Labels, WriteResults
    <3> QED
      BY <2>1, <3>2, <3>3 DEF TypeOK
<1>2. SenderTakesIdleBuffer /\ RunFilled /\ NothingCapturedAtBoot
  BY DEF SenderTakesIdleBuffer, SendBuffer, RunFilled, Transferred,
         NothingCapturedAtBoot
<1>3. RecordedFrameKept /\ SendingOnlyRecorded /\ SendsRecordedBuffer
      /\ SentFromRecordedRun
  BY DEF RecordedFrameKept, SendingOnlyRecorded, SendsRecordedBuffer,
         SentFromRecordedRun, Sending
<1> QED
  BY <1>1, <1>2, <1>3 DEF IInv

(* One word stored by the DMA: it goes to the buffer the sender does not take. *)
LEMMA SensorWordStep ==
    ASSUME IInv, SensorWord, UNCHANGED threadVars
    PROVE  IInv'
<1> USE DEF IInv, SensorWord, SensorReady, NextWord, threadVars
<1>1. TypeOK
  OBVIOUS
<1>2. Transferred \in Index
  <2>1. dma.ndtr \in 1 .. BufWords
    BY <1>1 DEF TypeOK, DcmiTypeOK
  <2> QED
    BY ONLY <2>1, BufAssumption DEF Transferred, Index
<1>3. /\ dma'.buf = dma.buf /\ dma'.on = dma.on
      /\ dma'.ndtr \in 1 .. BufWords
      /\ Transferred' = IF dma.on THEN (IF dma.ndtr = 1 THEN 0 ELSE Transferred + 1)
                                  ELSE Transferred
  <2>1. dma \in [on : BOOLEAN, buf : Buffers, ndtr : 1 .. BufWords]
    BY <1>1 DEF TypeOK, DcmiTypeOK
  <2>2. CASE dma.on
    <3>1. dma' = [dma EXCEPT !.ndtr = IF dma.ndtr = 1 THEN BufWords ELSE dma.ndtr - 1]
      BY <2>2
    <3>2. /\ dma'.buf = dma.buf /\ dma'.on = dma.on
          /\ dma'.ndtr = IF dma.ndtr = 1 THEN BufWords ELSE dma.ndtr - 1
      BY <2>1, <3>1
    <3> QED
      BY <2>1, <2>2, <3>2, BufAssumption DEF Transferred
  <2>3. CASE ~dma.on
    BY <2>1, <2>3 DEF Transferred
  <2> QED
    BY <2>2, <2>3
<1>4. /\ mem' \in [Buffers -> [Index -> Cell]]
      /\ \A b \in Buffers \ {dma.buf} : mem'[b] = mem[b]
      /\ \A i \in Index \ {Transferred} : mem'[dma.buf][i] = mem[dma.buf][i]
      /\ dma.on => mem'[dma.buf][Transferred].run = run
  <2>1. CASE dma.on
    <3>1. [run |-> run, frame |-> Noted(sensor.frame), word |-> Noted(sensor.word)] \in Cell
      BY <1>1, NotedNumbers DEF TypeOK, DcmiTypeOK, Cell
    <3>2. mem \in [Buffers -> [Index -> Cell]] /\ dma.buf \in Buffers
      BY <1>1 DEF TypeOK, DcmiTypeOK
    <3> DEFINE cell == [run |-> run, frame |-> Noted(sensor.frame),
                        word |-> Noted(sensor.word)]
    <3>3. mem' = [mem EXCEPT ![dma.buf] = [mem[dma.buf] EXCEPT ![Transferred] = cell]]
      BY <2>1
    <3>4. cell \in Cell /\ cell.run = run
      BY <3>1
    <3> HIDE DEF cell
    <3>5. /\ mem' \in [Buffers -> [Index -> Cell]]
          /\ \A b \in Buffers \ {dma.buf} : mem'[b] = mem[b]
          /\ mem'[dma.buf] = [mem[dma.buf] EXCEPT ![Transferred] = cell]
      BY <1>2, <3>2, <3>3, <3>4
    <3>6. mem[dma.buf] \in [Index -> Cell]
      BY <3>2
    <3> QED
      BY <1>2, <3>4, <3>5, <3>6
  <2>2. CASE ~dma.on
    BY <1>1, <2>2 DEF TypeOK, DcmiTypeOK
  <2> QED
    BY <2>1, <2>2
<1>5. TypeOK'
  <2>1. dma' \in [on : BOOLEAN, buf : Buffers, ndtr : 1 .. BufWords]
    BY <1>1, <1>3 DEF TypeOK, DcmiTypeOK
  <2>2. sensor' \in [frame : Nat, word : Nat]
    BY <1>1 DEF TypeOK, DcmiTypeOK
  <2>3. DcmiTypeOK'
    BY <1>1, <1>4, <2>1, <2>2 DEF TypeOK, DcmiTypeOK
  <2> QED
    BY <2>3 DEF TypeOK
<1>6. SenderTakesIdleBuffer'
  BY <1>3 DEF SenderTakesIdleBuffer
<1>7. RunFilled'
  <2> SUFFICES ASSUME NEW i \in 0 .. (Transferred' - 1)
               PROVE  mem'[dma.buf][i].run = run
    BY <1>3 DEF RunFilled
  <2>1. CASE dma.on /\ i = Transferred
    BY <1>4, <2>1
  <2>2. CASE ~dma.on \/ i # Transferred
    <3>1. i \in 0 .. (Transferred - 1) /\ i \in Index
      BY <1>2, <1>3, <2>2, BufAssumption DEF Index
    <3>2. mem'[dma.buf][i] = mem[dma.buf][i]
      BY <1>2, <1>4, <3>1 DEF Index
    <3> QED
      BY <3>1, <3>2 DEF RunFilled
  <2> QED
    BY <2>1, <2>2
<1>8. NothingCapturedAtBoot'
  BY DEF NothingCapturedAtBoot
<1>9. RecordedFrameKept'
  <2>1. SendBuffer(buf_flag) \in Buffers \ {dma.buf}
    BY DEF SendBuffer, SenderTakesIdleBuffer, Buffers
  <2> QED
    BY <1>4, <2>1 DEF RecordedFrameKept
<1>10. SendingOnlyRecorded' /\ SendsRecordedBuffer' /\ SentFromRecordedRun'
  BY DEF SendingOnlyRecorded, SendsRecordedBuffer, SentFromRecordedRun, Sending
<1> QED
  BY <1>5, <1>6, <1>7, <1>8, <1>9, <1>10

(* The end-of-frame interrupt: what was filled becomes what the sender takes. *)
LEMMA FrameIsrStep ==
    ASSUME IInv, FrameIsr, UNCHANGED threadVars
    PROVE  IInv'
<1> USE DEF IInv, FrameIsr, FlipBuffer, threadVars
<1>1. TypeOK /\ Transferred \in Index
  <2>1. TypeOK /\ dma.ndtr \in 1 .. BufWords
    BY DEF TypeOK, DcmiTypeOK
  <2> HIDE DEF IInv, FrameIsr, FlipBuffer
  <2> QED
    BY <2>1, BufAssumption DEF Transferred, Index
<1>2. /\ dma' = Armed(NextTarget(buf_flag))
      /\ dma'.buf = NextTarget(buf_flag) /\ dma'.buf \in Buffers
      /\ Transferred' = 0
      /\ buf_flag' \in {0, 1} /\ buf_flag' # buf_flag
  BY <1>1, BufAssumption DEF TypeOK, DcmiTypeOK, Armed, NextTarget, Transferred, Buffers
<1>3. TypeOK'
  <2>1. dma' \in [on : BOOLEAN, buf : Buffers, ndtr : 1 .. BufWords]
    BY <1>2, BufAssumption DEF Armed
  <2>2. /\ jpeg_data_len' \in Index /\ jpeg_data_ok' \in {0, 1, 2}
        /\ pub' \in [run : Nat, frame : Nat, words : Nat, buf : Buffers]
        /\ overtaken' \in {0, 1}
    <3>1. CASE jpeg_data_ok # 1
      BY <1>1, <3>1 DEF TypeOK, DcmiTypeOK, RecordFrame, Record, FrameLength
    <3>2. CASE jpeg_data_ok = 1
      <4>1. UNCHANGED <<jpeg_data_len, jpeg_data_ok, pub>> /\ overtaken' = 1
        BY <3>2 DEF RecordFrame, Overtake
      <4> HIDE DEF IInv, FrameIsr, FlipBuffer
      <4> QED
        BY <1>1, <4>1 DEF TypeOK, DcmiTypeOK
    <3> QED
      BY <3>1, <3>2
  <2>3. run' \in Nat /\ mem' \in [Buffers -> [Index -> Cell]]
    <3>1. mem \in [Buffers -> [Index -> Cell]] /\ pub'.run \in Nat
      BY <1>1, <2>2 DEF TypeOK, DcmiTypeOK
    <3> QED
      BY <3>1, RunStarted
  <2>4. frame_pending' \in BOOLEAN
    BY Zenon
  <2> QED
    BY <1>1, <1>2, <2>1, <2>2, <2>3, <2>4 DEF TypeOK, DcmiTypeOK
<1>4. SendBuffer(buf_flag') = dma.buf
  BY <1>1, <1>2 DEF TypeOK, DcmiTypeOK, SenderTakesIdleBuffer, SendBuffer, Buffers
<1>5. SenderTakesIdleBuffer'
  BY <1>1, <1>2 DEF TypeOK, DcmiTypeOK, SenderTakesIdleBuffer, SendBuffer, NextTarget
<1>6. RunFilled'
  BY <1>2 DEF RunFilled
<1>7. NothingCapturedAtBoot'
  BY DEF NothingCapturedAtBoot
<1>8. CASE jpeg_data_ok # 1
  <2>1. ~Sending
    BY <1>8 DEF SendingOnlyRecorded
  <2>2. /\ jpeg_data_len' = Transferred /\ pub'.run = run /\ pub'.buf = dma.buf
        /\ dma.buf \in Buffers /\ run \in Nat
    BY <1>1, <1>8 DEF RecordFrame, Record, FrameLength, TypeOK, DcmiTypeOK
  <2>3. \A i \in Index : mem[dma.buf][i].run = run => mem'[dma.buf][i].run = run
    <3>1. mem \in [Buffers -> [Index -> Cell]] /\ StartRun(run)
      BY <1>1, <2>2 DEF TypeOK, DcmiTypeOK
    <3> QED
      BY <2>2, <3>1, RunStarted
  <2>4. RecordedFrameKept'
    <3>1. RunFilled /\ \A i \in 0 .. (Transferred - 1) : i \in Index
      BY <1>1, BufAssumption DEF Index
    <3> HIDE DEF IInv, FrameIsr, FlipBuffer
    <3> QED
      BY <1>4, <2>2, <2>3, <3>1 DEF RecordedFrameKept, RunFilled
  <2>5. SendingOnlyRecorded' /\ SendsRecordedBuffer' /\ SentFromRecordedRun'
    BY <2>1 DEF SendingOnlyRecorded, SendsRecordedBuffer, SentFromRecordedRun, Sending
  <2> QED
    BY <1>3, <1>5, <1>6, <1>7, <2>4, <2>5
<1>9. CASE jpeg_data_ok = 1
  <2>1. overtaken' # 0 /\ jpeg_data_ok' = 1
    BY <1>1, <1>9 DEF RecordFrame, Record, Overtake, FrameLength, TypeOK, DcmiTypeOK
  <2>2. RecordedFrameKept' /\ SendingOnlyRecorded' /\ SendsRecordedBuffer'
        /\ SentFromRecordedRun'
    BY <2>1 DEF RecordedFrameKept, SendingOnlyRecorded, SendsRecordedBuffer,
                SentFromRecordedRun
  <2> QED
    BY <1>3, <1>5, <1>6, <1>7, <2>2
<1> QED
  BY <1>8, <1>9

(* A lost word and the end of a frame touch neither the buffers, nor the DMA's
   target and counter, nor what the sender reads. *)
LEMMA SensorOnlyStep ==
    ASSUME IInv, Overflow \/ FrameEnd, UNCHANGED threadVars
    PROVE  IInv'
<1> USE DEF IInv, threadVars
<1>1. TypeOK
  OBVIOUS
<1>2. capture /\ UNCHANGED <<buf_flag, jpeg_data_ok, jpeg_data_len, capture, mem,
                             run, pub, overtaken, pc, err, tx>>
  BY DEF Overflow, FrameEnd, SensorReady
<1>3. /\ dma' \in [on : BOOLEAN, buf : Buffers, ndtr : 1 .. BufWords]
      /\ dma'.buf = dma.buf /\ dma'.ndtr = dma.ndtr
  <2>1. dma \in [on : BOOLEAN, buf : Buffers, ndtr : 1 .. BufWords]
    BY <1>1 DEF TypeOK, DcmiTypeOK
  <2>2. dma' = dma \/ dma' = [dma EXCEPT !.on = FALSE]
    BY DEF Overflow, FrameEnd
  <2> QED
    BY <2>1, <2>2
<1>4. sensor' \in [frame : Nat, word : Nat] /\ ended' \in [frame : Nat, words : Nat]
  <2>1. sensor \in [frame : Nat, word : Nat] /\ ended \in [frame : Nat, words : Nat]
    BY <1>1 DEF TypeOK, DcmiTypeOK
  <2>2. CASE Overflow
    BY ONLY <2>1, <2>2 DEF Overflow, NextWord
  <2>3. CASE FrameEnd
    BY ONLY <2>1, <2>3, NotedNumbers DEF FrameEnd
  <2> QED
    BY <2>2, <2>3
<1>5. ovf_it' \in BOOLEAN /\ frame_pending' \in BOOLEAN
  BY <1>1, Zenon DEF TypeOK, DcmiTypeOK, Overflow, FrameEnd
<1>6. TypeOK'
  BY <1>1, <1>2, <1>3, <1>4, <1>5 DEF TypeOK, DcmiTypeOK
<1>7. NothingCapturedAtBoot'
  BY <1>2 DEF NothingCapturedAtBoot
<1>8. SenderTakesIdleBuffer' /\ RunFilled' /\ RecordedFrameKept'
  BY <1>2, <1>3 DEF SenderTakesIdleBuffer, RunFilled, RecordedFrameKept, Transferred
<1>9. SendingOnlyRecorded' /\ SendsRecordedBuffer' /\ SentFromRecordedRun'
  BY <1>2 DEF SendingOnlyRecorded, SendsRecordedBuffer, SentFromRecordedRun, Sending
<1> QED
  BY <1>6, <1>7, <1>8, <1>9

(* The capture starts: nothing has been recorded since the restart. *)
LEMMA BootStep ==
    ASSUME IInv, Boot
    PROVE  IInv'
<1> USE DEF IInv, Boot, StartCapture, goto
<1>1. TypeOK
  OBVIOUS
<1>2. /\ dma' \in [on : BOOLEAN, buf : Buffers, ndtr : 1 .. BufWords]
      /\ dma'.buf = 1 /\ dma'.ndtr = BufWords
  BY BufAssumption DEF Armed, Buffers
<1>3. run' \in Nat /\ mem' \in [Buffers -> [Index -> Cell]]
      /\ \A b \in Buffers, i \in Index : mem[b][i].run = pub.run => mem'[b][i] = mem[b][i]
  BY <1>1, RunStarted DEF TypeOK, DcmiTypeOK
<1>4. ovf_it' \in BOOLEAN /\ capture' \in BOOLEAN /\ pc' \in Labels
  <2>1. ovf_it' \in BOOLEAN /\ capture' \in BOOLEAN
    BY Zenon
  <2>2. pc' \in Labels
    BY DEF Labels
  <2> QED
    BY <2>1, <2>2
<1>5. TypeOK'
  BY <1>1, <1>2, <1>3, <1>4 DEF TypeOK, DcmiTypeOK
<1>6. SenderTakesIdleBuffer' /\ RunFilled'
  BY <1>2, BufAssumption DEF SenderTakesIdleBuffer, SendBuffer, RunFilled, Transferred,
                             NothingCapturedAtBoot
<1>7. NothingCapturedAtBoot'
  BY DEF NothingCapturedAtBoot
<1>8. RecordedFrameKept'
  <2>1. pub.buf \in Buffers /\ \A i \in 0 .. (jpeg_data_len - 1) : i \in Index
    BY <1>1, BufAssumption DEF TypeOK, DcmiTypeOK, Index
  <2> QED
    BY <1>3, <2>1 DEF RecordedFrameKept
<1>9. ~Sending'
  BY DEF Sending
<1>10. SendingOnlyRecorded' /\ SendsRecordedBuffer' /\ SentFromRecordedRun'
  BY <1>9 DEF SendingOnlyRecorded, SendsRecordedBuffer, SentFromRecordedRun
<1> QED
  BY <1>5, <1>6, <1>7, <1>8, <1>10

(* No transmission under way. *)
LEMMA NoTxTyped ==
    NoTx \in [buf : Buffers, len : Index, i : Nat, sent : Seq(Cell),
              whole : BOOLEAN, next : {"first", "second"}]
<1>1. <<>> \in Seq(Cell) /\ 0 \in Index /\ 1 \in Buffers /\ 0 \in Nat
  BY BufAssumption DEF Index, Buffers
<1> QED
  BY <1>1 DEF NoTx

(* A restart forgets the frame, the transmission and the buffer in turn. *)
LEMMA ResetStep ==
    ASSUME IInv, SystemReset, pc' = "boot", err' = "ERR_OK", tx' = NoTx
    PROVE  IInv'
<1> USE DEF IInv, SystemReset
<1>1. TypeOK
  OBVIOUS
<1>2. /\ dma' \in [on : BOOLEAN, buf : Buffers, ndtr : 1 .. BufWords]
      /\ dma'.buf = 1 /\ dma'.ndtr = BufWords
  BY BufAssumption DEF Disarmed, Buffers
<1>3. /\ tx' \in [buf : Buffers, len : Index, i : Nat, sent : Seq(Cell),
                  whole : BOOLEAN, next : {"first", "second"}]
      /\ jpeg_data_len' \in Index
  BY NoTxTyped, BufAssumption DEF Index
<1>4. sensor' \in [frame : Nat, word : Nat]
  BY <1>1, NotedNumbers DEF TypeOK, DcmiTypeOK
<1>5. ovf_it' \in BOOLEAN /\ capture' \in BOOLEAN /\ frame_pending' \in BOOLEAN
  BY Zenon
<1>6. pc' \in Labels /\ err' \in WriteResults
  BY DEF Labels, WriteResults
<1>7. TypeOK'
  BY <1>1, <1>2, <1>3, <1>4, <1>5, <1>6 DEF TypeOK, DcmiTypeOK
<1>8. SenderTakesIdleBuffer' /\ RunFilled'
  BY <1>2, BufAssumption DEF SenderTakesIdleBuffer, SendBuffer, RunFilled, Transferred
<1>9. NothingCapturedAtBoot' /\ RecordedFrameKept'
  BY DEF NothingCapturedAtBoot, RecordedFrameKept
<1>10. ~Sending'
  BY DEF Sending
<1>11. SendingOnlyRecorded' /\ SendsRecordedBuffer' /\ SentFromRecordedRun'
  BY <1>10 DEF SendingOnlyRecorded, SendsRecordedBuffer, SentFromRecordedRun
<1> QED
  BY <1>7, <1>8, <1>9, <1>11

(* A sending branch is entered with the buffer the recorded frame is in. *)
LEMMA BeginStep ==
    ASSUME IInv, UNCHANGED <<dcmiVars, err>>, jpeg_data_ok = 1,
           NEW next \in {"first", "second"}, Begin(SendBuffer(buf_flag), next)
    PROVE  IInv'
<1> USE DEF IInv, Begin, goto, dcmiVars
<1>1. TypeOK /\ pc' = "logo"
  OBVIOUS
<1>2. /\ tx' \in [buf : Buffers, len : Index, i : Nat, sent : Seq(Cell),
                  whole : BOOLEAN, next : {"first", "second"}]
      /\ tx'.buf = SendBuffer(buf_flag) /\ tx'.len = jpeg_data_len /\ tx'.sent = <<>>
  <2>1. jpeg_data_len \in Index /\ SendBuffer(buf_flag) \in Buffers
    BY <1>1 DEF TypeOK, DcmiTypeOK, SendBuffer, Buffers
  <2>2. tx' = [buf |-> SendBuffer(buf_flag), len |-> jpeg_data_len, i |-> 0,
               sent |-> <<>>, whole |-> TRUE, next |-> next]
    BY DEF NoTx
  <2>3. <<>> \in Seq(Cell)
    OBVIOUS
  <2> QED
    BY ONLY <2>1, <2>2, <2>3, next \in {"first", "second"}
<1>3. TypeOK'
  BY <1>1, <1>2 DEF TypeOK, DcmiTypeOK, Labels
<1>4. SenderTakesIdleBuffer' /\ RunFilled' /\ RecordedFrameKept'
  BY DEF SenderTakesIdleBuffer, RunFilled, RecordedFrameKept, Transferred
<1>5. NothingCapturedAtBoot' /\ SendingOnlyRecorded'
  BY <1>1 DEF NothingCapturedAtBoot, SendingOnlyRecorded
<1>6. SendsRecordedBuffer' /\ SentFromRecordedRun'
  BY <1>2 DEF SendsRecordedBuffer, SentFromRecordedRun, RecordedFrameKept
<1> QED
  BY <1>3, <1>4, <1>5, <1>6

(* jpeg_data_ok=2 *)
LEMMA DoneStep ==
    ASSUME IInv, Done
    PROVE  IInv'
<1> USE DEF IInv, Done, goto, hwVars
<1>1. TypeOK /\ tx.next \in {"first", "second"}
  BY DEF TypeOK
<1>2. TypeOK'
  BY <1>1, NoTxTyped DEF TypeOK, DcmiTypeOK, Labels
<1>3. ~Sending' /\ pc' # "boot"
  BY <1>1 DEF Sending
<1>4. SenderTakesIdleBuffer' /\ RunFilled' /\ RecordedFrameKept'
  BY DEF SenderTakesIdleBuffer, RunFilled, RecordedFrameKept, Transferred
<1>5. NothingCapturedAtBoot' /\ SendingOnlyRecorded' /\ SendsRecordedBuffer'
      /\ SentFromRecordedRun'
  BY <1>3 DEF NothingCapturedAtBoot, SendingOnlyRecorded, SendsRecordedBuffer,
              SentFromRecordedRun
<1> QED
  BY <1>2, <1>4, <1>5

-----------------------------------------------------------------------------
LEMMA ChunkStep ==
    ASSUME IInv, Chunk
    PROVE  IInv'
<1>1. TypeOK /\ tx.i \in Nat /\ tx.len \in Nat /\ tx.sent \in Seq(Cell)
  BY DEF IInv, TypeOK, Index
<1>2. CASE /\ err' = "ERR_OK" /\ UNCHANGED pc
           /\ tx' = [tx EXCEPT !.i = @ + 1,
                               !.sent = @ \o Words(tx.i * ChunkWords, ChunkWords)]
  <2>1. /\ tx.i * ChunkWords \in Nat /\ ChunkWords \in Nat
        /\ tx.i * ChunkWords + ChunkWords <= tx.len
    BY <1>1, ChunkAssumption, ChunkArithmetic DEF Chunk, WholeChunks
  <2>2. /\ tx.i + 1 \in Nat /\ err' \in WriteResults /\ pc' \in Labels \ {"boot"}
        /\ pc = "chunks" /\ UNCHANGED dcmiVars
    BY <1>1, <1>2 DEF Chunk, Labels, WriteResults
  <2>3. tx' = [tx EXCEPT !.i = tx.i + 1,
                         !.sent = tx.sent \o Words(tx.i * ChunkWords, ChunkWords)]
    BY <1>2
  <2> QED
    BY <2>1, <2>2, <2>3, SendingStep
<1>3. CASE tx' = [tx EXCEPT !.whole = FALSE] /\ Write(WriteErrors, "tail")
  <2>1. pc' \in {"accept", "tail"} /\ err' \in WriteResults /\ pc = "chunks"
        /\ UNCHANGED dcmiVars
    BY <1>3 DEF Write, Break, goto, WriteResults, Chunk
  <2>2. pc' \in Labels /\ pc' # "boot" /\ Sending
    BY <2>1 DEF Labels, Sending
  <2> QED
    BY <1>3, <2>1, <2>2, ControlStep
<1> QED
  BY <1>2, <1>3 DEF Chunk

LEMMA TailStep ==
    ASSUME IInv, Tail_
    PROVE  IInv'
<1>1. TypeOK /\ tx.i \in Nat /\ tx.len \in Nat /\ tx.sent \in Seq(Cell)
  BY DEF IInv, TypeOK, Index
<1>2. pc' \in {"accept", "end"} /\ err' \in WriteResults /\ pc = "tail"
      /\ UNCHANGED dcmiVars
  BY DEF Tail_, Write, Break, goto, WriteResults
<1>3. pc' \in Labels /\ pc' # "boot" /\ Sending
  BY <1>2 DEF Labels, Sending
<1>4. CASE err' = "ERR_OK"
  <2> DEFINE lo == WholeChunks * ChunkWords
             n == LastWords
  <2>1. lo \in Nat /\ n \in Nat /\ lo + n <= tx.len
    <3>1. /\ tx.len % ChunkWords \in 0 .. (ChunkWords - 1)
          /\ (tx.len \div ChunkWords) * ChunkWords \in Nat
          /\ (tx.len \div ChunkWords) * ChunkWords + (tx.len % ChunkWords) = tx.len
      BY <1>1, ChunkAssumption, ChunkArithmetic
    <3> QED
      BY <1>1, <3>1, ChunkAssumption DEF WholeChunks, LastWords
  <2> HIDE DEF lo, n
  <2>2. tx' = [tx EXCEPT !.sent = tx.sent \o Words(lo, n)]
    BY <1>4 DEF Tail_, lo, n
  <2>3. tx' = [tx EXCEPT !.i = tx.i, !.sent = tx.sent \o Words(lo, n)]
    <3>1. tx \in [buf : Buffers, len : Index, i : Nat, sent : Seq(Cell),
                  whole : BOOLEAN, next : {"first", "second"}]
      BY <1>1 DEF TypeOK
    <3> QED
      BY ONLY <2>2, <3>1
  <2> QED
    BY <1>1, <1>2, <1>3, <2>1, <2>3, SendingStep
<1>5. CASE err' # "ERR_OK"
  BY <1>2, <1>3, <1>5, ControlStep DEF Tail_
<1> QED
  BY <1>4, <1>5

(* A connection is accepted, or not: nothing is being sent. *)
LEMMA AcceptStep ==
    ASSUME IInv, Accept
    PROVE  IInv'
<1> USE DEF IInv
<1>1. /\ UNCHANGED dcmiVars /\ tx' = NoTx /\ pc' \in {"accept", "first"}
      /\ err' \in WriteResults
  BY DEF Accept, goto, WriteResults
<1>2. TypeOK'
  BY <1>1, NoTxTyped DEF TypeOK, DcmiTypeOK, dcmiVars, Labels
<1>3. ~Sending' /\ pc' # "boot"
  BY <1>1 DEF Sending
<1>4. SenderTakesIdleBuffer' /\ RunFilled' /\ RecordedFrameKept'
  BY <1>1 DEF SenderTakesIdleBuffer, RunFilled, RecordedFrameKept, Transferred, dcmiVars
<1>5. NothingCapturedAtBoot' /\ SendingOnlyRecorded' /\ SendsRecordedBuffer'
      /\ SentFromRecordedRun'
  BY <1>3 DEF NothingCapturedAtBoot, SendingOnlyRecorded, SendsRecordedBuffer,
              SentFromRecordedRun
<1> QED
  BY <1>2, <1>4, <1>5

(* The steps of tcp_server_thread, one by one. *)
LEMMA ThreadStep ==
    ASSUME IInv, Thread
    PROVE  IInv'
<1>1. TypeOK /\ pc \in Labels /\ err \in WriteResults
  BY DEF IInv, TypeOK
<1>2. CASE Boot
  BY <1>2, BootStep
<1>3. CASE Accept
  BY <1>3, AcceptStep
<1>4. CASE First
  <2>1. CASE jpeg_data_ok = 1 /\ buf_flag = 1
    BY <1>4, <2>1, BeginStep DEF First
  <2>2. CASE ~(jpeg_data_ok = 1 /\ buf_flag = 1)
    BY <1>1, <1>4, <2>2, ControlStep DEF First, goto, Labels, Sending
  <2> QED
    BY <2>1, <2>2
<1>5. CASE Second
  <2>1. CASE jpeg_data_ok = 1 /\ buf_flag = 0
    BY <1>5, <2>1, BeginStep DEF Second
  <2>2. CASE ~(jpeg_data_ok = 1 /\ buf_flag = 0)
    BY <1>1, <1>5, <2>2, ControlStep DEF Second, goto, Labels, Sending
  <2> QED
    BY <2>1, <2>2
<1>6. CASE Logo \/ Header \/ SendEnd
  <2>1. /\ UNCHANGED <<dcmiVars, tx>> /\ pc' \in {"accept", "header", "chunks", "recv"}
        /\ err' \in WriteResults /\ pc \in {"logo", "header", "end"}
    BY <1>6 DEF Logo, Header, SendEnd, Write, Break, goto
  <2> QED
    BY <2>1, ControlStep DEF Labels, Sending
<1>7. CASE Chunk
  BY <1>7, ChunkStep
<1>8. CASE ChunksDone
  <2>1. /\ UNCHANGED <<dcmiVars, tx, err>> /\ pc' \in {"accept", "tail"} /\ pc = "chunks"
    BY <1>8 DEF ChunksDone, Break, goto
  <2> QED
    BY <1>1, <2>1, ControlStep DEF Labels, Sending
<1>9. CASE Tail_
  BY <1>9, TailStep
<1>10. CASE Receive
  <2>1. /\ UNCHANGED <<dcmiVars, tx, err>>
        /\ \/ pc = "recv" /\ pc' \in {"command", "accept", "done"}
           \/ pc = "idle_recv" /\ pc' \in {"idle_command", "accept", "first"}
    BY <1>10 DEF Receive, Recv, Break, goto
  <2> QED
    BY <1>1, <2>1, ControlStep DEF Labels, Sending
<1>11. CASE Obey
  <2>1. CASE SystemReset /\ pc' = "boot" /\ err' = "ERR_OK" /\ tx' = NoTx
    BY <2>1, ResetStep
  <2>2. CASE /\ UNCHANGED <<dcmiVars, tx>> /\ err' \in WriteResults
             /\ \/ pc = "command" /\ pc' \in {"accept", "done"}
                \/ pc = "idle_command" /\ pc' \in {"accept", "first"}
    BY <2>2, ControlStep DEF Labels, Sending
  <2> QED
    BY <1>11, <2>1, <2>2 DEF Obey, Command, Write, Break, goto
<1>12. CASE Done
  BY <1>12, DoneStep
<1>13. CASE Idle
  <2>1. UNCHANGED <<dcmiVars, tx, err>> /\ pc' \in {"accept", "idle_recv"}
    BY <1>13 DEF Idle, Break, goto
  <2> QED
    BY <1>1, <2>1, ControlStep DEF Labels, Sending
<1> QED
  BY <1>2, <1>3, <1>4, <1>5, <1>6, <1>7, <1>8, <1>9, <1>10, <1>11, <1>12, <1>13
     DEF Thread

(* IInv is inductive. *)
LEMMA NextInvariant == IInv /\ [Next]_vars => IInv'
<1> SUFFICES ASSUME IInv, [Next]_vars PROVE IInv'
  OBVIOUS
<1>1. CASE Thread
  BY <1>1, ThreadStep
<1>2. CASE Capture
  BY <1>2, SensorWordStep, FrameIsrStep, SensorOnlyStep DEF Capture, DcmiNext
<1>3. CASE UNCHANGED vars
  <2>1. UNCHANGED <<dcmiVars, pc, err, tx>>
    BY <1>3 DEF vars
  <2> QED
    BY <2>1, ControlStep DEF IInv, TypeOK, Sending
<1> QED
  BY <1>1, <1>2, <1>3 DEF Next

THEOREM Invariance == Spec => []IInv
  BY InitInvariant, NextInvariant, PTL DEF Spec

(* Every variable keeps its type: buf_flag stays 0 or 1 through its increment and
   test, jpeg_data_len is always less than the size of a buffer, and what is read
   from the buffers is always inside them. *)
THEOREM TypeCorrect == Spec => []TypeOK
  BY Invariance, PTL DEF IInv

(* The buffer a sending branch takes is not the one the DMA is armed with. *)
THEOREM IdleBufferTaken == Spec => []SenderTakesIdleBuffer
  BY Invariance, PTL DEF IInv

(* A recorded frame stays whole until the next end of frame, whatever the sensor,
   the interrupt latency, overflows and the sender do. *)
THEOREM RecordedKept == Spec => []RecordedFrameKept
  BY Invariance, PTL DEF IInv

(* Until the next end of frame the client is sent the recorded run only. *)
THEOREM SentFromOneRun == Spec => []SentFromRecordedRun
  BY Invariance, PTL DEF IInv

(* A frame is sent only while it is marked as waiting. *)
THEOREM OnlyRecordedSent == Spec => []SendingOnlyRecorded
  BY Invariance, PTL DEF IInv

-----------------------------------------------------------------------------
(* The steps that change what the interrupt and the sender share. *)
LEMMA SharedSteps ==
    ASSUME Next
    PROVE  \/ UNCHANGED <<jpeg_data_ok, jpeg_data_len>>
           \/ FrameIsr
           \/ pc = "done" /\ jpeg_data_ok' = 2
           \/ pc' = "boot" /\ jpeg_data_ok' = 0
<1>1. CASE Capture
  BY <1>1 DEF Capture, DcmiNext, SensorWord, Overflow, FrameEnd
<1>2. CASE Thread
  BY <1>2 DEF Thread, Boot, StartCapture, Accept, First, Second, Logo, Header, Chunk,
              ChunksDone, Tail_, SendEnd, Receive, Recv, Obey, Command, SystemReset,
              Done, Idle, goto, dcmiVars
<1> QED
  BY <1>1, <1>2 DEF Next

(* The interrupt never touches the length of a frame that is waiting. *)
THEOREM LengthNeverChanges == Spec => LengthFrozen
<1>1. [Next]_vars => [jpeg_data_ok = 1 /\ jpeg_data_ok' = 1
                        => jpeg_data_len' = jpeg_data_len]_vars
  <2> SUFFICES ASSUME Next, jpeg_data_ok = 1, jpeg_data_ok' = 1
               PROVE  jpeg_data_len' = jpeg_data_len
    OBVIOUS
  <2>1. CASE FrameIsr
    BY <2>1 DEF FrameIsr, RecordFrame, Overtake
  <2> QED
    BY <2>1, SharedSteps
<1> QED
  BY <1>1, PTL DEF Spec, LengthFrozen

(* Only a transmission carried to its end, or a restart, consumes a frame. *)
THEOREM OnlySendingConsumes == Spec => ConsumedBySending
<1>1. [Next]_vars => [jpeg_data_ok = 1 /\ jpeg_data_ok' # 1
                        => pc = "done" \/ pc' = "boot"]_vars
  BY SharedSteps DEF FrameIsr, RecordFrame, Record, Overtake, vars
<1> QED
  BY <1>1, PTL DEF Spec, ConsumedBySending

-----------------------------------------------------------------------------
(* A traced capture without faults: the vertical blanking outlasts the interrupt latency, the
   FIFO does not overflow, and a frame is shorter than a buffer. *)
CleanCapture == Traced /\ ~LateIsr /\ ~Lossy /\ MaxFrameWords < BufWords

(* The first n words of buffer b are those of frame f, in order. *)
FrameIn(b, n, f) == \A k \in 0 .. (n - 1) : mem[b][k].frame = f /\ mem[b][k].word = k

(* Capturing follows boot, and the counter of the DMA tells the words of the frame under
   way, or of the one whose interrupt is pending: the buffer begins with it. *)
CapturedInOrder ==
    /\ capture <=> pc # "boot"
    /\ capture => dma.on
    /\ ~capture => sensor.word = 0 /\ ~frame_pending
    /\ sensor.word <= MaxFrameWords
    /\ capture /\ ~frame_pending =>
           Transferred = sensor.word /\ FrameIn(dma.buf, sensor.word, sensor.frame)
    /\ frame_pending => /\ sensor.word = 0 /\ Transferred = ended.words
                        /\ FrameIn(dma.buf, ended.words, ended.frame)

(* The recorded frame, whole, under its true length. *)
RecordedWhole ==
    jpeg_data_ok = 1 /\ overtaken = 0 =>
        jpeg_data_len = pub.words /\ FrameIn(pub.buf, pub.words, pub.frame)

(* How far a transmission without a failed write has come. *)
Reached == CASE pc \in {"logo", "header"} -> 0
             [] pc = "chunks" -> tx.i * ChunkWords
             [] pc = "tail" -> WholeChunks * ChunkWords
             [] OTHER -> tx.len

SentInOrder ==
    Sending /\ overtaken = 0 /\ tx.whole =>
        /\ Len(tx.sent) = Reached
        /\ pc \in {"logo", "header"} => tx.i = 0
        /\ \A j \in 1 .. Len(tx.sent) :
               tx.sent[j].frame = pub.frame /\ tx.sent[j].word = j - 1

DInv == CapturedInOrder /\ RecordedWhole /\ SentInOrder

LEMMA TransferredInBuffer ==
    ASSUME TypeOK
    PROVE  Transferred \in Index /\ Transferred = BufWords - dma.ndtr
           /\ dma.ndtr \in 1 .. BufWords /\ sensor.word \in Nat /\ sensor.frame \in Nat
<1>1. dma.ndtr \in 1 .. BufWords /\ sensor.word \in Nat /\ sensor.frame \in Nat
  BY DEF TypeOK, DcmiTypeOK
<1> QED
  BY <1>1, BufAssumption DEF Transferred, Index

LEMMA InitDelivered == Init => DInv
<1> SUFFICES ASSUME Init PROVE DInv
  OBVIOUS
<1>1. /\ pc = "boot" /\ capture = FALSE /\ frame_pending = FALSE /\ sensor.word = 0
      /\ jpeg_data_ok = 0
  BY DEF Init, DcmiInit
<1>2. CapturedInOrder
  BY <1>1, SensorAssumption DEF CapturedInOrder
<1>3. RecordedWhole /\ SentInOrder
  BY <1>1 DEF RecordedWhole, SentInOrder, Sending
<1> QED
  BY <1>2, <1>3 DEF DInv

(* A word of a frame follows the word before it. *)
LEMMA WordInOrder ==
    ASSUME CleanCapture, IInv, DInv, SensorWord, UNCHANGED threadVars
    PROVE  DInv'
<1>0. TypeOK /\ SenderTakesIdleBuffer /\ RecordedFrameKept
  BY DEF IInv
<1>1. /\ capture /\ ~frame_pending /\ sensor.word < MaxFrameWords /\ dma.on
      /\ sensor' = [sensor EXCEPT !.word = @ + 1]
      /\ UNCHANGED <<buf_flag, jpeg_data_ok, jpeg_data_len, capture, frame_pending,
                     run, ended, pub, overtaken, pc, err, tx>>
  BY DEF SensorWord, SensorReady, NextWord, CleanCapture, DInv, CapturedInOrder, threadVars
<1>2. Transferred = sensor.word /\ FrameIn(dma.buf, sensor.word, sensor.frame)
  BY <1>1 DEF DInv, CapturedInOrder
<1> DEFINE cell == [run |-> run, frame |-> sensor.frame, word |-> sensor.word]
           t == Transferred
<1>3. /\ mem' = [mem EXCEPT ![dma.buf] = [mem[dma.buf] EXCEPT ![t] = cell]]
      /\ dma' = [dma EXCEPT !.ndtr = IF dma.ndtr = 1 THEN BufWords ELSE dma.ndtr - 1]
  BY <1>1 DEF SensorWord, Noted, CleanCapture
<1>4. cell.frame = sensor.frame /\ cell.word = sensor.word
  OBVIOUS
<1>5. /\ t \in Index /\ t = BufWords - dma.ndtr /\ t = sensor.word
      /\ dma.ndtr \in 1 .. BufWords /\ sensor.word \in Nat /\ sensor.frame \in Nat
      /\ BufWords \in Nat /\ MaxFrameWords \in Nat /\ MaxFrameWords < BufWords
  BY <1>0, <1>2, TransferredInBuffer, BufAssumption, SensorAssumption DEF CleanCapture
<1> HIDE DEF cell
<1>6. /\ dma'.buf = dma.buf /\ dma'.on = dma.on
      /\ dma'.ndtr = IF dma.ndtr = 1 THEN BufWords ELSE dma.ndtr - 1
  <2>1. dma \in [on : BOOLEAN, buf : Buffers, ndtr : 1 .. BufWords]
    BY <1>0 DEF TypeOK, DcmiTypeOK
  <2> QED
    BY <1>3, <2>1
<1>7. sensor'.frame = sensor.frame /\ sensor'.word = sensor.word + 1
  <2>1. sensor \in [frame : Nat, word : Nat]
    BY <1>0 DEF TypeOK, DcmiTypeOK
  <2> QED
    BY <1>1, <2>1
<1>8. dma.ndtr # 1 /\ Transferred' = sensor.word + 1
  <2>1. dma.ndtr # 1
    BY <1>1, <1>5
  <2>2. dma'.ndtr = dma.ndtr - 1
    BY <1>6, <2>1
  <2> QED
    BY <1>5, <2>1, <2>2 DEF Transferred
<1>9. /\ \A b \in Buffers \ {dma.buf} : mem'[b] = mem[b]
      /\ \A k \in Index \ {t} : mem'[dma.buf][k] = mem[dma.buf][k]
      /\ mem'[dma.buf][t] = cell
  <2>1. mem \in [Buffers -> [Index -> Cell]] /\ dma.buf \in Buffers
    BY <1>0 DEF TypeOK, DcmiTypeOK
  <2>2. /\ \A b \in Buffers \ {dma.buf} : mem'[b] = mem[b]
        /\ mem'[dma.buf] = [mem[dma.buf] EXCEPT ![t] = cell]
    BY <1>3, <2>1
  <2>3. mem[dma.buf] \in [Index -> Cell]
    BY <2>1
  <2> HIDE DEF t
  <2> QED
    BY <1>5, <2>2, <2>3
<1> HIDE DEF t
<1>10. FrameIn(dma.buf, sensor.word, sensor.frame)'
  <2> SUFFICES ASSUME NEW k \in 0 .. sensor.word
               PROVE  mem'[dma.buf][k].frame = sensor.frame /\ mem'[dma.buf][k].word = k
    BY <1>5, <1>6, <1>7 DEF FrameIn
  <2>1. CASE k = t
    BY <1>4, <1>5, <1>9, <2>1
  <2>2. CASE k # t
    <3>1. k \in 0 .. (sensor.word - 1) /\ k \in Index
      BY <1>1, <1>5, <2>2 DEF Index
    <3>2. mem'[dma.buf][k] = mem[dma.buf][k]
      BY <1>9, <2>2, <3>1
    <3> QED
      BY <1>2, <3>1, <3>2 DEF FrameIn
  <2> QED
    BY <2>1, <2>2
<1>11. CapturedInOrder'
  BY <1>1, <1>5, <1>6, <1>7, <1>8, <1>10 DEF DInv, CapturedInOrder, FrameIn
<1>12. RecordedWhole'
  <2> SUFFICES ASSUME jpeg_data_ok = 1, overtaken = 0
               PROVE  jpeg_data_len = pub.words /\ FrameIn(pub.buf, pub.words, pub.frame)'
    BY <1>1 DEF RecordedWhole
  <2>1. jpeg_data_len = pub.words /\ FrameIn(pub.buf, pub.words, pub.frame)
    BY DEF DInv, RecordedWhole
  <2>2. pub.buf \in Buffers \ {dma.buf}
    BY <1>0 DEF RecordedFrameKept, SenderTakesIdleBuffer, SendBuffer, Buffers
  <2> QED
    BY <1>1, <1>9, <2>1, <2>2 DEF FrameIn
<1>13. SentInOrder'
  BY <1>1 DEF DInv, SentInOrder, Sending, Reached, WholeChunks
<1> QED
  BY <1>11, <1>12, <1>13 DEF DInv

LEMMA EndInOrder ==
    ASSUME CleanCapture, IInv, DInv, FrameEnd, UNCHANGED threadVars
    PROVE  DInv'
<1>0. TypeOK
  BY DEF IInv
<1>1. /\ capture /\ ~frame_pending /\ frame_pending' = TRUE
      /\ ended' = [frame |-> sensor.frame, words |-> sensor.word]
      /\ sensor' = [frame |-> NextFrame, word |-> 0]
      /\ UNCHANGED <<buf_flag, jpeg_data_ok, jpeg_data_len, dma, capture, mem,
                     run, pub, overtaken, pc, err, tx>>
  BY DEF FrameEnd, CleanCapture, Noted, threadVars
<1>2. Transferred = sensor.word /\ FrameIn(dma.buf, sensor.word, sensor.frame) /\ dma.on
  BY <1>1 DEF DInv, CapturedInOrder
<1>3. /\ sensor'.word = 0 /\ ended'.words = sensor.word /\ ended'.frame = sensor.frame
      /\ Transferred' = Transferred
  BY <1>1 DEF Transferred
<1>4. CapturedInOrder'
  BY <1>1, <1>2, <1>3, SensorAssumption DEF DInv, CapturedInOrder, FrameIn
<1>5. RecordedWhole' /\ SentInOrder'
  BY <1>1 DEF DInv, RecordedWhole, SentInOrder, Sending, Reached, WholeChunks, FrameIn
<1> QED
  BY <1>4, <1>5 DEF DInv

(* The frame that ended is recorded as the counter shows it, or the waiting one is
   overtaken. *)
LEMMA IsrInOrder ==
    ASSUME CleanCapture, IInv, DInv, FrameIsr, UNCHANGED threadVars
    PROVE  DInv'
<1>0. TypeOK /\ SendingOnlyRecorded /\ RunFilled
  BY DEF IInv, TypeOK, DcmiTypeOK
<1>1. /\ frame_pending /\ frame_pending' = FALSE
      /\ dma' = Armed(NextTarget(buf_flag))
      /\ UNCHANGED <<capture, sensor, ended, pc, err, tx>> /\ StartRun(pub'.run)
      /\ \/ /\ jpeg_data_ok # 1 /\ jpeg_data_len' = Transferred
            /\ pub' = [run |-> run, frame |-> ended.frame, words |-> ended.words, buf |-> dma.buf]
         \/ /\ jpeg_data_ok = 1 /\ overtaken' = 1
  BY DEF FrameIsr, FlipBuffer, RecordFrame, Record, Overtake, FrameLength, threadVars
<1>2. /\ sensor.word = 0 /\ Transferred = ended.words
      /\ FrameIn(dma.buf, ended.words, ended.frame) /\ capture
  BY <1>1 DEF DInv, CapturedInOrder
<1>3. dma'.on /\ dma'.ndtr = BufWords /\ Transferred' = 0
  BY <1>1, BufAssumption DEF Armed, Transferred
<1>4. FrameIn(dma.buf, sensor.word, sensor.frame)'
  BY <1>1, <1>2 DEF FrameIn
<1>5. CapturedInOrder'
  BY <1>1, <1>2, <1>3, <1>4 DEF DInv, CapturedInOrder
<1>6. CASE jpeg_data_ok # 1
  <2>1. /\ jpeg_data_len' = Transferred /\ pub'.frame = ended.frame
        /\ pub'.words = ended.words /\ pub'.buf = dma.buf /\ pub'.run = run
    BY <1>1, <1>6
  <2>2. \A k \in 0 .. (Transferred - 1) : mem'[dma.buf][k] = mem[dma.buf][k]
    <3>1. mem \in [Buffers -> [Index -> Cell]] /\ run \in Nat /\ dma.buf \in Buffers
      BY <1>0 DEF TypeOK, DcmiTypeOK
    <3>2. StartRun(run)
      BY <1>1, <2>1
    <3>3. \A k \in 0 .. (Transferred - 1) : k \in Index
      BY <1>0, TransferredInBuffer, BufAssumption DEF Index
    <3> QED
      BY <1>0, <3>1, <3>2, <3>3, RunStarted DEF RunFilled
  <2>3. RecordedWhole'
    BY <1>2, <2>1, <2>2 DEF RecordedWhole, FrameIn
  <2>4. SentInOrder'
    BY <1>0, <1>1, <1>6 DEF SentInOrder, SendingOnlyRecorded, Sending
  <2> QED
    BY <1>5, <2>3, <2>4 DEF DInv
<1>7. CASE jpeg_data_ok = 1
  <2>1. overtaken' # 0
    BY <1>1, <1>7
  <2> QED
    BY <1>5, <2>1 DEF DInv, RecordedWhole, SentInOrder
<1> QED
  BY <1>6, <1>7

-----------------------------------------------------------------------------
(* Steps of the thread that leave the capture alone and stay out of boot. *)
LEMMA CaptureStays ==
    ASSUME DInv, UNCHANGED dcmiVars, pc' = "boot" <=> pc = "boot"
    PROVE  CapturedInOrder' /\ RecordedWhole'
BY DEF DInv, CapturedInOrder, RecordedWhole, FrameIn, Transferred, dcmiVars

(* Steps that send no word of the picture: where they go, what has been sent is what
   has been reached. *)
LEMMA QuietInOrder ==
    ASSUME DInv, UNCHANGED <<dcmiVars, tx>>, pc' = "boot" <=> pc = "boot",
           \/ ~Sending'
           \/ pc \in {"logo", "header"} /\ pc' \in {"header", "chunks"}
           \/ pc = "chunks" /\ pc' = "tail" /\ tx.i = WholeChunks
           \/ pc \in {"end", "recv", "command"} /\ pc' \in {"recv", "command", "done"}
           \/ pc' = pc
    PROVE  DInv'
<1>1. CapturedInOrder' /\ RecordedWhole'
  BY CaptureStays
<1>2. SentInOrder'
  <2> SUFFICES ASSUME Sending', overtaken = 0, tx.whole
               PROVE  /\ Len(tx.sent) = Reached'
                      /\ pc' \in {"logo", "header"} => tx.i = 0
                      /\ \A j \in 1 .. Len(tx.sent) :
                             tx.sent[j].frame = pub.frame /\ tx.sent[j].word = j - 1
    BY DEF SentInOrder, dcmiVars
  <2>1. Sending
    BY DEF Sending
  <2>2. /\ Len(tx.sent) = Reached
        /\ pc \in {"logo", "header"} => tx.i = 0
        /\ \A j \in 1 .. Len(tx.sent) : tx.sent[j].frame = pub.frame /\ tx.sent[j].word = j - 1
    BY <2>1 DEF DInv, SentInOrder
  <2>3. 0 * ChunkWords = 0
    BY ChunkAssumption
  <2>4. Reached' = Reached
    <3>1. CASE pc \in {"logo", "header"} /\ pc' \in {"header", "chunks"}
      BY <2>2, <2>3, <3>1 DEF Reached
    <3>2. CASE pc = "chunks" /\ pc' = "tail" /\ tx.i = WholeChunks
      BY <3>2 DEF Reached, WholeChunks
    <3>3. CASE pc \in {"end", "recv", "command"} /\ pc' \in {"recv", "command", "done"}
      BY <3>3 DEF Reached
    <3>4. CASE pc' = pc
      BY <3>4 DEF Reached, WholeChunks
    <3> QED
      BY <3>1, <3>2, <3>3, <3>4
  <2> QED
    BY <2>2, <2>4
<1> QED
  BY <1>1, <1>2 DEF DInv

(* Words lo to lo + n - 1 of the buffer follow the lo words sent before. *)
LEMMA MoreInOrder ==
    ASSUME IInv, DInv, Sending, overtaken = 0, tx.whole,
           NEW lo \in Nat, NEW n \in Nat, lo + n <= tx.len, Len(tx.sent) = lo
    PROVE  /\ Len(tx.sent \o Words(lo, n)) = lo + n
           /\ \A j \in 1 .. lo + n : /\ (tx.sent \o Words(lo, n))[j].frame = pub.frame
                                     /\ (tx.sent \o Words(lo, n))[j].word = j - 1
<1> DEFINE w == Words(lo, n)
<1>1. /\ tx.sent \in Seq(Cell) /\ w \in Seq(Cell) /\ Len(w) = n
      /\ \A j \in 1 .. n : w[j] = mem[tx.buf][lo + j - 1]
                           /\ lo + j - 1 \in 0 .. (tx.len - 1)
  BY WordsAreCells DEF IInv, TypeOK
<1>2. /\ tx.len = pub.words /\ tx.buf = pub.buf /\ FrameIn(pub.buf, pub.words, pub.frame)
  BY DEF IInv, SentFromRecordedRun, SendsRecordedBuffer, SendingOnlyRecorded, DInv, RecordedWhole
<1>3. \A j \in 1 .. lo : tx.sent[j].frame = pub.frame /\ tx.sent[j].word = j - 1
  BY DEF DInv, SentInOrder
<1> HIDE DEF w
<1>4. /\ Len(tx.sent \o w) = lo + n
      /\ \A j \in 1 .. lo + n :
            (tx.sent \o w)[j] = IF j <= lo THEN tx.sent[j] ELSE w[j - lo]
  <2>1. /\ Len(tx.sent \o w) = Len(tx.sent) + Len(w)
        /\ \A j \in 1 .. Len(tx.sent) + Len(w) :
              (tx.sent \o w)[j] = IF j <= Len(tx.sent) THEN tx.sent[j]
                                                       ELSE w[j - Len(tx.sent)]
    BY ONLY <1>1, ConcatProperties
  <2>2. Len(tx.sent) = lo /\ Len(w) = n
    BY <1>1
  <2> QED
    BY ONLY <2>1, <2>2
<1>5. ASSUME NEW j \in 1 .. lo + n
      PROVE  (tx.sent \o w)[j].frame = pub.frame /\ (tx.sent \o w)[j].word = j - 1
  <2>1. CASE j <= lo
    <3>1. j \in 1 .. lo
      BY <2>1
    <3> QED
      BY <1>3, <1>4, <2>1, <3>1
  <2>2. CASE ~(j <= lo)
    <3>1. j - lo \in 1 .. n /\ lo + (j - lo) - 1 = j - 1
      BY <2>2
    <3>2. (tx.sent \o w)[j] = w[j - lo]
      BY <1>4, <2>2
    <3>3. w[j - lo] = mem[pub.buf][j - 1] /\ j - 1 \in 0 .. (pub.words - 1)
      BY <1>1, <1>2, <3>1
    <3> QED
      BY <1>2, <3>2, <3>3 DEF FrameIn
  <2> QED
    BY <2>1, <2>2
<1> QED
  BY <1>4, <1>5 DEF w

LEMMA ChunkInOrder ==
    ASSUME IInv, DInv, Chunk
    PROVE  DInv'
<1>0. /\ pc = "chunks" /\ tx.i < WholeChunks /\ UNCHANGED dcmiVars /\ Sending
      /\ tx \in [buf : Buffers, len : Index, i : Nat, sent : Seq(Cell),
                 whole : BOOLEAN, next : {"first", "second"}]
      /\ tx.len \in Nat /\ tx.i \in Nat /\ ChunkWords \in Nat /\ ChunkWords # 0
  BY ChunkAssumption DEF Chunk, Sending, IInv, TypeOK, Index
<1>1. CASE /\ UNCHANGED pc
           /\ tx' = [tx EXCEPT !.i = @ + 1,
                               !.sent = @ \o Words(tx.i * ChunkWords, ChunkWords)]
  <2> DEFINE lo == tx.i * ChunkWords
             w == Words(lo, ChunkWords)
  <2>1. CapturedInOrder' /\ RecordedWhole'
    BY <1>0, <1>1, CaptureStays
  <2>2. lo \in Nat /\ lo + ChunkWords <= tx.len
    BY <1>0, ChunkArithmetic DEF WholeChunks
  <2>3. tx'.i = tx.i + 1 /\ tx'.sent = tx.sent \o w /\ tx'.whole = tx.whole /\ tx'.len = tx.len
    <3> HIDE DEF w
    <3>1. tx' = [tx EXCEPT !.i = tx.i + 1, !.sent = tx.sent \o w]
      BY <1>1 DEF w
    <3> QED
      BY <1>0, <3>1
  <2>4. (tx.i + 1) * ChunkWords = lo + ChunkWords
    <3>1. \A a, b, c \in Int : (a + b) * c = a * c + b * c
      BY Z3
    <3> QED
      BY <1>0, <3>1
  <2>5. SentInOrder'
    <3> SUFFICES ASSUME overtaken = 0, tx.whole
                 PROVE  /\ Len(tx'.sent) = Reached'
                        /\ \A j \in 1 .. Len(tx'.sent) :
                              tx'.sent[j].frame = pub.frame /\ tx'.sent[j].word = j - 1
      BY <1>0, <1>1, <2>3 DEF SentInOrder, dcmiVars
    <3>1. Len(tx.sent) = lo
      BY <1>0 DEF DInv, SentInOrder, Reached
    <3>2. /\ Len(tx.sent \o w) = lo + ChunkWords
          /\ \A j \in 1 .. lo + ChunkWords : /\ (tx.sent \o w)[j].frame = pub.frame
                                             /\ (tx.sent \o w)[j].word = j - 1
      <4> HIDE DEF lo
      <4> QED
        BY <1>0, <2>2, <3>1, MoreInOrder
    <3>3. Reached' = lo + ChunkWords
      BY <1>0, <1>1, <2>3, <2>4 DEF Reached
    <3> QED
      BY <2>3, <3>2, <3>3
  <2> QED
    BY <2>1, <2>5 DEF DInv
<1>2. CASE tx' = [tx EXCEPT !.whole = FALSE] /\ Write(WriteErrors, "tail")
  <2>1. pc' \in {"accept", "tail"} /\ tx'.whole = FALSE
    BY <1>0, <1>2 DEF Write, Break, goto
  <2> QED
    BY <1>0, <2>1, CaptureStays DEF DInv, SentInOrder
<1> QED
  BY <1>1, <1>2 DEF Chunk

LEMMA TailInOrder ==
    ASSUME IInv, DInv, Tail_
    PROVE  DInv'
<1>0. /\ pc = "tail" /\ UNCHANGED dcmiVars /\ Sending /\ pc' \in {"accept", "end"}
      /\ tx \in [buf : Buffers, len : Index, i : Nat, sent : Seq(Cell),
                 whole : BOOLEAN, next : {"first", "second"}]
      /\ tx.len \in Nat /\ ChunkWords \in Nat /\ ChunkWords # 0
  BY ChunkAssumption DEF Tail_, Sending, IInv, TypeOK, Index, Write, Break, goto
<1>1. CapturedInOrder' /\ RecordedWhole'
  BY <1>0, CaptureStays
<1>2. CASE err' = "ERR_OK"
  <2> DEFINE lo == WholeChunks * ChunkWords
             n == LastWords
             w == Words(lo, n)
  <2>1. lo \in Nat /\ n \in Nat /\ lo + n = tx.len /\ lo + n <= tx.len
    <3>1. WholeChunks \in Nat /\ n \in Nat
      BY <1>0 DEF WholeChunks, LastWords
    <3>2. WholeChunks * ChunkWords \in Nat
      <4>1. \A a, b \in Nat : a * b \in Nat
        BY Z3
      <4> QED
        BY <1>0, <3>1, <4>1
    <3>3. tx.len = ChunkWords * WholeChunks + n
      <4>1. \A a \in Nat, b \in Nat \ {0} : a = b * (a \div b) + (a % b)
        BY Z3
      <4> QED
        BY <1>0, <4>1 DEF WholeChunks, LastWords
    <3>4. ChunkWords * WholeChunks = WholeChunks * ChunkWords
      BY <1>0, <3>1, Z3
    <3> QED
      BY <1>0, <3>1, <3>2, <3>3, <3>4
  <2>2. tx'.sent = tx.sent \o w /\ tx'.whole = tx.whole /\ tx'.len = tx.len
    <3> HIDE DEF w
    <3>1. tx' = [tx EXCEPT !.sent = tx.sent \o w]
      BY <1>2 DEF Tail_, w
    <3> QED
      BY <1>0, <3>1
  <2>3. SentInOrder'
    <3> SUFFICES ASSUME overtaken = 0, tx.whole, pc' = "end"
                 PROVE  /\ Len(tx'.sent) = tx.len
                        /\ \A j \in 1 .. Len(tx'.sent) :
                              tx'.sent[j].frame = pub.frame /\ tx'.sent[j].word = j - 1
      BY <1>0, <2>2 DEF SentInOrder, dcmiVars, Sending, Reached
    <3>1. Len(tx.sent) = lo
      BY <1>0 DEF DInv, SentInOrder, Reached
    <3>2. /\ Len(tx.sent \o w) = lo + n
          /\ \A j \in 1 .. lo + n : /\ (tx.sent \o w)[j].frame = pub.frame
                                    /\ (tx.sent \o w)[j].word = j - 1
      <4>1. lo + n <= tx.len /\ lo \in Nat /\ n \in Nat
        BY <2>1
      <4> HIDE DEF lo, n
      <4> QED
        BY <1>0, <3>1, <4>1, MoreInOrder
    <3> HIDE DEF lo, n, w
    <3> QED
      BY <2>1, <2>2, <3>2
  <2> QED
    BY <1>1, <2>3 DEF DInv
<1>3. CASE err' # "ERR_OK"
  <2>1. tx'.whole = FALSE
    BY <1>0, <1>3 DEF Tail_
  <2> QED
    BY <1>1, <2>1 DEF DInv, SentInOrder
<1> QED
  BY <1>2, <1>3

LEMMA BeginInOrder ==
    ASSUME DInv, UNCHANGED <<dcmiVars, err>>, pc # "boot", NEW b, NEW next, Begin(b, next)
    PROVE  DInv'
<1>1. pc' = "logo" /\ tx' = [buf |-> b, len |-> jpeg_data_len, i |-> 0,
                             sent |-> <<>>, whole |-> TRUE, next |-> next]
  BY DEF Begin, goto, NoTx
<1>2. tx'.i = 0 /\ tx'.sent = <<>> /\ Len(tx'.sent) = 0
  BY <1>1
<1>3. SentInOrder'
  BY <1>1, <1>2 DEF SentInOrder, Reached
<1> QED
  BY <1>1, <1>3, CaptureStays DEF DInv

(* Boot, restart, and the end of a transmission. *)
LEMMA RestInOrder ==
    ASSUME CleanCapture, IInv, DInv,
           \/ Boot
           \/ SystemReset /\ pc' = "boot"
           \/ Done
    PROVE  DInv'
<1>0. TypeOK
  BY DEF IInv
<1>1. CASE Boot
  <2>1. /\ pc = "boot" /\ pc' = "accept" /\ dma' = Armed(1) /\ capture' = TRUE
        /\ UNCHANGED <<jpeg_data_ok, jpeg_data_len, frame_pending, sensor, ended,
                       pub, overtaken>>
        /\ StartRun(pub.run)
    BY <1>1 DEF Boot, StartCapture, goto
  <2>2. sensor.word = 0 /\ ~frame_pending
    BY <2>1 DEF DInv, CapturedInOrder
  <2>3. dma'.on /\ Transferred' = 0
    BY <2>1, BufAssumption DEF Armed, Transferred
  <2>4. FrameIn(dma.buf, sensor.word, sensor.frame)'
    BY <2>1, <2>2 DEF FrameIn
  <2>5. CapturedInOrder'
    BY <2>1, <2>2, <2>3, <2>4 DEF DInv, CapturedInOrder
  <2>6. RecordedWhole'
    <3> SUFFICES ASSUME jpeg_data_ok = 1, overtaken = 0
                 PROVE  jpeg_data_len = pub.words /\ FrameIn(pub.buf, pub.words, pub.frame)'
      BY <2>1 DEF RecordedWhole
    <3>1. /\ jpeg_data_len = pub.words /\ FrameIn(pub.buf, pub.words, pub.frame)
          /\ \A k \in 0 .. (jpeg_data_len - 1) : mem[pub.buf][k].run = pub.run
      BY DEF DInv, RecordedWhole, IInv, RecordedFrameKept
    <3>2. /\ mem \in [Buffers -> [Index -> Cell]] /\ pub.run \in Nat /\ pub.buf \in Buffers
          /\ \A k \in 0 .. (jpeg_data_len - 1) : k \in Index
      BY <1>0, BufAssumption DEF TypeOK, DcmiTypeOK, Index
    <3>3. \A k \in 0 .. (jpeg_data_len - 1) : mem'[pub.buf][k] = mem[pub.buf][k]
      BY <2>1, <3>1, <3>2, RunStarted
    <3> QED
      BY <2>1, <3>1, <3>3 DEF FrameIn
  <2>7. SentInOrder'
    BY <2>1 DEF SentInOrder, Sending
  <2> QED
    BY <2>5, <2>6, <2>7 DEF DInv
<1>2. CASE SystemReset /\ pc' = "boot"
  <2>1. /\ capture' = FALSE /\ frame_pending' = FALSE /\ sensor'.word = 0
        /\ jpeg_data_ok' = 0 /\ ~Sending'
    BY <1>2 DEF SystemReset, Sending
  <2>2. CapturedInOrder'
    BY <1>2, <2>1, SensorAssumption DEF CapturedInOrder
  <2> QED
    BY <2>1, <2>2 DEF DInv, RecordedWhole, SentInOrder
<1>3. CASE Done
  <2>1. /\ pc = "done" /\ pc' \in {"first", "second"} /\ jpeg_data_ok' = 2
        /\ UNCHANGED <<dma, capture, frame_pending, sensor, mem, ended>>
    BY <1>0, <1>3 DEF Done, goto, hwVars, TypeOK
  <2>2. CapturedInOrder'
    BY <2>1 DEF DInv, CapturedInOrder, FrameIn, Transferred
  <2>3. RecordedWhole' /\ SentInOrder'
    BY <2>1 DEF RecordedWhole, SentInOrder, Sending
  <2> QED
    BY <2>2, <2>3 DEF DInv
<1> QED
  BY <1>1, <1>2, <1>3

LEMMA NextInOrder ==
    ASSUME CleanCapture, IInv, DInv, [Next]_vars
    PROVE  DInv'
<1>1. CASE Capture
  <2>1. ~Overflow
    BY DEF Overflow, CleanCapture
  <2> QED
    BY <1>1, <2>1, WordInOrder, EndInOrder, IsrInOrder DEF Capture, DcmiNext
<1>2. CASE Boot \/ Done
  BY <1>2, RestInOrder
<1>3. CASE Accept
  <2>1. UNCHANGED dcmiVars /\ pc = "accept" /\ pc' \in {"accept", "first"}
    BY <1>3 DEF Accept, goto
  <2> QED
    BY <2>1, CaptureStays DEF DInv, SentInOrder, Sending
<1>4. CASE First \/ Second
  <2>1. CASE \E b, next : Begin(b, next)
    <3>1. pc # "boot" /\ UNCHANGED <<dcmiVars, err>>
      BY <1>4 DEF First, Second
    <3> QED
      BY <2>1, <3>1, BeginInOrder
  <2>2. CASE UNCHANGED <<dcmiVars, tx>> /\ pc \in {"first", "second"} /\ pc' \in {"second", "idle"}
    BY <2>2, QuietInOrder DEF Sending
  <2> QED
    BY <1>4, <2>1, <2>2 DEF First, Second, goto
<1>5. CASE Logo \/ Header \/ SendEnd
  <2>1. /\ UNCHANGED <<dcmiVars, tx>>
        /\ \/ pc = "logo" /\ pc' \in {"accept", "header"}
           \/ pc = "header" /\ pc' \in {"accept", "chunks"}
           \/ pc = "end" /\ pc' \in {"accept", "recv"}
    BY <1>5 DEF Logo, Header, SendEnd, Write, Break, goto
  <2> QED
    BY <2>1, QuietInOrder DEF Sending
<1>6. CASE Chunk
  BY <1>6, ChunkInOrder
<1>7. CASE ChunksDone
  <2>1. UNCHANGED <<dcmiVars, tx>> /\ pc' \in {"accept", "tail"} /\ pc = "chunks" /\ tx.i = WholeChunks
    BY <1>7 DEF ChunksDone, Break, goto
  <2> QED
    BY <2>1, QuietInOrder DEF Sending
<1>8. CASE Tail_
  BY <1>8, TailInOrder
<1>9. CASE Receive
  <2>1. /\ UNCHANGED <<dcmiVars, tx>>
        /\ \/ pc = "recv" /\ pc' \in {"command", "accept", "done"}
           \/ pc = "idle_recv" /\ pc' \in {"idle_command", "accept", "first"}
    BY <1>9 DEF Receive, Recv, Break, goto
  <2> QED
    BY <2>1, QuietInOrder DEF Sending
<1>10. CASE Obey
  <2>1. CASE SystemReset /\ pc' = "boot"
    BY <2>1, RestInOrder
  <2>2. CASE /\ UNCHANGED <<dcmiVars, tx>>
             /\ \/ pc = "command" /\ pc' \in {"accept", "done"}
                \/ pc = "idle_command" /\ pc' \in {"accept", "first"}
    BY <2>2, QuietInOrder DEF Sending
  <2> QED
    BY <1>10, <2>1, <2>2 DEF Obey, Command, Write, Break, goto
<1>11. CASE Idle
  <2>1. UNCHANGED <<dcmiVars, tx>> /\ pc = "idle" /\ pc' \in {"accept", "idle_recv"}
    BY <1>11 DEF Idle, Break, goto
  <2> QED
    BY <2>1, QuietInOrder DEF Sending
<1>12. CASE UNCHANGED vars
  <2>1. UNCHANGED <<dcmiVars, tx>> /\ pc' = pc
    BY <1>12 DEF vars
  <2> QED
    BY <2>1, QuietInOrder
<1> QED
  BY <1>1, <1>2, <1>3, <1>4, <1>5, <1>6, <1>7, <1>8, <1>9, <1>10, <1>11, <1>12
     DEF Next, Thread

(* Of a capture without faults, every transmission without a failed write that no later
   frame overtakes delivers the recorded frame: all of its words, in order, under their
   number, for every size of buffer, frame and chunk. *)
THEOREM DeliveredInOrder ==
    ASSUME CleanCapture
    PROVE  Spec => []DeliveredExactly
<1>1. Init => DInv
  BY InitDelivered
<1>2. IInv /\ DInv /\ [Next]_vars => DInv'
  BY NextInOrder
<1>3. IInv /\ DInv => DeliveredExactly
  <2> SUFFICES ASSUME IInv, DInv, pc \in {"recv", "command", "done"}, tx.whole, overtaken = 0
               PROVE  /\ Len(tx.sent) = pub.words /\ tx.len = pub.words
                      /\ \A j \in 1 .. Len(tx.sent) :
                            tx.sent[j].frame = pub.frame /\ tx.sent[j].word = j - 1
    BY DEF DeliveredExactly
  <2>1. Sending /\ Reached = tx.len
    BY DEF Sending, Reached
  <2>2. tx.len = jpeg_data_len /\ jpeg_data_len = pub.words
    BY <2>1 DEF IInv, SentFromRecordedRun, SendingOnlyRecorded, DInv, RecordedWhole
  <2> QED
    BY <2>1, <2>2 DEF DInv, SentInOrder
<1> QED
  BY <1>1, <1>2, <1>3, Invariance, PTL DEF Spec
=============================================================================
