------------------------ MODULE NetconnServer_proofs ------------------------
(***************************************************************************)
(* Proofs about NetconnServer, for every number of netconns, queues, netbufs *)
(* and clients, and every size of the mailboxes.                            *)
(***************************************************************************)
EXTENDS NetconnServer, FiniteSetTheorems, TLAPS

(* A netconn in the pool is as netconn_alloc will find it. *)
FreeIsNone == \A c \in Conns : ~nc[c].used => nc[c] = None

(* Who has a netconn: each waits once, or is served. *)
Owned ==
    /\ InUse = Waiting \cup (IF Serving THEN {cur} ELSE {})
    /\ Serving => cur \notin Waiting
    /\ \A i, j \in DOMAIN acceptmbox : acceptmbox[i] = acceptmbox[j] => i = j
    /\ \A c \in Conns : nc[c].pcb => nc[c].used
    /\ pc = "delete" => ~nc[cur].pcb

(* What the pools lost stays lost until the next start. *)
PoolsBounded ==
    /\ NetbufTotal <= Netbufs
    /\ QueueTotal <= Queues

Sending == pc \in {"send", "send_wait"} => left > 0

(* A connection that can still bring data has had no end and no error: its mailbox
   holds commands only. *)
OrderAt(n, p) ==
    n.mbox /\ ~p.dropped =>
        /\ p.sent - p.obeyed \in 0 .. Len(n.box)
        /\ \A i \in 1 .. Len(n.box) :
              n.box[i] = IF i <= p.sent - p.obeyed THEN p.obeyed + i ELSE NULL
        /\ n.pcb /\ p.side = "open" => Len(n.box) = p.sent - p.obeyed

InOrder == \A c \in Conns : OrderAt(nc[c], peer[c])

(* Even if messages were lost: the commands in a mailbox are some of those sent and not
   obeyed, in the order sent. *)
RisingAt(n, p) ==
    /\ n.mbox \/ n.box = <<>>
    /\ p.obeyed <= p.sent
    /\ \A i \in 1 .. Len(n.box) : n.box[i] # NULL => p.obeyed < n.box[i] /\ n.box[i] <= p.sent
    /\ \A i, j \in 1 .. Len(n.box) :
          i < j /\ n.box[i] # NULL /\ n.box[j] # NULL => n.box[i] < n.box[j]

Rising == \A c \in Conns : RisingAt(nc[c], peer[c])

\* There is no client at the other end of a free netconn.
Vacant == \A c \in Conns : ~nc[c].used => peer[c] = NoPeer

ServerInv ==
    /\ TypeOK
    /\ FreeIsNone
    /\ Owned
    /\ PoolsBounded
    /\ Sending
    /\ InOrder
    /\ Rising
    /\ Vacant

-----------------------------------------------------------------------------
LEMMA Bounds ==
    /\ Queues \in Nat /\ BoxSize \in Nat /\ BoxSize > 0 /\ Netbufs \in Nat
    /\ Writes \in Nat /\ Writes > 0 /\ BusyLimit \in Nat /\ BusyLimit > 0
    /\ IsFiniteSet(Conns)
BY PoolAssumption, BoundAssumption, ConnAssumption

LEMMA Records == None \in Netconn /\ NoPeer \in Peer
BY DEF None, Netconn, Results, NoPeer, Peer, Sides

NetconnOK(n) == n \in Netconn /\ Len(n.box) <= BoxSize

LEMMA ErrKept ==
    ASSUME NEW last \in Results, NEW e \in Results
    PROVE  /\ SafeErr(last, e) \in Results
           /\ last \in Fatal => SafeErr(last, e) = last
BY DEF SafeErr, Results

(* Every step that changes a netconn changes one: what becomes of it. *)
LEMMA PostShape ==
    ASSUME TypeOK, NEW c \in Conns, NEW m \in Nat, Post(c, m)
    PROVE  \E n \in Netconn :
              /\ nc' = [nc EXCEPT ![c] = n] /\ NetconnOK(n)
              /\ n.used = nc[c].used /\ n.pcb = nc[c].pcb /\ n.mbox = nc[c].mbox
              /\ nc[c].last_err \in Fatal => n.last_err = nc[c].last_err
              /\ n.box = IF Valid(c) THEN Append(nc[c].box, m) ELSE nc[c].box
<1>0. nc \in [Conns -> Netconn] /\ Len(nc[c].box) <= BoxSize /\ nc[c] \in Netconn
  BY DEF TypeOK
<1>1. CASE Valid(c)
  <2> DEFINE n == [nc[c] EXCEPT !.box = Append(nc[c].box, m),
                                !.last_err = SafeErr(nc[c].last_err, "ERR_OK")]
  <2>a. Append(nc[c].box, m) \in Seq(Nat) /\ SafeErr(nc[c].last_err, "ERR_OK") \in Results
    <3>1. nc[c].box \in Seq(Nat) /\ nc[c].last_err \in Results /\ "ERR_OK" \in Results
      BY <1>0 DEF Netconn, Results
    <3> QED
      BY <3>1, ErrKept
  <2>1. n \in Netconn
    BY <1>0, <2>a DEF Netconn
  <2>2. Len(n.box) <= BoxSize
    BY <1>0, <1>1, Bounds DEF Netconn, Valid
  <2>3. nc' = [nc EXCEPT ![c] = n]
    BY <1>0, <1>1 DEF Post
  <2>4. /\ n.used = nc[c].used /\ n.pcb = nc[c].pcb /\ n.mbox = nc[c].mbox
        /\ nc[c].last_err \in Fatal => n.last_err = nc[c].last_err
        /\ n.box = IF Valid(c) THEN Append(nc[c].box, m) ELSE nc[c].box
    BY <1>0, <1>1 DEF Netconn, SafeErr
  <2> QED
    BY <2>1, <2>2, <2>3, <2>4 DEF NetconnOK
<1>2. CASE ~Valid(c)
  <2>1. nc' = [nc EXCEPT ![c] = nc[c]]
    BY <1>0, <1>2 DEF Post
  <2> QED
    BY <1>0, <1>2, <2>1 DEF NetconnOK
<1> QED
  BY <1>1, <1>2

LEMMA ErrTcpShape ==
    ASSUME TypeOK, NEW c \in Conns, NEW e \in Fatal, ErrTcp(c, e)
    PROVE  \E n \in Netconn :
              /\ nc' = [nc EXCEPT ![c] = n] /\ NetconnOK(n)
              /\ n.used = nc[c].used /\ ~n.pcb /\ n.mbox = nc[c].mbox /\ n.last_err = e
              /\ n.box = IF Valid(c) THEN Append(nc[c].box, NULL) ELSE nc[c].box
<1>0. nc \in [Conns -> Netconn] /\ Len(nc[c].box) <= BoxSize /\ nc[c] \in Netconn
  BY DEF TypeOK
<1> DEFINE b == IF Valid(c) THEN Append(nc[c].box, NULL) ELSE nc[c].box
           n == [nc[c] EXCEPT !.pcb = FALSE, !.last_err = e, !.box = b]
<1>1. b \in Seq(Nat) /\ Len(b) <= BoxSize
  BY <1>0, Bounds DEF Netconn, Valid, NULL
<1>2. n \in Netconn
  BY <1>0, <1>1 DEF Netconn, Results
<1>3. nc' = [nc EXCEPT ![c] = n]
  BY <1>0 DEF ErrTcp
<1>4. n.used = nc[c].used /\ ~n.pcb /\ n.mbox = nc[c].mbox /\ n.last_err = e /\ n.box = b
  BY <1>0 DEF Netconn
<1> QED
  BY <1>1, <1>2, <1>3, <1>4 DEF NetconnOK

LEMMA PendShape ==
    ASSUME TypeOK, PendData \/ PendNull
    PROVE  \E n \in Netconn :
              /\ nc' = [nc EXCEPT ![cur] = n] /\ NetconnOK(n)
              /\ n.used = nc[cur].used /\ n.pcb = nc[cur].pcb /\ n.mbox = nc[cur].mbox
              /\ nc[cur].last_err \in Fatal => n.last_err = nc[cur].last_err
              /\ n.box = Tail(nc[cur].box) /\ nc[cur].box # <<>>
<1>0. nc \in [Conns -> Netconn] /\ Len(nc[cur].box) <= BoxSize /\ nc[cur] \in Netconn /\ cur \in Conns
  BY DEF TypeOK
<1>a. nc[cur].box \in Seq(Nat) /\ nc[cur].box # <<>> /\ nc[cur].last_err \in Results
  BY <1>0 DEF PendData, PendNull, Netconn
<1> DEFINE b == Tail(nc[cur].box)
           e == IF PendData THEN nc[cur].last_err ELSE SafeErr(nc[cur].last_err, "ERR_CLSD")
           n == [nc[cur] EXCEPT !.box = b, !.last_err = e]
<1>1. b \in Seq(Nat) /\ Len(b) <= BoxSize
  BY <1>0, <1>a, Bounds
<1>2. e \in Results /\ (nc[cur].last_err \in Fatal => e = nc[cur].last_err)
  BY <1>a, ErrKept DEF Results, Fatal
<1>3. nc' = [nc EXCEPT ![cur] = n]
  <2>1. CASE PendData
    BY <1>0, <2>1 DEF PendData, Netconn
  <2>2. CASE ~PendData
    BY <1>0, <2>2 DEF PendNull, Netconn
  <2> QED
    BY <2>1, <2>2
<1> HIDE DEF b, e
<1>4. /\ n \in Netconn /\ n.used = nc[cur].used /\ n.pcb = nc[cur].pcb /\ n.mbox = nc[cur].mbox
      /\ n.last_err = e /\ n.box = b
  BY <1>0, <1>1, <1>2 DEF Netconn
<1> QED
  BY <1>a, <1>1, <1>2, <1>3, <1>4 DEF NetconnOK, b

LEMMA DoCloseShape ==
    ASSUME TypeOK, NEW p \in BOOLEAN, DoClose(p)
    PROVE  \E n \in Netconn :
              /\ nc' = [nc EXCEPT ![cur] = n] /\ NetconnOK(n)
              /\ n.used = nc[cur].used /\ n.pcb = p
              /\ n.mbox = (nc[cur].mbox /\ ~Valid(cur))
              /\ nc[cur].last_err \in Fatal => n.last_err = nc[cur].last_err
              /\ n.mbox => n.box = nc[cur].box
              /\ n.box \in {<<>>, nc[cur].box}
              /\ n.mbox = nc[cur].mbox \/ n.box = <<>>
<1>0. nc \in [Conns -> Netconn] /\ Len(nc[cur].box) <= BoxSize /\ nc[cur] \in Netconn /\ cur \in Conns
  BY DEF TypeOK
<1> DEFINE b == IF Valid(cur) THEN <<>> ELSE nc[cur].box
           m == nc[cur].mbox /\ ~Valid(cur)
           e == SafeErr(nc[cur].last_err, "ERR_OK")
           n == [nc[cur] EXCEPT !.box = b, !.mbox = m, !.pcb = p, !.last_err = e]
<1>1. b \in Seq(Nat) /\ Len(b) <= BoxSize /\ m \in BOOLEAN /\ (m => b = nc[cur].box)
      /\ b \in {<<>>, nc[cur].box} /\ (m = nc[cur].mbox \/ b = <<>>)
  BY <1>0, Bounds DEF Netconn
<1>2. e \in Results /\ (nc[cur].last_err \in Fatal => e = nc[cur].last_err)
  BY <1>0, ErrKept DEF Netconn, Results
<1>3. nc' = [nc EXCEPT ![cur] = n]
  BY <1>0 DEF DoClose
<1> HIDE DEF b, e, m
<1>4. n \in Netconn /\ n.used = nc[cur].used /\ n.pcb = p /\ n.mbox = m /\ n.last_err = e /\ n.box = b
  BY <1>0, <1>1, <1>2 DEF Netconn
<1> QED
  BY <1>1, <1>2, <1>3, <1>4 DEF NetconnOK, m

LEMMA StoreShape ==
    ASSUME TypeOK, RecvTimeout \/ CloseDone
    PROVE  \E n \in Netconn :
              /\ nc' = [nc EXCEPT ![cur] = n] /\ NetconnOK(n)
              /\ n.used = nc[cur].used /\ (n.pcb => nc[cur].pcb /\ ~CloseDone)
              /\ n.mbox = nc[cur].mbox
              /\ nc[cur].last_err \in Fatal => n.last_err = nc[cur].last_err
              /\ n.box = nc[cur].box
<1>0. nc \in [Conns -> Netconn] /\ Len(nc[cur].box) <= BoxSize /\ nc[cur] \in Netconn /\ cur \in Conns
  BY DEF TypeOK
<1>1. CASE RecvTimeout
  <2> DEFINE e == SafeErr(nc[cur].last_err, "ERR_OK")
             n == [nc[cur] EXCEPT !.last_err = e]
  <2>1. e \in Results /\ (nc[cur].last_err \in Fatal => e = nc[cur].last_err)
    BY <1>0, ErrKept DEF Netconn, Results
  <2>2. nc' = [nc EXCEPT ![cur] = n] /\ ~CloseDone
    BY <1>0, <1>1 DEF RecvTimeout, CloseDone
  <2> HIDE DEF e
  <2>3. /\ n \in Netconn /\ n.used = nc[cur].used /\ n.pcb = nc[cur].pcb /\ n.mbox = nc[cur].mbox
        /\ n.last_err = e /\ n.box = nc[cur].box
    BY <1>0, <2>1 DEF Netconn
  <2> QED
    BY <1>0, <2>1, <2>2, <2>3 DEF NetconnOK
<1>2. CASE CloseDone
  <2> DEFINE n == [nc[cur] EXCEPT !.pcb = FALSE]
  <2>1. nc' = [nc EXCEPT ![cur] = n]
    BY <1>0, <1>2 DEF CloseDone
  <2>2. /\ n \in Netconn /\ n.used = nc[cur].used /\ ~n.pcb /\ n.mbox = nc[cur].mbox
        /\ n.last_err = nc[cur].last_err /\ n.box = nc[cur].box
    BY <1>0 DEF Netconn
  <2> QED
    BY <1>0, <2>1, <2>2 DEF NetconnOK
<1> QED
  BY <1>1, <1>2

-----------------------------------------------------------------------------
(* Mailboxes and the queues they take. *)

MBoxes == {c \in Conns : nc[c].mbox}

LEMMA MBoxCount ==
    ASSUME TypeOK, NEW c \in Conns, NEW n \in Netconn, nc' = [nc EXCEPT ![c] = n]
    PROVE  /\ Cardinality(MBoxes) \in Nat /\ (nc[c].mbox => Cardinality(MBoxes) > 0)
           /\ n.mbox /\ ~nc[c].mbox => Cardinality(MBoxes') = Cardinality(MBoxes) + 1
           /\ ~n.mbox /\ nc[c].mbox => Cardinality(MBoxes') = Cardinality(MBoxes) - 1
           /\ (n.mbox <=> nc[c].mbox) => Cardinality(MBoxes') = Cardinality(MBoxes)
<1>0. nc \in [Conns -> Netconn]
  BY DEF TypeOK
<1>1. IsFiniteSet(MBoxes) /\ Cardinality(MBoxes) \in Nat
  BY Bounds, FS_Subset, FS_CardinalityType DEF MBoxes
<1>2. nc[c].mbox => Cardinality(MBoxes) > 0
  BY <1>1, FS_EmptySet DEF MBoxes
<1>3. MBoxes' = IF n.mbox THEN MBoxes \cup {c} ELSE MBoxes \ {c}
  BY <1>0 DEF MBoxes
<1>4. c \in MBoxes <=> nc[c].mbox
  BY DEF MBoxes
<1>5. /\ Cardinality(MBoxes \cup {c}) = IF c \in MBoxes THEN Cardinality(MBoxes) ELSE Cardinality(MBoxes) + 1
      /\ Cardinality(MBoxes \ {c}) = IF c \in MBoxes THEN Cardinality(MBoxes) - 1 ELSE Cardinality(MBoxes)
  BY <1>1, FS_AddElement, FS_RemoveElement
<1>6. n.mbox \in BOOLEAN /\ nc[c].mbox \in BOOLEAN
  BY <1>0 DEF Netconn
<1> QED
  BY <1>1, <1>2, <1>3, <1>4, <1>5, <1>6

LEMMA QueueCount == QueueTotal = queues + Cardinality(MBoxes)
BY DEF QueueTotal, MBoxes

LEMMA CountType == TypeOK => Cardinality(MBoxes) \in Nat
BY Bounds, FS_Subset, FS_CardinalityType DEF MBoxes

(* A connection, a close and a delete move queues between the pool and a mailbox. *)
LEMMA ConnectQueues ==
    ASSUME ServerInv, NEW c \in Conns, Connect(c)
    PROVE  queues' \in 0 .. Queues /\ QueueTotal' = QueueTotal
<1>1. TypeOK /\ nc[c] = None /\ queues \in 0 .. Queues
  BY DEF ServerInv, FreeIsNone, Connect, TypeOK
<1> DEFINE n == [None EXCEPT !.used = TRUE, !.pcb = TRUE, !.mbox = TRUE]
<1>2. n \in Netconn /\ n.mbox /\ ~nc[c].mbox
  BY <1>1, Records DEF None, Netconn
<1>3. nc' = [nc EXCEPT ![c] = n] /\ queues' = queues - 1 /\ queues > 0
  BY DEF Connect
<1> HIDE DEF n
<1>4. Cardinality(MBoxes) \in Nat /\ Cardinality(MBoxes') = Cardinality(MBoxes) + 1
  BY <1>1, <1>2, <1>3, MBoxCount
<1> QED
  BY <1>1, <1>3, <1>4, Bounds DEF QueueTotal, MBoxes

LEMMA DoCloseQueues ==
    ASSUME ServerInv, NEW p \in BOOLEAN, DoClose(p)
    PROVE  queues' \in 0 .. Queues /\ QueueTotal' = QueueTotal
<1>1. TypeOK /\ queues \in 0 .. Queues /\ cur \in Conns
  BY DEF ServerInv, TypeOK
<1>2. PICK n \in Netconn : nc' = [nc EXCEPT ![cur] = n] /\ n.mbox = (nc[cur].mbox /\ ~Valid(cur))
  BY <1>1, DoCloseShape
<1>3. queues' = IF Valid(cur) THEN queues + 1 ELSE queues
  BY DEF DoClose
<1>4. /\ Cardinality(MBoxes) \in Nat /\ (nc[cur].mbox => Cardinality(MBoxes) > 0)
      /\ ~n.mbox /\ nc[cur].mbox => Cardinality(MBoxes') = Cardinality(MBoxes) - 1
      /\ (n.mbox <=> nc[cur].mbox) => Cardinality(MBoxes') = Cardinality(MBoxes)
  BY <1>1, <1>2, MBoxCount
<1>5. queues + Cardinality(MBoxes) <= Queues
  BY QueueCount DEF ServerInv, PoolsBounded
<1>6. Valid(cur) => nc[cur].mbox
  BY DEF Valid
<1>a. IF Valid(cur) THEN nc[cur].mbox /\ ~n.mbox ELSE n.mbox <=> nc[cur].mbox
  BY <1>2, <1>6
<1>7. queues' \in 0 .. Queues /\ queues' + Cardinality(MBoxes') = queues + Cardinality(MBoxes)
  <2>1. CASE Valid(cur)
    BY <1>1, <1>a, <1>3, <1>4, <1>5, <2>1, Bounds
  <2>2. CASE ~Valid(cur)
    BY <1>1, <1>a, <1>3, <1>4, <1>5, <2>2, Bounds
  <2> QED
    BY <2>1, <2>2
<1> QED
  BY <1>7 DEF QueueTotal, MBoxes

LEMMA DeleteQueues ==
    ASSUME ServerInv, Delete
    PROVE  /\ queues' \in 0 .. Queues
           /\ QueueTotal' <= QueueTotal
           /\ QueueTotal' < QueueTotal => Len(nc[cur].box) = BoxSize
<1>1. TypeOK /\ queues \in 0 .. Queues /\ cur \in Conns /\ nc[cur] \in Netconn
      /\ Len(nc[cur].box) <= BoxSize
  BY DEF ServerInv, TypeOK
<1>2. None \in Netconn /\ nc' = [nc EXCEPT ![cur] = None] /\ ~None.mbox
      /\ queues' = IF Valid(cur) THEN queues + 1 ELSE queues
  BY Records DEF Delete, None
<1>4. /\ Cardinality(MBoxes) \in Nat /\ (nc[cur].mbox => Cardinality(MBoxes) > 0)
      /\ nc[cur].mbox => Cardinality(MBoxes') = Cardinality(MBoxes) - 1
      /\ ~nc[cur].mbox => Cardinality(MBoxes') = Cardinality(MBoxes)
  BY <1>1, <1>2, MBoxCount
<1>5. queues + Cardinality(MBoxes) <= Queues
  BY QueueCount DEF ServerInv, PoolsBounded
<1>6. Valid(cur) <=> nc[cur].mbox /\ Len(nc[cur].box) < BoxSize
  BY DEF Valid
<1>a. Len(nc[cur].box) \in Nat
  BY <1>1 DEF Netconn
<1>7. /\ queues' \in 0 .. Queues /\ queues' + Cardinality(MBoxes') <= queues + Cardinality(MBoxes)
      /\ queues' + Cardinality(MBoxes') < queues + Cardinality(MBoxes) => Len(nc[cur].box) = BoxSize
  BY <1>1, <1>a, <1>2, <1>4, <1>5, <1>6, Bounds
<1> QED
  BY <1>7 DEF QueueTotal, MBoxes

(* No other step moves one. *)
LEMMA OtherQueues ==
    ASSUME TypeOK, NEW c \in Conns, NEW n \in Netconn, nc' = [nc EXCEPT ![c] = n],
           n.mbox = nc[c].mbox, queues' = queues
    PROVE  queues' \in 0 .. Queues /\ QueueTotal' = QueueTotal
<1>1. MBoxes' = MBoxes
  BY DEF TypeOK, MBoxes
<1> QED
  BY <1>1 DEF TypeOK, QueueTotal, MBoxes

LEMMA RestartQueues ==
    ASSUME Restart
    PROVE  queues' \in 0 .. Queues /\ QueueTotal' = Queues
<1>1. MBoxes' = {} /\ queues' = Queues
  BY DEF Restart, MBoxes, None
<1> QED
  BY <1>1, Bounds, FS_EmptySet DEF QueueTotal, MBoxes

-----------------------------------------------------------------------------
(* The netconns: taken, given back, or kept. *)

Kept(c, n) ==
    /\ NetconnOK(n)
    /\ nc[c].used /\ n.used
    /\ n.pcb => nc[c].pcb
    /\ n.mbox => nc[c].mbox
    /\ nc[c].last_err \in Fatal => n.last_err \in Fatal

NetconnStep ==
    \/ nc' = nc
    \/ \E c \in Conns : \E n \in Netconn : nc' = [nc EXCEPT ![c] = n] /\ Kept(c, n)
    \/ \E c \in Conns : Connect(c)
    \/ Delete
    \/ Restart

LEMMA ServedUsed == ServerInv /\ Serving => nc[cur].used
BY DEF ServerInv, Owned, InUse

LEMMA NetconnSteps ==
    ASSUME ServerInv, Next
    PROVE  NetconnStep
<1>0. TypeOK /\ cur \in Conns /\ (Serving => nc[cur].used) /\ \A c \in Conns : nc[c].pcb => nc[c].used
  BY ServedUsed DEF ServerInv, Owned, TypeOK
<1>1. ASSUME NEW c \in Conns, Data(c) \/ Fin(c) PROVE NetconnStep
  <2>1. \E m \in Nat : Post(c, m)
    <3>1. peer[c].sent + 1 \in Nat /\ NULL \in Nat
      BY <1>0 DEF TypeOK, Peer, NULL
    <3> QED
      BY <1>1, <3>1 DEF Data, Fin
  <2>2. nc[c].used
    BY <1>0, <1>1 DEF Data, Fin, Listens
  <2> QED
    BY <1>0, <2>1, <2>2, PostShape DEF NetconnStep, Kept
<1>2. ASSUME NEW c \in Conns, Rst(c) \/ Timeout(c) PROVE NetconnStep
  <2>1. PICK e \in Fatal : ErrTcp(c, e)
    BY <1>2 DEF Rst, Timeout, Fatal
  <2>2. nc[c].used
    BY <1>0, <2>1 DEF ErrTcp
  <2>3. PICK n \in Netconn :
              /\ nc' = [nc EXCEPT ![c] = n] /\ NetconnOK(n)
              /\ n.used = nc[c].used /\ ~n.pcb /\ n.mbox = nc[c].mbox /\ n.last_err = e
    BY <1>0, <2>1, ErrTcpShape
  <2> QED
    BY <2>2, <2>3 DEF NetconnStep, Kept
<1>3. CASE PendData \/ PendNull
  <2>1. Serving
    BY <1>3 DEF PendData, PendNull, Serving
  <2> QED
    BY <1>0, <1>3, <2>1, PendShape DEF NetconnStep, Kept
<1>4. CASE RecvTimeout \/ CloseDone
  <2>1. Serving
    BY <1>4 DEF RecvTimeout, CloseDone, Serving
  <2> QED
    BY <1>0, <1>4, <2>1, StoreShape DEF NetconnStep, Kept
<1>5. CASE Close
  <2>1. CASE nc[cur].pcb
    <3>1. PICK p \in BOOLEAN : DoClose(p)
      BY <1>5, <2>1 DEF Close
    <3>2. Serving
      BY <1>5 DEF Close, Serving
    <3>3. PICK n \in Netconn :
              /\ nc' = [nc EXCEPT ![cur] = n] /\ NetconnOK(n)
              /\ n.used = nc[cur].used /\ n.pcb = p
              /\ n.mbox = (nc[cur].mbox /\ ~Valid(cur))
              /\ nc[cur].last_err \in Fatal => n.last_err = nc[cur].last_err
      BY <1>0, <3>1, DoCloseShape
    <3> QED
      BY <1>0, <2>1, <3>2, <3>3 DEF NetconnStep, Kept
  <2>2. CASE ~nc[cur].pcb
    BY <1>5, <2>2 DEF Close, NetconnStep
  <2> QED
    BY <2>1, <2>2
<1>6. CASE Obey \/ Watchdog
  BY <1>6 DEF Obey, Watchdog, NetconnStep
<1>7. ASSUME NEW c \in Conns, Stall(c) \/ Vanish(c) PROVE NetconnStep
  BY <1>7 DEF Stall, Vanish, NetconnStep
<1>8. CASE WriteDone \/ Accept \/ AcceptTimeout \/ ServeFrame \/ ServeIdle \/ Send \/ Ack \/ RecvCall
           \/ PendTimeout
  BY <1>8 DEF WriteDone, Accept, AcceptTimeout, ServeFrame, ServeIdle, Send, Ack, WriteCall, RecvCall,
       PendTimeout, NetconnStep
<1> QED
  BY <1>1, <1>2, <1>3, <1>4, <1>5, <1>6, <1>7, <1>8 DEF Next, Tcpip, Thread, NetconnStep

LEMMA NetconnsTyped ==
    ASSUME ServerInv, Next
    PROVE  /\ nc' \in [Conns -> Netconn]
           /\ \A c \in Conns : Len(nc'[c].box) <= BoxSize
           /\ FreeIsNone'
           /\ \A c \in Conns : nc[c].last_err \in Fatal /\ nc'[c].used => nc'[c].last_err \in Fatal
<1>0. nc \in [Conns -> Netconn] /\ FreeIsNone /\ cur \in Conns /\ \A c \in Conns : Len(nc[c].box) <= BoxSize
  BY DEF ServerInv, TypeOK
<1>1. None \in Netconn /\ Len(None.box) <= BoxSize /\ ~None.used /\ None.last_err \notin Fatal
  BY Records, Bounds DEF None, Fatal
<1>2. CASE \E c \in Conns : \E n \in Netconn : nc' = [nc EXCEPT ![c] = n] /\ Kept(c, n)
  BY <1>0, <1>2 DEF Kept, NetconnOK, FreeIsNone
<1>3. ASSUME NEW c \in Conns, Connect(c)
      PROVE  /\ nc' \in [Conns -> Netconn]
             /\ \A d \in Conns : Len(nc'[d].box) <= BoxSize
             /\ FreeIsNone'
             /\ \A d \in Conns : nc[d].last_err \in Fatal /\ nc'[d].used => nc'[d].last_err \in Fatal
  <2> DEFINE n == [None EXCEPT !.used = TRUE, !.pcb = TRUE, !.mbox = TRUE]
  <2>1. n \in Netconn /\ Len(n.box) <= BoxSize /\ n.used
    BY <1>1 DEF None, Netconn
  <2>2. nc' = [nc EXCEPT ![c] = n] /\ nc[c] = None
    BY <1>0, <1>3 DEF Connect, FreeIsNone
  <2> HIDE DEF n
  <2> QED
    BY <1>0, <1>1, <2>1, <2>2 DEF FreeIsNone
<1>4. CASE Delete
  BY <1>0, <1>1, <1>4 DEF Delete, FreeIsNone
<1>5. CASE Restart
  BY <1>1, <1>5 DEF Restart, FreeIsNone
<1>6. CASE nc' = nc
  BY <1>0, <1>6 DEF FreeIsNone
<1> QED
  BY <1>2, <1>3, <1>4, <1>5, <1>6, NetconnSteps DEF NetconnStep

-----------------------------------------------------------------------------
(* The thread and its netbuf. *)

\* A step moves the netbuf between the pool and the thread, or loses it.
ControlStep ==
    /\ pc' \in Labels /\ err' \in Results /\ left' \in 0 .. Writes /\ Sending'
    /\ netbufs' \in 0 .. Netbufs /\ busy' \in 0 .. BusyLimit
    /\ \/ NetbufTotal' = NetbufTotal
       \/ NetbufTotal' = NetbufTotal - 1 /\ pc \in {"ack", "ack_wait"} /\ pc' = "close"
       \/ NetbufTotal' = Netbufs

LEMMA Netbuf ==
    ASSUME ServerInv
    PROVE  netbufs \in 0 .. Netbufs /\ Netbufs \in Nat /\ (Held => netbufs < Netbufs)
BY Bounds DEF ServerInv, TypeOK, PoolsBounded, NetbufTotal

LEMMA ReturnControl ==
    ASSUME ServerInv, NEW here \in {"send", "ack"}, NEW e \in Results, Return(here, e),
           here = "send" => pc \in {"send", "send_wait"},
           here = "ack" => pc \in {"ack", "ack_wait"},
           busy' \in 0 .. BusyLimit
    PROVE  ControlStep
<1>0. left \in 0 .. Writes /\ Writes \in Nat
  BY Bounds DEF ServerInv, TypeOK
<1>1. CASE e \in Closed
  <2>1. pc' = "close" /\ err' = e /\ left' = left /\ netbufs' = netbufs
    BY <1>1 DEF Return
  <2> QED
    BY <1>0, <2>1, Netbuf DEF ControlStep, Labels, Sending, NetbufTotal, Held
<1>2. CASE e \notin Closed /\ here = "send"
  <2>1. /\ err' = e /\ left' = left - 1 /\ netbufs' = netbufs
        /\ pc' = IF left = 1 THEN "recv" ELSE "send"
    BY <1>2 DEF Return
  <2>2. left > 0
    BY <1>2 DEF ServerInv, Sending
  <2> QED
    BY <1>0, <1>2, <2>1, <2>2, Netbuf DEF ControlStep, Labels, Sending, NetbufTotal, Held
<1>3. CASE e \notin Closed /\ here = "ack"
  <2>1. err' = e /\ left' = left /\ netbufs' = netbufs + 1 /\ pc' = "serve"
    BY <1>3 DEF Return
  <2> QED
    BY <1>0, <1>3, <2>1, Netbuf DEF ControlStep, Labels, Sending, NetbufTotal, Held
<1> QED
  BY <1>1, <1>2, <1>3

LEMMA RestartControl ==
    ASSUME Restart
    PROVE  ControlStep
BY Bounds DEF Restart, ControlStep, Labels, Results, Sending, NetbufTotal, Held

LEMMA ControlSteps ==
    ASSUME ServerInv, Next
    PROVE  ControlStep
<1>0. /\ pc \in Labels /\ err \in Results /\ left \in 0 .. Writes /\ Sending /\ busy \in 0 .. BusyLimit
      /\ Writes \in Nat /\ Writes > 0 /\ BusyLimit \in Nat /\ BusyLimit > 0
      /\ nc \in [Conns -> Netconn] /\ cur \in Conns
  BY Bounds DEF ServerInv, TypeOK
<1>a. "ERR_OK" \in Results /\ Fatal \subseteq Results /\ nc[cur].last_err \in Results
  BY <1>0 DEF Results, Netconn
<1>b. /\ busy' \in 0 .. BusyLimit /\ UNCHANGED <<netbufs, pc, err, left>> => ControlStep
      /\ UNCHANGED threadVars => ControlStep
  BY <1>0, Netbuf DEF ControlStep, Sending, NetbufTotal, Held, threadVars
<1>1. ASSUME NEW c \in Conns, Connect(c) \/ Data(c) \/ Fin(c) \/ Stall(c) \/ Vanish(c)
      PROVE  ControlStep
  BY <1>b, <1>1 DEF Connect, Data, Fin, Stall, Vanish
<1>2. ASSUME NEW c \in Conns, Rst(c) \/ Timeout(c) PROVE ControlStep
  <2>1. PICK e \in Fatal : ErrTcp(c, e)
    BY <1>2 DEF Rst, Timeout, Fatal
  <2>2. CASE c # cur \/ pc \notin {"send_wait", "ack_wait", "closing"}
    BY <1>b, <2>1, <2>2 DEF ErrTcp
  <2>3. CASE c = cur /\ pc = "send_wait"
    BY <1>0, <1>a, <2>1, <2>3, ReturnControl DEF ErrTcp
  <2>4. CASE c = cur /\ pc = "ack_wait"
    BY <1>0, <1>a, <2>1, <2>4, ReturnControl DEF ErrTcp
  <2>5. CASE c = cur /\ pc = "closing"
    <3>1. pc' = "delete" /\ UNCHANGED <<err, left, netbufs, busy>>
      BY <2>1, <2>5 DEF ErrTcp
    <3> QED
      BY <1>0, <2>5, <3>1, Netbuf DEF ControlStep, Labels, Sending, NetbufTotal, Held
  <2> QED
    BY <2>2, <2>3, <2>4, <2>5
<1>3. CASE WriteDone
  <2>1. CASE pc = "send_wait"
    BY <1>0, <1>a, <1>3, <2>1, ReturnControl DEF WriteDone
  <2>2. CASE pc = "ack_wait"
    BY <1>0, <1>a, <1>3, <2>2, ReturnControl DEF WriteDone
  <2> QED
    BY <1>3, <2>1, <2>2 DEF WriteDone
<1>4. ASSUME NEW here \in {"send", "ack"}, NEW wait \in {"send_wait", "ack_wait"},
             here = "send" <=> wait = "send_wait", WriteCall(here, wait)
      PROVE  ControlStep
  <2>1. CASE \E e \in Results : Return(here, e) /\ UNCHANGED busy
    BY <1>0, <1>4, <2>1, ReturnControl DEF WriteCall
  <2>2. CASE pc' = wait /\ busy' = 0 /\ UNCHANGED <<netbufs, err, left>>
    <3>1. pc = here
      BY <1>4 DEF WriteCall
    <3> QED
      BY <1>0, <1>4, <2>2, <3>1, Netbuf DEF ControlStep, Labels, Sending, NetbufTotal, Held
  <2> QED
    BY <1>a, <1>4, <2>1, <2>2 DEF WriteCall
<1>5. CASE Obey \/ Watchdog
  <2>1. CASE Restart
    BY <2>1, RestartControl
  <2>2. CASE pc = "obey" /\ pc' = "ack" /\ UNCHANGED <<netbufs, err, left, busy>>
    BY <1>0, <2>2, Netbuf DEF ControlStep, Labels, Sending, NetbufTotal, Held
  <2> QED
    BY <1>5, <2>1, <2>2 DEF Obey, Watchdog
<1>6. CASE CloseDone \/ Accept \/ PendData \/ PendTimeout \/ Close \/ Delete
  <2>1. /\ pc' \in Labels \ {"send", "send_wait"} /\ (Held' <=> Held)
        /\ netbufs' = netbufs /\ left' = left /\ err' \in Results /\ busy' \in 0 .. BusyLimit
    <3>1. CASE CloseDone \/ Accept \/ PendData \/ PendTimeout
      BY <1>0, <1>a, <3>1 DEF CloseDone, Accept, PendData, PendTimeout, Labels, Held
    <3>2. CASE Close
      <4>1. /\ pc = "close" /\ pc' \in {"delete", "closing"}
            /\ UNCHANGED <<netbufs, left, err>> /\ (busy' = busy \/ busy' = 0)
        BY <3>2 DEF Close
      <4> QED
        BY <1>0, <4>1 DEF Labels, Held
    <3>3. CASE Delete
      BY <1>0, <3>3 DEF Delete, Labels, Held
    <3> QED
      BY <1>6, <3>1, <3>2, <3>3
  <2> QED
    BY <1>0, <2>1, Netbuf DEF ControlStep, Sending, NetbufTotal
<1>7. CASE ServeFrame \/ ServeIdle \/ AcceptTimeout
  <2>1. /\ pc' \in Labels /\ ~Held /\ ~Held' /\ (pc' \in {"send", "send_wait"} => left' = Writes)
        /\ netbufs' = netbufs /\ left' \in 0 .. Writes /\ err' = err /\ busy' \in 0 .. BusyLimit
    BY <1>0, <1>7 DEF ServeFrame, ServeIdle, AcceptTimeout, Turn, Labels, Held
  <2> QED
    BY <1>0, <2>1, Netbuf DEF ControlStep, Sending, NetbufTotal
<1>8. CASE RecvCall
  <2>1. CASE pc' = "pend" /\ netbufs' = netbufs - 1 /\ netbufs # 0
    BY <1>0, <1>8, <2>1, Netbuf DEF RecvCall, ControlStep, Labels, Sending, NetbufTotal, Held
  <2>2. CASE pc' \in {"close", "serve"} /\ netbufs' = netbufs
    BY <1>0, <1>8, <2>2, Netbuf DEF RecvCall, ControlStep, Labels, Sending, NetbufTotal, Held
  <2> QED
    BY <1>8, <2>1, <2>2 DEF RecvCall
<1>9. CASE PendNull \/ RecvTimeout
  BY <1>0, <1>9, Netbuf DEF PendNull, RecvTimeout, ControlStep, Labels, Sending, NetbufTotal, Held
<1> QED
  BY <1>1, <1>2, <1>3, <1>4, <1>5, <1>6, <1>7, <1>8, <1>9
  DEF Next, Tcpip, Thread, Send, Ack

-----------------------------------------------------------------------------
(* Who owns a netconn. *)

NoRepeats == \A i, j \in DOMAIN acceptmbox : acceptmbox[i] = acceptmbox[j] => i = j

Arrivals == acceptmbox' \in Seq(Conns) /\ cur' \in Conns /\ Owned'

LEMMA ConnectOwned ==
    ASSUME ServerInv, NEW c \in Conns, Connect(c)
    PROVE  Arrivals
<1>0. /\ nc \in [Conns -> Netconn] /\ acceptmbox \in Seq(Conns) /\ Owned /\ ~nc[c].used
      /\ acceptmbox' = Append(acceptmbox, c) /\ UNCHANGED <<cur, pc>>
      /\ Len(acceptmbox) \in Nat /\ cur \in Conns
  BY DEF ServerInv, TypeOK, Connect, threadVars
<1>1. nc' = [nc EXCEPT ![c] = [None EXCEPT !.used = TRUE, !.pcb = TRUE, !.mbox = TRUE]]
  BY DEF Connect
<1>2. nc'[c].used /\ nc'[c].pcb /\ \A d \in Conns \ {c} : nc'[d] = nc[d]
  BY <1>0, <1>1 DEF None
<1>3. InUse' = InUse \cup {c} /\ c \notin InUse
  BY <1>0, <1>2 DEF InUse
<1>4. Waiting' = Waiting \cup {c}
  <2>1. Len(acceptmbox') = Len(acceptmbox) + 1
        /\ \A i \in 1 .. Len(acceptmbox) : acceptmbox'[i] = acceptmbox[i]
        /\ acceptmbox'[Len(acceptmbox) + 1] = c
    BY <1>0
  <2>2. DOMAIN acceptmbox' = 1 .. Len(acceptmbox) + 1 /\ DOMAIN acceptmbox = 1 .. Len(acceptmbox)
    BY <1>0, <2>1
  <2> QED
    BY <1>0, <2>1, <2>2 DEF Waiting
<1>5. c \notin Waiting /\ (Serving => c # cur)
  BY <1>0, <1>3 DEF Owned
<1>6. NoRepeats'
  <2>1. Len(acceptmbox') = Len(acceptmbox) + 1
        /\ \A i \in 1 .. Len(acceptmbox) : acceptmbox'[i] = acceptmbox[i] /\ acceptmbox[i] # c
        /\ acceptmbox'[Len(acceptmbox) + 1] = c
    BY <1>0, <1>5 DEF Waiting
  <2>2. DOMAIN acceptmbox' = 1 .. Len(acceptmbox) + 1 /\ DOMAIN acceptmbox = 1 .. Len(acceptmbox)
    BY <1>0, <2>1
  <2> QED
    BY <1>0, <2>1, <2>2 DEF Owned, NoRepeats
<1>7. \A d \in Conns : nc'[d].pcb => nc'[d].used
  BY <1>0, <1>2 DEF Owned
<1>8. pc' = "delete" => ~nc'[cur'].pcb
  BY <1>0, <1>2, <1>5 DEF Owned, Serving
<1> QED
  BY <1>0, <1>3, <1>4, <1>5, <1>6, <1>7, <1>8 DEF Arrivals, Owned, NoRepeats, Serving

LEMMA AcceptOwned ==
    ASSUME ServerInv, Accept
    PROVE  Arrivals
<1>0. /\ acceptmbox \in Seq(Conns) /\ Owned /\ acceptmbox # <<>> /\ nc' = nc
      /\ cur' = Head(acceptmbox) /\ acceptmbox' = Tail(acceptmbox)
      /\ pc = "accept" /\ pc' = "serve" /\ Len(acceptmbox) \in Nat
  BY DEF ServerInv, TypeOK, Accept
<1>1. /\ acceptmbox' \in Seq(Conns) /\ cur' = acceptmbox[1] /\ cur' \in Conns
      /\ Len(acceptmbox') = Len(acceptmbox) - 1
      /\ \A i \in 1 .. Len(acceptmbox) - 1 : acceptmbox'[i] = acceptmbox[i + 1]
  BY <1>0
<1>2. DOMAIN acceptmbox = 1 .. Len(acceptmbox) /\ DOMAIN acceptmbox' = 1 .. Len(acceptmbox) - 1
  BY <1>0, <1>1
<1>3. NoRepeats' /\ \A i \in DOMAIN acceptmbox' : acceptmbox'[i] # cur'
  <2>1. \A i \in DOMAIN acceptmbox' : i + 1 \in DOMAIN acceptmbox /\ i + 1 # 1
    BY <1>0, <1>2
  <2> QED
    BY <1>0, <1>1, <1>2, <2>1 DEF NoRepeats, Owned
<1>4. Waiting = Waiting' \cup {cur'}
  <2>1. \A i \in DOMAIN acceptmbox : i = 1 \/ (i - 1 \in DOMAIN acceptmbox' /\ acceptmbox'[i - 1] = acceptmbox[i])
    BY <1>0, <1>1, <1>2
  <2>2. \A i \in DOMAIN acceptmbox' : i + 1 \in DOMAIN acceptmbox /\ acceptmbox'[i] = acceptmbox[i + 1]
    BY <1>0, <1>1, <1>2
  <2>3. 1 \in DOMAIN acceptmbox
    BY <1>0, <1>2
  <2>4. \A i \in DOMAIN acceptmbox : acceptmbox[i] \in Waiting' \cup {cur'}
    BY <1>1, <2>1 DEF Waiting
  <2>5. \A i \in DOMAIN acceptmbox' : acceptmbox'[i] \in Waiting
    BY <2>2 DEF Waiting
  <2>6. cur' \in Waiting
    BY <1>1, <2>3 DEF Waiting
  <2> QED
    BY <2>4, <2>5, <2>6 DEF Waiting
<1>5. InUse' = InUse /\ InUse = Waiting
  BY <1>0 DEF InUse, Owned, Serving
<1>6. Serving' /\ cur' \notin Waiting'
  BY <1>0, <1>3 DEF Serving, Waiting
<1> QED
  BY <1>0, <1>1, <1>3, <1>4, <1>5, <1>6 DEF Arrivals, Owned, NoRepeats

LEMMA DeleteOwned ==
    ASSUME ServerInv, Delete
    PROVE  Arrivals
<1>0. /\ nc \in [Conns -> Netconn] /\ acceptmbox \in Seq(Conns) /\ Owned /\ cur \in Conns
      /\ nc' = [nc EXCEPT ![cur] = None] /\ UNCHANGED <<acceptmbox, cur>>
      /\ pc = "delete" /\ pc' = "accept"
  BY DEF ServerInv, TypeOK, Delete
<1>1. ~nc'[cur].used /\ ~nc'[cur].pcb /\ \A d \in Conns \ {cur} : nc'[d] = nc[d]
  BY <1>0 DEF None
<1>2. InUse' = InUse \ {cur}
  BY <1>0, <1>1 DEF InUse
<1>3. Waiting' = Waiting /\ Serving /\ ~Serving'
  BY <1>0 DEF Waiting, Serving
<1> QED
  BY <1>0, <1>1, <1>2, <1>3 DEF Arrivals, Owned

\* No other step takes a netconn or gives one back.
LEMMA KeptOwned ==
    ASSUME ServerInv, UNCHANGED <<acceptmbox, cur>>, pc = "accept" <=> pc' = "accept",
           \/ nc' = nc
           \/ \E c \in Conns : \E n \in Netconn : nc' = [nc EXCEPT ![c] = n] /\ Kept(c, n),
           pc' = "delete" => ~nc'[cur].pcb
    PROVE  Arrivals
<1>0. nc \in [Conns -> Netconn] /\ acceptmbox \in Seq(Conns) /\ cur \in Conns /\ Owned
  BY DEF ServerInv, TypeOK
<1>1. \A c \in Conns : (nc'[c].used <=> nc[c].used) /\ (nc'[c].pcb => nc[c].pcb)
  BY <1>0 DEF Kept
<1>2. InUse' = InUse /\ Waiting' = Waiting /\ (Serving' <=> Serving)
  BY <1>1 DEF InUse, Waiting, Serving
<1> QED
  BY <1>0, <1>1, <1>2 DEF Arrivals, Owned

LEMMA RestartOwned ==
    ASSUME ServerInv, Restart
    PROVE  Arrivals
<1>1. acceptmbox' = <<>> /\ cur' = cur /\ cur \in Conns /\ pc' = "accept"
  BY DEF Restart, ServerInv, TypeOK
<1>2. \A c \in Conns : ~nc'[c].used /\ ~nc'[c].pcb
  BY DEF Restart, None
<1>3. InUse' = {} /\ Waiting' = {} /\ ~Serving'
  BY <1>1, <1>2 DEF InUse, Waiting, Serving
<1> QED
  BY <1>1, <1>2, <1>3 DEF Arrivals, Owned

LEMMA OthersKeep ==
    ASSUME Next, ~Accept, ~Delete, ~Restart, ~\E c \in Conns : Connect(c)
    PROVE  UNCHANGED <<acceptmbox, cur>> /\ (pc = "accept" <=> pc' = "accept")
<1>1. UNCHANGED <<acceptmbox, cur>>
  BY DEF Next, Tcpip, Thread, Data, Fin, Stall, Vanish, Rst, Timeout, ErrTcp, WriteDone, CloseDone,
     AcceptTimeout, ServeFrame, ServeIdle, Send, Ack, WriteCall, RecvCall, PendData, PendNull,
     PendTimeout, RecvTimeout, Obey, Close, Watchdog, threadVars, coreVars
<1>2. pc = "accept" <=> pc' = "accept"
  BY DEF Next, Tcpip, Thread, Data, Fin, Stall, Vanish, Rst, Timeout, ErrTcp, WriteDone, CloseDone,
     AcceptTimeout, ServeFrame, ServeIdle, Send, Ack, WriteCall, RecvCall, PendData, PendNull,
     PendTimeout, RecvTimeout, Obey, Close, Watchdog, threadVars, coreVars, Return
<1> QED
  BY <1>1, <1>2

LEMMA OwnedSteps ==
    ASSUME ServerInv, Next
    PROVE  Arrivals
<1>0. /\ nc \in [Conns -> Netconn] /\ cur \in Conns /\ TypeOK
      /\ pc = "delete" => ~nc[cur].pcb
  BY DEF ServerInv, TypeOK, Owned
<1> DEFINE K == \/ nc' = nc
                \/ \E c \in Conns : \E n \in Netconn : nc' = [nc EXCEPT ![c] = n] /\ Kept(c, n)
<1>1. ASSUME NEW c \in Conns, Connect(c) PROVE Arrivals
  BY <1>1, ConnectOwned
<1>2. CASE Accept
  BY <1>2, AcceptOwned
<1>3. CASE Delete
  BY <1>3, DeleteOwned
<1>4. CASE Restart
  BY <1>4, RestartOwned
<1>5. CASE K /\ ~Accept /\ ~Delete /\ ~Restart /\ ~\E c \in Conns : Connect(c)
  <2>1. UNCHANGED <<acceptmbox, cur>>
    BY <1>5, OthersKeep
  <2>2. pc = "accept" <=> pc' = "accept"
    BY <1>5, OthersKeep
  <2>3. pc' = "delete" => ~nc'[cur].pcb
    <3>1. CASE pc = "delete"
      BY <1>0, <1>5, <3>1 DEF Kept
    <3>2. CASE CloseDone
      BY <1>0, <3>2, StoreShape
    <3>3. CASE Close
      BY <1>0, <3>3, DoCloseShape DEF Close
    <3>4. ASSUME NEW c \in Conns, Rst(c) \/ Timeout(c), pc' = "delete", pc # "delete"
          PROVE  ~nc'[cur].pcb
      <4>1. PICK e \in Fatal : ErrTcp(c, e)
        BY <3>4 DEF Rst, Timeout, Fatal
      <4>2. c = cur
        BY <3>4, <4>1 DEF ErrTcp, threadVars
      <4> QED
        BY <1>0, <4>1, <4>2, ErrTcpShape
    <3>5. CASE pc # "delete" /\ ~CloseDone /\ ~Close /\ ~\E c \in Conns : Rst(c) \/ Timeout(c)
      <4>1. pc' # "delete"
        BY <1>5, <3>5 DEF Next, Tcpip, Thread, Data, Fin, Stall, Vanish, WriteDone,
           AcceptTimeout, ServeFrame, ServeIdle, Send, Ack, WriteCall, RecvCall, PendData, PendNull,
           PendTimeout, RecvTimeout, Obey, Watchdog, threadVars, coreVars, Return
      <4> QED
        BY <4>1
    <3> QED
      BY <3>1, <3>2, <3>3, <3>4, <3>5
  <2> QED
    BY <1>5, <2>1, <2>2, <2>3, KeptOwned
<1> QED
  BY <1>1, <1>2, <1>3, <1>4, <1>5, NetconnSteps DEF NetconnStep

-----------------------------------------------------------------------------
(* The order of the commands of one connection, whose netconn is n, its client p. *)

SameCommands(p, q) == q.sent = p.sent /\ q.obeyed = p.obeyed /\ q.dropped = p.dropped

\* Nothing arrives, nothing is taken, but the mailbox may be emptied and given back.
Quiet(n, p, m, q) ==
    /\ SameCommands(p, q)
    /\ m.mbox => n.mbox /\ m.box = n.box
    /\ m.box \in {<<>>, n.box}
    /\ m.mbox = n.mbox \/ m.box = <<>>
    /\ m.pcb => n.pcb
    /\ q.side = "open" => p.side = "open"

\* A command arrives, or is lost.
CommandComes(n, p, m, q) ==
    /\ n.pcb /\ p.side = "open"
    /\ m.mbox => n.mbox
    /\ q.sent = p.sent + 1 /\ q.obeyed = p.obeyed /\ (p.dropped => q.dropped)
    /\ \/ m.box = Append(n.box, p.sent + 1) /\ m.mbox
       \/ m.box = n.box /\ m.mbox = n.mbox /\ q.dropped

\* The NULL message arrives, and no command after it.
EndComes(n, p, m, q) ==
    /\ SameCommands(p, q)
    /\ m.mbox /\ n.mbox
    /\ m.box = Append(n.box, NULL)
    /\ ~m.pcb \/ q.side = "fin"

\* The oldest message is taken, and obeyed if it is a command.
MessageTaken(n, p, m, q) ==
    /\ n.box # <<>> /\ m.box = Tail(n.box)
    /\ m.mbox = n.mbox
    /\ m.pcb => n.pcb
    /\ q.sent = p.sent /\ q.dropped = p.dropped /\ q.side = p.side
    /\ q.obeyed = IF Head(n.box) = NULL THEN p.obeyed ELSE Head(n.box)

\* A message put at the end of a mailbox, and one taken from its front.
LEMMA AppendAt ==
    ASSUME NEW s \in Seq(Nat), NEW x \in Nat
    PROVE  /\ Len(s) \in Nat /\ Len(Append(s, x)) = Len(s) + 1 /\ Append(s, x)[Len(s) + 1] = x
           /\ \A i \in 1 .. Len(s) : Append(s, x)[i] = s[i] /\ s[i] \in Nat
           /\ \A i \in 1 .. Len(s) + 1 : i \in 1 .. Len(s) \/ i = Len(s) + 1
OBVIOUS

LEMMA TailAt ==
    ASSUME NEW s \in Seq(Nat), s # <<>>
    PROVE  /\ Len(s) \in Nat \ {0} /\ 1 \in 1 .. Len(s) /\ Head(s) = s[1] /\ s[1] \in Nat
           /\ Len(Tail(s)) = Len(s) - 1
           /\ \A i \in 1 .. Len(Tail(s)) : /\ i \in Nat \ {0} /\ i + 1 \in 1 .. Len(s) /\ 1 < i + 1
                                           /\ Tail(s)[i] = s[i + 1] /\ s[i + 1] \in Nat
<1>1. /\ Len(s) \in Nat \ {0} /\ Head(s) = s[1] /\ Len(Tail(s)) = Len(s) - 1
      /\ \A i \in 1 .. Len(s) : s[i] \in Nat
  OBVIOUS
<1>2. \A i \in 1 .. Len(s) - 1 : Tail(s)[i] = s[i + 1]
  OBVIOUS
<1>3. 1 \in 1 .. Len(s)
  BY <1>1
<1>4. \A k \in Nat : \A i \in 1 .. k - 1 : i \in Nat \ {0} /\ i + 1 \in 1 .. k /\ 1 < i + 1
  OBVIOUS
<1> QED
  BY <1>1, <1>2, <1>3, <1>4

LEMMA OrderKept ==
    ASSUME NEW n \in Netconn, NEW p \in Peer, OrderAt(n, p),
           NEW m \in Netconn, NEW q \in Peer, Quiet(n, p, m, q)
    PROVE  OrderAt(m, q)
BY DEF OrderAt, Quiet, SameCommands

LEMMA OrderData ==
    ASSUME NEW n \in Netconn, NEW p \in Peer, OrderAt(n, p),
           NEW m \in Netconn, NEW q \in Peer, CommandComes(n, p, m, q)
    PROVE  OrderAt(m, q)
<1> SUFFICES ASSUME m.mbox, ~q.dropped PROVE OrderAt(m, q)
  BY DEF OrderAt
<1>0. /\ n.pcb /\ p.side = "open" /\ n.mbox
      /\ q.sent = p.sent + 1 /\ q.obeyed = p.obeyed /\ ~p.dropped /\ m.box = Append(n.box, p.sent + 1)
  BY DEF CommandComes
<1>1. /\ n.box \in Seq(Nat) /\ p.sent \in Nat /\ p.obeyed \in Nat /\ Len(n.box) \in Nat
      /\ Len(n.box) = p.sent - p.obeyed /\ m.box = Append(n.box, p.sent + 1)
      /\ \A i \in 1 .. Len(n.box) : n.box[i] = p.obeyed + i
  BY <1>0 DEF OrderAt, Netconn, Peer
<1>2. /\ Len(m.box) = Len(n.box) + 1 /\ m.box[Len(n.box) + 1] = p.sent + 1
      /\ \A i \in 1 .. Len(n.box) : m.box[i] = n.box[i]
  BY <1>1
<1>3. q.sent - q.obeyed = Len(n.box) + 1
  BY <1>0, <1>1
<1>4. ASSUME NEW i \in 1 .. Len(n.box) + 1 PROVE m.box[i] = q.obeyed + i
  <2>1. CASE i = Len(n.box) + 1
    BY <1>0, <1>1, <1>2, <2>1
  <2>2. CASE i # Len(n.box) + 1
    BY <1>0, <1>1, <1>2, <2>2
  <2> QED
    BY <2>1, <2>2
<1>5. Len(m.box) = q.sent - q.obeyed /\ q.sent - q.obeyed \in 0 .. Len(m.box)
  BY <1>1, <1>2, <1>3
<1>6. \A i \in 1 .. Len(m.box) : i <= q.sent - q.obeyed /\ m.box[i] = q.obeyed + i
  BY ONLY <1>1, <1>2, <1>3, <1>4
<1> QED
  BY ONLY <1>5, <1>6 DEF OrderAt

LEMMA OrderNull ==
    ASSUME NEW n \in Netconn, NEW p \in Peer, OrderAt(n, p),
           NEW m \in Netconn, NEW q \in Peer, EndComes(n, p, m, q)
    PROVE  OrderAt(m, q)
<1> SUFFICES ASSUME n.mbox, ~p.dropped PROVE OrderAt(m, q)
  BY DEF OrderAt, EndComes, SameCommands
<1>0. /\ m.box = Append(n.box, NULL) /\ (~m.pcb \/ q.side = "fin")
      /\ q.sent = p.sent /\ q.obeyed = p.obeyed
  BY DEF EndComes, SameCommands
<1>1. /\ n.box \in Seq(Nat) /\ p.sent \in Nat /\ p.obeyed \in Nat /\ Len(n.box) \in Nat
      /\ p.sent - p.obeyed \in 0 .. Len(n.box)
      /\ \A i \in 1 .. Len(n.box) : n.box[i] = IF i <= p.sent - p.obeyed THEN p.obeyed + i ELSE NULL
  BY DEF OrderAt, Netconn, Peer
<1>2. /\ Len(m.box) = Len(n.box) + 1 /\ m.box[Len(n.box) + 1] = NULL
      /\ \A i \in 1 .. Len(n.box) : m.box[i] = n.box[i]
      /\ \A i \in 1 .. Len(n.box) + 1 : i \in 1 .. Len(n.box) \/ i = Len(n.box) + 1
  BY <1>0, <1>1, AppendAt DEF NULL
<1>3. ASSUME NEW i \in 1 .. Len(n.box) + 1
      PROVE  m.box[i] = IF i <= p.sent - p.obeyed THEN p.obeyed + i ELSE NULL
  <2>1. CASE i = Len(n.box) + 1
    <3>1. \A k \in Nat : \A d \in 0 .. k : ~(k + 1 <= d)
      OBVIOUS
    <3> QED
      BY <1>1, <1>2, <2>1, <3>1
  <2>2. CASE i \in 1 .. Len(n.box)
    BY <1>1, <1>2, <2>2, Zenon
  <2> QED
    BY <1>2, <2>1, <2>2
<1>4. q.sent - q.obeyed \in 0 .. Len(m.box)
  <2>1. \A k \in Nat : \A d \in 0 .. k : d \in 0 .. k + 1
    OBVIOUS
  <2> QED
    BY <1>0, <1>1, <1>2, <2>1
<1> QED
  BY <1>0, <1>2, <1>3, <1>4 DEF OrderAt

LEMMA OrderTaken ==
    ASSUME NEW n \in Netconn, NEW p \in Peer, OrderAt(n, p),
           NEW m \in Netconn, NEW q \in Peer, MessageTaken(n, p, m, q)
    PROVE  OrderAt(m, q)
<1> SUFFICES ASSUME m.mbox, ~q.dropped PROVE OrderAt(m, q)
  BY DEF OrderAt
<1> USE DEF MessageTaken
<1> DEFINE due == p.sent - p.obeyed
<1>1. /\ n.box \in Seq(Nat) /\ p.sent \in Nat /\ p.obeyed \in Nat /\ Len(n.box) \in Nat \ {0}
      /\ due \in 0 .. Len(n.box)
      /\ \A i \in 1 .. Len(n.box) : n.box[i] = IF i <= due THEN p.obeyed + i ELSE NULL
      /\ n.pcb /\ p.side = "open" => Len(n.box) = due
  BY DEF OrderAt, Netconn, Peer
<1>2. /\ Len(m.box) = Len(n.box) - 1 /\ n.box # <<>>
      /\ \A i \in 1 .. Len(m.box) : /\ i \in Nat \ {0} /\ i + 1 \in 1 .. Len(n.box)
                                    /\ m.box[i] = n.box[i + 1]
  BY <1>1, TailAt
<1>3. Head(n.box) = IF 1 <= due THEN p.obeyed + 1 ELSE NULL
  BY <1>1
<1>4. CASE due = 0
  <2>1. q.obeyed = p.obeyed
    BY <1>3, <1>4
  <2>2. \A i \in 1 .. Len(m.box) : m.box[i] = NULL
    <3>1. \A i \in Nat \ {0} : ~(i + 1 <= 0)
      OBVIOUS
    <3> QED
      BY <1>1, <1>2, <1>4, <3>1
  <2>3. \A i \in 1 .. Len(m.box) : ~(i <= 0)
    BY <1>2
  <2>4. q.sent - q.obeyed = 0 /\ 0 \in 0 .. Len(m.box)
    BY <1>1, <1>2, <1>4, <2>1
  <2> QED
    BY <1>1, <1>2, <1>4, <2>1, <2>2, <2>3, <2>4 DEF OrderAt
<1>5. CASE due # 0
  <2>1. q.obeyed = p.obeyed + 1
    BY <1>1, <1>3, <1>5 DEF NULL
  <2>2. \A i \in 1 .. Len(m.box) : m.box[i] = IF i <= due - 1 THEN q.obeyed + i ELSE NULL
    <3> TAKE i \in 1 .. Len(m.box)
    <3>1. i \in Nat /\ i + 1 \in 1 .. Len(n.box) /\ m.box[i] = n.box[i + 1]
      BY <1>2
    <3>2. n.box[i + 1] = IF i + 1 <= due THEN p.obeyed + (i + 1) ELSE NULL
      BY <1>1, <3>1
    <3>3. i + 1 <= due <=> i <= due - 1
      <4>1. \A a, d \in Int : a + 1 <= d <=> a <= d - 1
        OBVIOUS
      <4>2. i \in Int /\ due \in Int
        BY <1>1, <3>1
      <4> QED
        BY <4>1, <4>2
    <3>4. p.obeyed + (i + 1) = q.obeyed + i
      <4>1. \A a, b \in Int : a + (b + 1) = (a + 1) + b
        OBVIOUS
      <4>2. p.obeyed \in Int /\ i \in Int
        BY <1>1, <3>1
      <4> QED
        BY <2>1, <4>1, <4>2
    <3> QED
      BY <3>1, <3>2, <3>3, <3>4
  <2>3. q.sent - q.obeyed = due - 1
    <3>1. \A a, b \in Int : a - (b + 1) = (a - b) - 1
      OBVIOUS
    <3>2. q.sent = p.sent /\ p.sent \in Int /\ p.obeyed \in Int
      BY <1>1
    <3>3. p.sent - (p.obeyed + 1) = (p.sent - p.obeyed) - 1
      BY <3>1, <3>2
    <3> QED
      BY <2>1, <3>2, <3>3, Zenon
  <2>4. due - 1 \in 0 .. Len(m.box)
    BY <1>1, <1>2, <1>5
  <2> QED
    BY <1>1, <1>2, <1>5, <2>2, <2>3, <2>4 DEF OrderAt
<1> QED
  BY <1>4, <1>5

LEMMA RisingKept ==
    ASSUME NEW n \in Netconn, NEW p \in Peer, RisingAt(n, p),
           NEW m \in Netconn, NEW q \in Peer, Quiet(n, p, m, q)
    PROVE  RisingAt(m, q)
<1>1. q.sent = p.sent /\ q.obeyed = p.obeyed /\ (m.mbox = n.mbox \/ m.box = <<>>)
  BY DEF Quiet, SameCommands
<1>2. CASE m.box = n.box
  BY <1>1, <1>2 DEF RisingAt
<1>3. CASE m.box = <<>>
  BY <1>1, <1>3 DEF RisingAt
<1> QED
  BY <1>2, <1>3 DEF Quiet

\* A message x is put at the end: NULL, or a command sent after all the others.
LEMMA RisingAppend ==
    ASSUME NEW n \in Netconn, NEW p \in Peer, RisingAt(n, p),
           NEW m \in Netconn, NEW q \in Peer, NEW x \in Nat,
           m.mbox, m.box = Append(n.box, x), q.obeyed = p.obeyed,
           \/ x = NULL /\ q.sent = p.sent
           \/ x = p.sent + 1 /\ q.sent = p.sent + 1
    PROVE  RisingAt(m, q)
<1>1. /\ n.box \in Seq(Nat) /\ p.sent \in Nat /\ p.obeyed \in Nat /\ Len(n.box) \in Nat
      /\ Len(m.box) = Len(n.box) + 1 /\ m.box[Len(n.box) + 1] = x
      /\ \A i \in 1 .. Len(n.box) : m.box[i] = n.box[i] /\ n.box[i] \in Nat
      /\ \A i \in 1 .. Len(m.box) : i \in 1 .. Len(n.box) \/ i = Len(n.box) + 1
  BY AppendAt DEF Netconn, Peer
<1>2. p.obeyed <= p.sent /\ p.sent <= q.sent /\ q.obeyed <= q.sent
  BY <1>1 DEF RisingAt
<1>3. ASSUME NEW i \in 1 .. Len(m.box), m.box[i] # NULL
      PROVE  q.obeyed < m.box[i] /\ m.box[i] <= q.sent
  <2>1. CASE i \in 1 .. Len(n.box)
    BY <1>1, <1>2, <1>3, <2>1 DEF RisingAt
  <2>2. CASE i = Len(n.box) + 1
    BY <1>1, <1>2, <1>3, <2>2
  <2> QED
    BY <1>1, <2>1, <2>2
<1>4. ASSUME NEW i \in 1 .. Len(m.box), NEW j \in 1 .. Len(m.box),
             i < j, m.box[i] # NULL, m.box[j] # NULL
      PROVE  m.box[i] < m.box[j]
  <2>1. i \in 1 .. Len(n.box)
    <3>1. \A k \in Nat : \A a, b \in 1 .. k + 1 : a < b => a \in 1 .. k
      OBVIOUS
    <3> QED
      BY <1>1, <1>4, <3>1
  <2>2. m.box[i] = n.box[i] /\ m.box[i] <= p.sent /\ m.box[i] \in Nat
    BY <1>1, <1>4, <2>1 DEF RisingAt
  <2>3. CASE j \in 1 .. Len(n.box)
    <3>1. m.box[j] = n.box[j]
      BY <1>1, <2>3
    <3> QED
      BY <1>4, <2>1, <2>2, <2>3, <3>1 DEF RisingAt
  <2>4. CASE j = Len(n.box) + 1
    <3>1. m.box[j] = p.sent + 1
      BY <1>1, <1>4, <2>4
    <3>2. \A a, b \in Nat : a <= b => a < b + 1
      OBVIOUS
    <3> QED
      BY <1>1, <2>2, <3>1, <3>2
  <2> QED
    BY <1>1, <2>3, <2>4, Zenon
<1> QED
  BY <1>2, <1>3, <1>4 DEF RisingAt

LEMMA RisingTaken ==
    ASSUME NEW n \in Netconn, NEW p \in Peer, RisingAt(n, p),
           NEW m \in Netconn, NEW q \in Peer, MessageTaken(n, p, m, q)
    PROVE  /\ RisingAt(m, q)
           /\ Head(n.box) # NULL => p.obeyed < Head(n.box) /\ Head(n.box) <= p.sent
<1>1. /\ n.box \in Seq(Nat) /\ n.box # <<>> /\ p.sent \in Nat /\ p.obeyed \in Nat
      /\ m.box = Tail(n.box) /\ q.sent = p.sent
      /\ q.obeyed = IF Head(n.box) = NULL THEN p.obeyed ELSE Head(n.box)
  BY DEF MessageTaken, Netconn, Peer
<1>2. /\ Len(n.box) \in Nat /\ 1 \in 1 .. Len(n.box) /\ Head(n.box) = n.box[1] /\ n.box[1] \in Nat
      /\ \A i \in 1 .. Len(m.box) : /\ i \in Nat /\ i + 1 \in 1 .. Len(n.box) /\ 1 < i + 1
                                    /\ m.box[i] = n.box[i + 1] /\ n.box[i + 1] \in Nat
  BY <1>1, TailAt
<1>3. Head(n.box) # NULL => p.obeyed < Head(n.box) /\ Head(n.box) <= p.sent
  BY <1>2 DEF RisingAt
<1>4. q.obeyed <= q.sent /\ m.mbox
  <2>1. m.mbox
    BY <1>1 DEF RisingAt, MessageTaken
  <2> QED
    BY <1>1, <1>2, <1>3, <2>1 DEF RisingAt
<1>5. ASSUME NEW i \in 1 .. Len(m.box), m.box[i] # NULL
      PROVE  q.obeyed < m.box[i] /\ m.box[i] <= q.sent
  <2>1. i + 1 \in 1 .. Len(n.box) /\ 1 < i + 1 /\ m.box[i] = n.box[i + 1]
    BY <1>2
  <2>2. p.obeyed < n.box[i + 1] /\ n.box[i + 1] <= p.sent
    BY <1>5, <2>1 DEF RisingAt
  <2>3. n.box[1] # NULL => n.box[1] < n.box[i + 1]
    BY <1>2, <1>5, <2>1 DEF RisingAt
  <2> QED
    BY <1>1, <1>2, <2>1, <2>2, <2>3
<1>6. ASSUME NEW i \in 1 .. Len(m.box), NEW j \in 1 .. Len(m.box),
             i < j, m.box[i] # NULL, m.box[j] # NULL
      PROVE  m.box[i] < m.box[j]
  <2>1. /\ i + 1 \in 1 .. Len(n.box) /\ j + 1 \in 1 .. Len(n.box) /\ i \in Nat /\ j \in Nat
        /\ m.box[i] = n.box[i + 1] /\ m.box[j] = n.box[j + 1]
    BY <1>2, Zenon
  <2>2. i + 1 < j + 1
    BY <1>6, <2>1
  <2> QED
    BY <1>6, <2>1, <2>2 DEF RisingAt
<1> QED
  BY <1>3, <1>4, <1>5, <1>6 DEF RisingAt

\* What a client or the TCP core does to a connection c, and what the thread does to cur.
Outside(n, p, m, q) == Quiet(n, p, m, q) \/ CommandComes(n, p, m, q) \/ EndComes(n, p, m, q)

Becomes(c, m, q) == nc' = [nc EXCEPT ![c] = m] /\ peer' = [peer EXCEPT ![c] = q]

ByClient(c) ==
    \E m \in Netconn, q \in Peer : Becomes(c, m, q) /\ Outside(nc[c], peer[c], m, q)

ByThread ==
    \E m \in Netconn, q \in Peer :
        /\ Becomes(cur, m, q)
        /\ \/ Quiet(nc[cur], peer[cur], m, q)
           \/ pc = "pend" /\ MessageTaken(nc[cur], peer[cur], m, q)

LEMMA FormsKeep ==
    ASSUME NEW n \in Netconn, NEW p \in Peer, OrderAt(n, p), RisingAt(n, p),
           NEW m \in Netconn, NEW q \in Peer, Outside(n, p, m, q) \/ MessageTaken(n, p, m, q)
    PROVE  OrderAt(m, q) /\ RisingAt(m, q)
<1>1. CASE Quiet(n, p, m, q)
  BY <1>1, OrderKept, RisingKept
<1>2. CASE CommandComes(n, p, m, q)
  <2>1. p.sent \in Nat /\ p.obeyed \in Nat /\ q.sent = p.sent + 1 /\ q.obeyed = p.obeyed
    BY <1>2 DEF CommandComes, Peer
  <2>2. ASSUME m.box = Append(n.box, p.sent + 1), m.mbox PROVE RisingAt(m, q)
    <3>1. p.sent + 1 \in Nat
      BY <2>1
    <3> QED
      BY <2>1, <2>2, <3>1, RisingAppend
  <2>3. ASSUME m.box = n.box, m.mbox = n.mbox PROVE RisingAt(m, q)
    <3>1. \A i \in 1 .. Len(n.box) : n.box[i] \in Nat
      BY DEF Netconn
    <3> QED
      BY <2>1, <2>3, <3>1 DEF RisingAt
  <2> QED
    BY <1>2, <2>2, <2>3, OrderData DEF CommandComes
<1>3. CASE EndComes(n, p, m, q)
  <2>1. /\ m.mbox /\ m.box = Append(n.box, NULL) /\ q.sent = p.sent /\ q.obeyed = p.obeyed
        /\ NULL \in Nat
    BY <1>3 DEF EndComes, SameCommands, NULL
  <2> QED
    BY <1>3, <2>1, OrderNull, RisingAppend
<1>4. CASE MessageTaken(n, p, m, q)
  BY <1>4, OrderTaken, RisingTaken
<1> QED
  BY <1>1, <1>2, <1>3, <1>4 DEF Outside

\* A step leaves each client typed and in order with its netconn.
ClientsStep == peer' \in [Conns -> Peer] /\ InOrder' /\ Rising'

\* One connection c changes, both sides of it or one.
LEMMA OneClient ==
    ASSUME ServerInv, NEW c \in Conns, NEW m \in Netconn, NEW q \in Peer,
           Becomes(c, m, q), OrderAt(m, q), RisingAt(m, q)
    PROVE  ClientsStep
<1>1. nc \in [Conns -> Netconn] /\ peer \in [Conns -> Peer] /\ InOrder /\ Rising
  BY DEF ServerInv, TypeOK
<1>2. \A d \in Conns : nc'[d] = (IF d = c THEN m ELSE nc[d]) /\ peer'[d] = (IF d = c THEN q ELSE peer[d])
  BY <1>1 DEF Becomes
<1>3. \A d \in Conns : OrderAt(nc'[d], peer'[d]) /\ RisingAt(nc'[d], peer'[d])
  BY <1>1, <1>2 DEF InOrder, Rising
<1>4. peer' \in [Conns -> Peer]
  BY <1>1 DEF Becomes
<1> QED
  BY <1>3, <1>4 DEF ClientsStep, InOrder, Rising

LEMMA ClientSteps ==
    ASSUME ServerInv, NEW c \in Conns, Data(c) \/ Fin(c) \/ Stall(c) \/ Vanish(c) \/ Rst(c) \/ Timeout(c)
    PROVE  ByClient(c)
<1> DEFINE n == nc[c]  p == peer[c]
<1>0. /\ TypeOK /\ nc \in [Conns -> Netconn] /\ peer \in [Conns -> Peer] /\ n \in Netconn /\ p \in Peer
      /\ NULL \in Nat /\ p.sent + 1 \in Nat
  BY DEF ServerInv, TypeOK, Peer, NULL
<1>1. CASE Data(c)
  <2>1. PICK m \in Netconn :
           /\ nc' = [nc EXCEPT ![c] = m] /\ m.mbox = n.mbox
           /\ m.box = IF Valid(c) THEN Append(n.box, p.sent + 1) ELSE n.box
    BY <1>0, <1>1, PostShape DEF Data
  <2> DEFINE q == [p EXCEPT !.sent = p.sent + 1, !.dropped = p.dropped \/ ~Valid(c)]
  <2>2. /\ q \in Peer /\ q.sent = p.sent + 1 /\ q.obeyed = p.obeyed
        /\ (p.dropped => q.dropped) /\ (~Valid(c) => q.dropped)
    BY <1>0 DEF Peer
  <2>3. peer' = [peer EXCEPT ![c] = q]
    BY <1>0, <1>1 DEF Data
  <2>4. n.pcb /\ p.side = "open"
    BY <1>1 DEF Data, Listens
  <2> HIDE DEF q
  <2>5. CommandComes(n, p, m, q)
    BY <2>1, <2>2, <2>4 DEF CommandComes, Valid
  <2> QED
    BY <2>1, <2>2, <2>3, <2>5 DEF ByClient, Becomes, Outside
<1>2. CASE Fin(c)
  <2>1. PICK m \in Netconn :
           /\ nc' = [nc EXCEPT ![c] = m] /\ m.mbox = n.mbox /\ m.pcb = n.pcb
           /\ m.box = IF Valid(c) THEN Append(n.box, NULL) ELSE n.box
    BY <1>0, <1>2, PostShape DEF Fin
  <2> DEFINE q == [p EXCEPT !.side = "fin", !.unheard = ~Valid(c)]
  <2>2. q \in Peer /\ SameCommands(p, q) /\ q.side = "fin"
    BY <1>0 DEF Peer, Sides, SameCommands
  <2>3. peer' = [peer EXCEPT ![c] = q]
    BY <1>0, <1>2 DEF Fin
  <2> HIDE DEF q
  <2>4. Outside(n, p, m, q)
    BY <2>1, <2>2 DEF Outside, EndComes, Quiet, Valid
  <2> QED
    BY <2>1, <2>2, <2>3, <2>4 DEF ByClient, Becomes
<1>3. CASE Vanish(c)
  <2>1. PICK side \in {"gone", "owed"} : peer' = [peer EXCEPT ![c].side = side] /\ nc' = nc
    BY <1>3 DEF Vanish
  <2> DEFINE q == [p EXCEPT !.side = side]
  <2>2. q \in Peer /\ SameCommands(p, q) /\ q.side = side
    BY <1>0 DEF Peer, Sides, SameCommands
  <2>3. peer' = [peer EXCEPT ![c] = q] /\ nc' = [nc EXCEPT ![c] = n]
    BY <1>0, <2>1
  <2> HIDE DEF q
  <2>4. Quiet(n, p, n, q)
    BY <2>1, <2>2 DEF Quiet
  <2> QED
    BY <1>0, <2>2, <2>3, <2>4 DEF ByClient, Becomes, Outside
<1>4. CASE Rst(c) \/ Timeout(c)
  <2>1. PICK e \in Fatal : ErrTcp(c, e)
    BY <1>4 DEF Rst, Timeout, Fatal
  <2>2. PICK m \in Netconn :
           /\ nc' = [nc EXCEPT ![c] = m] /\ m.mbox = n.mbox /\ ~m.pcb
           /\ m.box = IF Valid(c) THEN Append(n.box, NULL) ELSE n.box
    BY <1>0, <2>1, ErrTcpShape
  <2> DEFINE q == [p EXCEPT !.side = "gone", !.shut = FALSE]
  <2>3. q \in Peer /\ SameCommands(p, q) /\ q.side = "gone"
    BY <1>0 DEF Peer, Sides, SameCommands
  <2>4. peer' = [peer EXCEPT ![c] = q]
    <3>1. CASE Rst(c)
      BY <1>0, <3>1 DEF Rst
    <3>2. CASE Timeout(c)
      <4>1. peer' = [peer EXCEPT ![c] = [p EXCEPT !.side = "gone"]] /\ p.shut = FALSE
        BY <1>0, <3>2 DEF Timeout, Peer
      <4>2. [p EXCEPT !.side = "gone"] = q
        BY <1>0, <4>1 DEF Peer
      <4> QED
        BY <4>1, <4>2
    <3> QED
      BY <1>4, <3>1, <3>2
  <2> HIDE DEF q
  <2>5. Outside(n, p, m, q)
    BY <2>2, <2>3 DEF Outside, EndComes, Quiet, Valid
  <2> QED
    BY <2>2, <2>3, <2>4, <2>5 DEF ByClient, Becomes
<1>5. CASE Stall(c)
  <2> DEFINE q == [p EXCEPT !.shut = TRUE]
  <2>1. q \in Peer /\ SameCommands(p, q) /\ q.side = p.side
    BY <1>0 DEF Peer, SameCommands
  <2>2. peer' = [peer EXCEPT ![c] = q] /\ nc' = [nc EXCEPT ![c] = n]
    BY <1>0, <1>5 DEF Stall
  <2> HIDE DEF q
  <2>3. Quiet(n, p, n, q)
    BY <2>1 DEF Quiet
  <2> QED
    BY <1>0, <2>1, <2>2, <2>3 DEF ByClient, Becomes, Outside
<1> QED
  BY <1>1, <1>2, <1>3, <1>4, <1>5

LEMMA ThreadSteps ==
    ASSUME ServerInv, WriteDone \/ CloseDone \/ Thread \/ Watchdog
    PROVE  ByThread \/ Restart \/ Delete
<1> DEFINE n == nc[cur]  p == peer[cur]
<1>0. /\ TypeOK /\ nc \in [Conns -> Netconn] /\ peer \in [Conns -> Peer] /\ n \in Netconn /\ p \in Peer
      /\ cur \in Conns
  BY DEF ServerInv, TypeOK
<1>1. CASE PendData \/ PendNull
  <2>1. PICK m \in Netconn :
           /\ nc' = [nc EXCEPT ![cur] = m] /\ m.pcb = n.pcb /\ m.mbox = n.mbox
           /\ m.box = Tail(n.box) /\ n.box # <<>>
    BY <1>0, <1>1, PendShape
  <2> DEFINE o == IF Head(n.box) = NULL THEN p.obeyed ELSE Head(n.box)
             q == [p EXCEPT !.obeyed = o]
  <2>2. o \in Nat
    BY <1>0, <2>1 DEF Netconn, Peer
  <2>3. peer' = [peer EXCEPT ![cur] = q]
    <3>1. CASE PendData
      BY <1>0, <3>1 DEF PendData
    <3>2. CASE PendNull
      <4>1. o = p.obeyed /\ peer' = peer
        BY <3>2 DEF PendNull, coreVars
      <4> QED
        BY <1>0, <4>1 DEF Peer
    <3> QED
      BY <1>1, <3>1, <3>2
  <2> HIDE DEF o
  <2>4. /\ q \in Peer /\ q.sent = p.sent /\ q.obeyed = o /\ q.dropped = p.dropped /\ q.side = p.side
    BY <1>0, <2>2 DEF Peer
  <2> HIDE DEF q
  <2>5. MessageTaken(n, p, m, q) /\ pc = "pend"
    BY <1>1, <2>1, <2>4 DEF MessageTaken, o, PendData, PendNull
  <2> QED
    BY <2>1, <2>3, <2>4, <2>5 DEF ByThread, Becomes
<1>2. ASSUME NEW m \in Netconn, nc' = [nc EXCEPT ![cur] = m], peer' = peer,
             m.mbox => n.mbox /\ m.box = n.box, m.box \in {<<>>, n.box}, m.pcb => n.pcb,
             m.mbox = n.mbox \/ m.box = <<>>
      PROVE  ByThread
  <2>1. peer' = [peer EXCEPT ![cur] = p] /\ Quiet(n, p, m, p)
    BY <1>0, <1>2 DEF Quiet, SameCommands
  <2> QED
    BY <1>0, <1>2, <2>1 DEF ByThread, Becomes
<1>3. CASE RecvTimeout \/ CloseDone
  <2>1. peer' = peer
    BY <1>3 DEF RecvTimeout, CloseDone, coreVars
  <2> QED
    BY <1>0, <1>2, <1>3, <2>1, StoreShape
<1>4. CASE Close /\ n.pcb
  <2>1. PICK b \in BOOLEAN : DoClose(b)
    BY <1>4 DEF Close
  <2>2. peer' = peer
    BY <1>4 DEF Close, coreVars
  <2> QED
    BY <1>0, <1>2, <1>4, <2>1, <2>2, DoCloseShape
<1>5. CASE Send \/ Ack
  <2>1. nc' = [nc EXCEPT ![cur] = n]
    BY <1>0, <1>5 DEF Send, Ack, WriteCall
  <2>2. PICK side : /\ side = p.side \/ side = "owed"
                    /\ peer' = [peer EXCEPT ![cur].side = side]
    BY <1>0, <1>5 DEF Send, Ack, WriteCall, Peer
  <2> DEFINE q == [p EXCEPT !.side = side]
  <2>3. q \in Peer /\ SameCommands(p, q) /\ q.side = side
    BY <1>0, <2>2 DEF Peer, Sides, SameCommands
  <2>4. peer' = [peer EXCEPT ![cur] = q]
    BY <1>0, <2>2
  <2> HIDE DEF q
  <2>5. Quiet(n, p, n, q)
    BY <2>2, <2>3 DEF Quiet
  <2> QED
    BY <1>0, <2>1, <2>3, <2>4, <2>5 DEF ByThread, Becomes
<1>6. CASE nc' = nc /\ peer' = peer
  <2>1. nc' = [nc EXCEPT ![cur] = n]
    BY <1>0, <1>6
  <2> QED
    BY <1>0, <1>2, <1>6, <2>1
<1>7. \/ Restart \/ Delete \/ PendData \/ PendNull \/ RecvTimeout \/ CloseDone \/ (Close /\ n.pcb)
      \/ Send \/ Ack \/ (nc' = nc /\ peer' = peer)
  BY DEF Thread, Watchdog, WriteDone, Accept, AcceptTimeout, ServeFrame, ServeIdle, RecvCall,
     PendTimeout, Obey, Close, coreVars
<1> QED
  BY <1>1, <1>3, <1>4, <1>5, <1>6, <1>7

\* The netconn and the client of a new connection; a connection that is no more.
LEMMA NewConnection ==
    ASSUME NEW c \in Conns, Connect(c)
    PROVE  \E m \in Netconn, q \in Peer :
              /\ Becomes(c, m, q) /\ m.used /\ SameCommands(NoPeer, q)
              /\ OrderAt(m, q) /\ RisingAt(m, q)
<1> DEFINE m == [None EXCEPT !.used = TRUE, !.pcb = TRUE, !.mbox = TRUE]
           q == [NoPeer EXCEPT !.side = "open"]
<1>1. m \in Netconn /\ m.box = <<>> /\ m.used
  BY Records DEF None, Netconn
<1>2. q \in Peer /\ q.sent = 0 /\ q.obeyed = 0 /\ SameCommands(NoPeer, q)
  BY Records DEF NoPeer, Peer, Sides, SameCommands
<1>3. nc' = [nc EXCEPT ![c] = m] /\ peer' = [peer EXCEPT ![c] = q]
  BY DEF Connect
<1> HIDE DEF m, q
<1>4. OrderAt(m, q) /\ RisingAt(m, q)
  BY <1>1, <1>2 DEF OrderAt, RisingAt
<1> QED
  BY <1>1, <1>2, <1>3, <1>4 DEF Becomes

LEMMA NoConnection == OrderAt(None, NoPeer) /\ RisingAt(None, NoPeer)
BY DEF None, NoPeer, OrderAt, RisingAt

LEMMA ClientsSteps ==
    ASSUME ServerInv, Next
    PROVE  ClientsStep
<1>0. /\ nc \in [Conns -> Netconn] /\ peer \in [Conns -> Peer] /\ cur \in Conns
      /\ \A c \in Conns : OrderAt(nc[c], peer[c]) /\ RisingAt(nc[c], peer[c])
  BY DEF ServerInv, TypeOK, InOrder, Rising
<1>1. ASSUME NEW c \in Conns, ByClient(c) PROVE ClientsStep
  BY <1>0, <1>1, FormsKeep, OneClient DEF ByClient
<1>2. CASE ByThread
  BY <1>0, <1>2, FormsKeep, OneClient DEF ByThread, Outside
<1>3. CASE Restart
  BY <1>3, NoConnection, Records DEF Restart, ClientsStep, InOrder, Rising
<1>4. CASE Delete
  BY <1>0, <1>4, NoConnection, Records, OneClient DEF Delete, Becomes
<1>5. ASSUME NEW c \in Conns, Connect(c) PROVE ClientsStep
  BY <1>5, NewConnection, OneClient
<1> QED
  BY <1>1, <1>2, <1>3, <1>4, <1>5, ClientSteps, ThreadSteps DEF Next, Tcpip

LEMMA VacantSteps ==
    ASSUME ServerInv, Next
    PROVE  Vacant'
<1>0. /\ nc \in [Conns -> Netconn] /\ peer \in [Conns -> Peer] /\ cur \in Conns /\ Vacant
      /\ \A c \in Conns : nc[c].pcb => nc[c].used
  BY DEF ServerInv, TypeOK, Owned
<1>1. CASE Restart
  BY <1>1 DEF Restart, Vacant
<1>2. CASE Delete
  BY <1>0, <1>2 DEF Delete, Vacant
<1>3. ASSUME NEW c \in Conns, Connect(c) PROVE Vacant'
  <2>1. PICK m \in Netconn, q \in Peer : Becomes(c, m, q) /\ m.used
    BY <1>3, NewConnection
  <2> QED
    BY <1>0, <2>1 DEF Becomes, Vacant
<1>4. CASE \/ nc' = nc
           \/ \E c \in Conns : \E n \in Netconn : nc' = [nc EXCEPT ![c] = n] /\ Kept(c, n)
  <2>1. \A d \in Conns : ~nc'[d].used => ~nc[d].used
    BY <1>0, <1>4 DEF Kept
  <2>2. ASSUME NEW c \in Conns, nc[c].used, \E q \in Peer : peer' = [peer EXCEPT ![c] = q]
        PROVE  Vacant'
    BY <1>0, <2>1, <2>2 DEF Vacant
  <2>3. CASE peer' = peer
    BY <1>0, <2>1, <2>3 DEF Vacant
  <2>4. ASSUME NEW c \in Conns,
               Data(c) \/ Fin(c) \/ Stall(c) \/ Vanish(c) \/ Rst(c) \/ Timeout(c)
        PROVE  Vacant'
    <3>1. nc[c].pcb \/ peer[c].side # "none"
      BY <2>4 DEF Data, Fin, Listens, Stall, Vanish, Rst, Timeout
    <3>2. nc[c].used
      BY <1>0, <3>1 DEF Vacant, NoPeer
    <3> QED
      BY <2>2, <2>4, <3>2, ClientSteps DEF ByClient, Becomes
  <2>5. CASE ByThread /\ Serving
    BY <1>0, <2>2, <2>5, ServedUsed DEF ByThread, Becomes
  <2>6. CASE (WriteDone \/ CloseDone \/ Thread \/ Watchdog) /\ ~Serving
    <3>1. peer' = peer \/ Restart
      BY <2>6 DEF Serving, WriteDone, CloseDone, Thread, Watchdog, Accept, AcceptTimeout, ServeFrame,
         ServeIdle, Send, Ack, WriteCall, RecvCall, PendData, PendNull, PendTimeout, RecvTimeout, Obey,
         Close, Delete, coreVars
    <3> QED
      BY <1>1, <2>3, <3>1
  <2> QED
    BY <1>1, <1>2, <1>3, <2>4, <2>5, <2>6, ThreadSteps DEF Next, Tcpip
<1> QED
  BY <1>1, <1>2, <1>3, <1>4, NetconnSteps DEF NetconnStep

-----------------------------------------------------------------------------
(* The invariant. *)

LEMMA InitServer == Init => ServerInv
<1> SUFFICES ASSUME Init PROVE ServerInv
  OBVIOUS
<1> USE Records, Bounds DEF Init
<1>1. TypeOK
  <2>1. \A c \in Conns : nc[c] = None /\ Len(nc[c].box) <= BoxSize
    BY DEF None
  <2> QED
    BY <2>1 DEF TypeOK, Labels, Results
<1>2. FreeIsNone /\ InOrder /\ Rising /\ Vacant /\ Sending
  BY NoConnection DEF FreeIsNone, InOrder, Rising, Vacant, Sending
<1>3. Owned
  BY DEF Owned, InUse, Waiting, Serving, None
<1>4. PoolsBounded
  <2>1. MBoxes = {}
    BY DEF MBoxes, None
  <2> QED
    BY <2>1, QueueCount, FS_EmptySet DEF PoolsBounded, NetbufTotal, Held
<1> QED
  BY <1>1, <1>2, <1>3, <1>4 DEF ServerInv

\* A queue is lost in Delete only, and then the mailbox is full.
QueueStep ==
    /\ queues' \in 0 .. Queues
    /\ \/ QueueTotal' = QueueTotal
       \/ QueueTotal' <= QueueTotal /\ pc = "delete"
            /\ (QueueTotal' < QueueTotal => Len(nc[cur].box) = BoxSize)
       \/ QueueTotal' = Queues

LEMMA QueueSteps ==
    ASSUME ServerInv, Next
    PROVE  QueueStep
<1>0. TypeOK /\ nc \in [Conns -> Netconn] /\ cur \in Conns
  BY DEF ServerInv, TypeOK
<1>1. CASE Restart
  BY <1>1, RestartQueues DEF QueueStep
<1>2. CASE Delete
  <2>1. pc = "delete"
    BY <1>2 DEF Delete
  <2> QED
    BY <1>2, <2>1, DeleteQueues DEF QueueStep
<1>3. ASSUME NEW c \in Conns, Connect(c) PROVE QueueStep
  BY <1>3, ConnectQueues DEF QueueStep
<1>4. ASSUME NEW b \in BOOLEAN, DoClose(b) PROVE QueueStep
  BY <1>4, DoCloseQueues DEF QueueStep
<1>5. ASSUME NEW c \in Conns, NEW n \in Netconn, nc' = [nc EXCEPT ![c] = n], n.mbox = nc[c].mbox,
             queues' = queues
      PROVE  QueueStep
  BY <1>0, <1>5, OtherQueues DEF QueueStep
<1>6. CASE nc' = nc /\ queues' = queues
  <2>1. nc' = [nc EXCEPT ![cur] = nc[cur]] /\ nc[cur] \in Netconn
    BY <1>0, <1>6
  <2> QED
    BY <1>0, <1>5, <1>6, <2>1
<1>7. ASSUME NEW c \in Conns, Data(c) \/ Fin(c) PROVE QueueStep
  <2>1. queues' = queues /\ \E m \in Nat : Post(c, m)
    <3>1. peer[c].sent + 1 \in Nat /\ NULL \in Nat
      BY <1>0 DEF TypeOK, Peer, NULL
    <3> QED
      BY <1>7, <3>1 DEF Data, Fin
  <2> QED
    BY <1>0, <1>5, <2>1, PostShape
<1>8. ASSUME NEW c \in Conns, Rst(c) \/ Timeout(c) PROVE QueueStep
  <2>1. PICK e \in Fatal : ErrTcp(c, e)
    BY <1>8 DEF Rst, Timeout, Fatal
  <2>2. queues' = queues
    BY <2>1 DEF ErrTcp
  <2> QED
    BY <1>0, <1>5, <2>1, <2>2, ErrTcpShape
<1>9. CASE PendData \/ PendNull
  <2>1. queues' = queues
    BY <1>9 DEF PendData, PendNull
  <2> QED
    BY <1>0, <1>5, <1>9, <2>1, PendShape
<1>10. CASE RecvTimeout \/ CloseDone
  <2>1. queues' = queues
    BY <1>10 DEF RecvTimeout, CloseDone
  <2> QED
    BY <1>0, <1>5, <1>10, <2>1, StoreShape
<1>11. \/ Restart \/ Delete \/ (\E c \in Conns : Connect(c)) \/ (\E b \in BOOLEAN : DoClose(b))
       \/ (nc' = nc /\ queues' = queues) \/ (\E c \in Conns : Data(c) \/ Fin(c) \/ Rst(c) \/ Timeout(c))
       \/ PendData \/ PendNull \/ RecvTimeout \/ CloseDone
  BY DEF Next, Tcpip, Thread, Watchdog, WriteDone, Accept, AcceptTimeout, ServeFrame, ServeIdle, Send, Ack,
     WriteCall, RecvCall, PendTimeout, Obey, Close, Stall, Vanish
<1> QED
  BY <1>1, <1>2, <1>3, <1>4, <1>6, <1>7, <1>8, <1>9, <1>10, <1>11

LEMMA NextServer ==
    ASSUME ServerInv, Next
    PROVE  ServerInv'
<1>0. TypeOK /\ PoolsBounded /\ clients \in Nat
  BY DEF ServerInv, TypeOK
<1>1. ClientsStep
  BY ClientsSteps
<1>2. Arrivals /\ ControlStep /\ QueueStep
  BY OwnedSteps, ControlSteps, QueueSteps
<1>3. /\ nc' \in [Conns -> Netconn] /\ FreeIsNone'
      /\ \A c \in Conns : Len(nc'[c].box) <= BoxSize
  BY NetconnsTyped
<1>4. clients' \in Nat
  <2>1. CASE Tcpip
    <3>1. ASSUME NEW c \in Conns, Connect(c) \/ Data(c) \/ Fin(c) \/ Stall(c) \/ Vanish(c)
          PROVE  clients' \in Nat
      BY <1>0, <3>1 DEF Connect, Data, Fin, Stall, Vanish
    <3>2. ASSUME NEW c \in Conns, Rst(c) \/ Timeout(c) PROVE clients' \in Nat
      <4>1. clients' = clients
        BY <3>2 DEF Rst, Timeout, ErrTcp
      <4> QED
        BY <1>0, <4>1
    <3>3. CASE WriteDone \/ CloseDone
      BY <1>0, <3>3 DEF WriteDone, CloseDone
    <3> QED
      BY <2>1, <3>1, <3>2, <3>3 DEF Tcpip
  <2>2. CASE Thread \/ Watchdog
    BY <1>0, <2>2 DEF Thread, AcceptTimeout, Accept, ServeFrame, ServeIdle, Send, Ack, WriteCall, RecvCall,
       PendData, PendNull, PendTimeout, RecvTimeout, Obey, Close, Delete, Watchdog, Restart, coreVars
  <2> QED
    BY <2>1, <2>2 DEF Next
<1>5. TypeOK'
  BY <1>1, <1>2, <1>3, <1>4 DEF TypeOK, ClientsStep, Arrivals, ControlStep, QueueStep
<1>6. PoolsBounded'
  <2>1. NetbufTotal \in Int /\ Netbufs \in Int
    BY <1>0, Bounds DEF TypeOK, NetbufTotal
  <2>2. QueueTotal \in Int /\ QueueTotal' \in Int /\ Queues \in Int
    <3>1. Cardinality(MBoxes) \in Nat
      BY <1>0, CountType
    <3>2. MBoxes' \in SUBSET Conns
      BY DEF MBoxes
    <3>3. Cardinality(MBoxes') \in Nat
      BY <3>2, Bounds, FS_Subset, FS_CardinalityType
    <3> QED
      BY <1>0, <1>5, <3>1, <3>3, Bounds DEF TypeOK, QueueTotal, MBoxes
  <2>3. NetbufTotal' <= Netbufs
    BY <1>0, <1>2, <2>1 DEF ControlStep, PoolsBounded
  <2>4. QueueTotal' <= Queues
    BY <1>0, <1>2, <2>2 DEF QueueStep, PoolsBounded
  <2> QED
    BY <2>3, <2>4 DEF PoolsBounded
<1> QED
  BY <1>1, <1>2, <1>3, <1>5, <1>6, VacantSteps DEF ServerInv, ClientsStep, Arrivals, ControlStep

LEMMA StepsServer == ServerInv /\ [Next]_vars => ServerInv'
<1> SUFFICES ASSUME ServerInv, UNCHANGED vars PROVE ServerInv'
  BY NextServer
<1>1. NetbufTotal' = NetbufTotal /\ QueueTotal' = QueueTotal
  BY DEF vars, NetbufTotal, QueueTotal, Held
<1>2. TypeOK' /\ FreeIsNone' /\ Sending' /\ InOrder' /\ Rising' /\ Vacant'
  BY DEF vars, ServerInv, TypeOK, FreeIsNone, Sending, InOrder, Rising, Vacant
<1>3. Owned' /\ PoolsBounded'
  BY <1>1 DEF vars, ServerInv, Owned, InUse, Waiting, Serving, PoolsBounded
<1> QED
  BY <1>2, <1>3 DEF ServerInv

THEOREM ServerInvariance == Spec => []ServerInv
BY InitServer, StepsServer, PTL DEF Spec

(* Type correctness; the pools never hold more than they began with. *)
THEOREM TypeCorrect == Spec => []TypeOK
<1>1. ServerInv => TypeOK
  BY DEF ServerInv
<1> QED
  BY <1>1, ServerInvariance, PTL

(* Every netconn taken from the pool is waiting once or being served, however its
   connection ends (netconn_alloc, netconn_free, accept_function in api_msg.c). *)
THEOREM NetconnsReturn == Spec => []NetconnsKept
<1>1. ServerInv => NetconnsKept
  <2> SUFFICES ASSUME ServerInv PROVE Cardinality(Waiting) = Len(acceptmbox)
    BY DEF ServerInv, Owned, NetconnsKept, Served
  <2>1. acceptmbox \in Seq(Conns) /\ Len(acceptmbox) \in Nat /\ DOMAIN acceptmbox = 1 .. Len(acceptmbox)
    BY DEF ServerInv, TypeOK
  <2>2. \A i, j \in DOMAIN acceptmbox : acceptmbox[i] = acceptmbox[j] => i = j
    BY DEF ServerInv, Owned
  <2>3. acceptmbox \in [1 .. Len(acceptmbox) -> Waiting]
    BY <2>1 DEF Waiting
  <2>4. acceptmbox \in Bijection(1 .. Len(acceptmbox), Waiting)
    BY <2>1, <2>2, <2>3 DEF Bijection, Injection, Surjection, IsInjective, Waiting
  <2>5. IsFiniteSet(1 .. Len(acceptmbox)) /\ Cardinality(1 .. Len(acceptmbox)) = Len(acceptmbox)
    BY <2>1, FS_Interval
  <2> QED
    BY <2>4, <2>5, FS_Bijection DEF ExistsBijection
<1> QED
  BY <1>1, ServerInvariance, PTL

(* As long as its mailbox was never full, a client is obeyed in the order in which it
   sent, each command once (recv_tcp, netconn_recv, PollMessage). *)
THEOREM ObeyedInOrder == Spec => []CommandsInOrder
<1>1. ServerInv => CommandsInOrder
  <2> SUFFICES ASSUME ServerInv, NEW c \in InUse, nc[c].mbox, ~peer[c].dropped
               PROVE  LET due == peer[c].sent - peer[c].obeyed
                      IN  /\ due \in 0 .. Len(nc[c].box)
                          /\ \A i \in DOMAIN nc[c].box :
                                nc[c].box[i] = IF i <= due THEN peer[c].obeyed + i ELSE NULL
    BY DEF CommandsInOrder
  <2>1. OrderAt(nc[c], peer[c]) /\ nc[c].box \in Seq(Nat)
    BY DEF ServerInv, InOrder, InUse, TypeOK, Netconn
  <2>2. DOMAIN nc[c].box = 1 .. Len(nc[c].box)
    BY <2>1
  <2>3. /\ peer[c].sent - peer[c].obeyed \in 0 .. Len(nc[c].box)
        /\ \A i \in 1 .. Len(nc[c].box) :
              nc[c].box[i] = IF i <= peer[c].sent - peer[c].obeyed
                               THEN peer[c].obeyed + i ELSE NULL
    BY <2>1 DEF OrderAt
  <2> QED
    BY <2>2, <2>3
<1> QED
  BY <1>1, ServerInvariance, PTL

(* No step overwrites a fatal error of a netconn that is in use (NETCONN_SET_SAFE_ERR,
   api_msg.c:242). *)
THEOREM FatalErrorsStay == Spec => FatalStays
<1>1. ServerInv /\ [Next]_vars =>
        [\A c \in Conns : nc[c].last_err \in Fatal /\ nc'[c].used => nc'[c].last_err \in Fatal]_vars
  BY NetconnsTyped
<1> QED
  BY <1>1, ServerInvariance, PTL DEF Spec, FatalStays

(* No step but the two named loses a netbuf or an OS queue. *)
THEOREM TwoLeaks == Spec => PoolsShrinkTwoWays
<1>1. ServerInv /\ [Next]_vars =>
        [/\ NetbufTotal' < NetbufTotal => pc \in {"ack", "ack_wait"} /\ pc' = "close"
         /\ QueueTotal' < QueueTotal => pc = "delete" /\ Len(nc[cur].box) = BoxSize]_vars
  <2> SUFFICES ASSUME ServerInv, Next
               PROVE  /\ NetbufTotal' < NetbufTotal => pc \in {"ack", "ack_wait"} /\ pc' = "close"
                      /\ QueueTotal' < QueueTotal => pc = "delete" /\ Len(nc[cur].box) = BoxSize
    OBVIOUS
  <2>1. ControlStep /\ QueueStep
    BY ControlSteps, QueueSteps
  <2>2. NetbufTotal \in Int /\ Netbufs \in Int /\ NetbufTotal <= Netbufs
    BY Bounds DEF ServerInv, TypeOK, NetbufTotal, PoolsBounded
  <2>3. QueueTotal \in Int /\ Queues \in Int /\ QueueTotal <= Queues
    BY Bounds, CountType, QueueCount DEF ServerInv, TypeOK, PoolsBounded
  <2> QED
    BY <2>1, <2>2, <2>3 DEF ControlStep, QueueStep
<1> QED
  BY <1>1, ServerInvariance, PTL DEF Spec, PoolsShrinkTwoWays

-----------------------------------------------------------------------------
(* What the clients are promised (ClientService). *)

Service == <<acceptmbox, Served, Commands>>

LEMMA ServiceInit == Init => Abstract!Init
<1> SUFFICES ASSUME Init PROVE Abstract!Init
  OBVIOUS
<1>1. acceptmbox = <<>> /\ Served = {} /\ \A c \in Conns : peer[c] = NoPeer
  BY DEF Init, Served, Serving
<1>2. \A c \in Conns : peer[c].sent = 0 /\ peer[c].obeyed = 0 /\ peer[c].dropped = FALSE
  BY <1>1 DEF NoPeer
<1>3. Commands = [c \in Conns |-> [sent |-> 0, obeyed |-> 0, lost |-> FALSE]]
  BY <1>2 DEF Commands
<1> QED
  BY <1>1, <1>3 DEF Abstract!Init, Abstract!New

\* The client of one connection changes.
LEMMA OneCommands ==
    ASSUME ServerInv, NEW c \in Conns, NEW q \in Peer, peer' = [peer EXCEPT ![c] = q]
    PROVE  /\ Commands' = [Commands EXCEPT ![c] = [sent |-> q.sent, obeyed |-> q.obeyed,
                                                    lost |-> q.dropped]]
           /\ Commands[c] = [sent |-> peer[c].sent, obeyed |-> peer[c].obeyed,
                              lost |-> peer[c].dropped]
           /\ SameCommands(peer[c], q) => Commands' = Commands
<1>1. peer \in [Conns -> Peer] /\ \A d \in Conns : peer'[d] = IF d = c THEN q ELSE peer[d]
  BY DEF ServerInv, TypeOK
<1>2. \A d \in Conns : SameCommands(peer[c], q) => /\ peer'[d].sent = peer[d].sent
                                                     /\ peer'[d].obeyed = peer[d].obeyed
                                                     /\ peer'[d].dropped = peer[d].dropped
  BY <1>1 DEF SameCommands
<1>3. SameCommands(peer[c], q) => Commands' = Commands
  BY <1>2 DEF Commands
<1> QED
  BY <1>1, <1>3 DEF Commands

\* Those who are present are those who have a netconn.
LEMMA PresentUsed == ServerInv => Abstract!Present = InUse
BY DEF ServerInv, Owned, Waiting, Served, Abstract!Present

LEMMA ConnectJoins ==
    ASSUME ServerInv, NEW c \in Conns, Connect(c)
    PROVE  Abstract!Join(c)
<1>1. PICK q \in Peer : peer' = [peer EXCEPT ![c] = q] /\ SameCommands(NoPeer, q)
  BY NewConnection DEF Becomes
<1>2. ~nc[c].used /\ peer[c] = NoPeer /\ c \notin InUse
  BY DEF Connect, ServerInv, Vacant, InUse
<1>3. Commands[c] = Abstract!New /\ Commands' = Commands
  <2>1. peer[c].sent = 0 /\ peer[c].obeyed = 0 /\ peer[c].dropped = FALSE
    BY <1>2 DEF NoPeer
  <2>2. Commands[c] = [sent |-> 0, obeyed |-> 0, lost |-> FALSE]
    BY <2>1 DEF Commands
  <2>3. Commands' = Commands
    BY <1>1, <1>2, OneCommands
  <2> QED
    BY <2>2, <2>3 DEF Abstract!New
<1>4. acceptmbox' = Append(acceptmbox, c) /\ Served' = Served
  BY DEF Connect, Served, Serving, threadVars
<1> QED
  BY <1>2, <1>3, <1>4, PresentUsed DEF Abstract!Join

LEMMA AcceptServes ==
    ASSUME ServerInv, Accept
    PROVE  Abstract!Serve
<1>1. Served = {} /\ acceptmbox # <<>> /\ acceptmbox' = Tail(acceptmbox) /\ Served' = {Head(acceptmbox)}
  BY DEF Accept, Served, Serving
<1>2. Commands' = Commands
  BY DEF Accept, Commands
<1> QED
  BY <1>1, <1>2 DEF Abstract!Serve

LEMMA DeleteLeaves ==
    ASSUME ServerInv, Delete
    PROVE  Abstract!Leave(cur)
<1>1. Served = {cur} /\ Served' = {} /\ acceptmbox' = acceptmbox /\ peer' = [peer EXCEPT ![cur] = NoPeer]
  BY DEF Delete, Served, Serving
<1>2. cur \in Conns
  BY DEF ServerInv, TypeOK
<1>3. Commands' = [Commands EXCEPT ![cur] = [sent |-> 0, obeyed |-> 0, lost |-> FALSE]]
  BY <1>1, <1>2, OneCommands, Records DEF NoPeer
<1> QED
  BY <1>1, <1>3 DEF Abstract!Leave, Abstract!New

LEMMA RestartRestarts ==
    ASSUME Restart
    PROVE  Abstract!Restart
<1>1. acceptmbox' = <<>> /\ Served' = {} /\ \A c \in Conns : peer'[c] = NoPeer
  BY DEF Restart, Served, Serving
<1>2. \A c \in Conns : peer'[c].sent = 0 /\ peer'[c].obeyed = 0 /\ peer'[c].dropped = FALSE
  BY <1>1 DEF NoPeer
<1>3. Commands' = [c \in Conns |-> [sent |-> 0, obeyed |-> 0, lost |-> FALSE]]
  BY <1>2 DEF Commands
<1> QED
  BY <1>1, <1>3 DEF Abstract!Restart, Abstract!New

LEMMA DataCommands ==
    ASSUME ServerInv, NEW c \in Conns, NEW m \in Netconn, NEW q \in Peer, Becomes(c, m, q),
           CommandComes(nc[c], peer[c], m, q), UNCHANGED <<acceptmbox, Served>>
    PROVE  Abstract!Command(c)
<1> DEFINE p == peer[c]
<1>1. nc[c].pcb /\ q.sent = p.sent + 1 /\ q.obeyed = p.obeyed /\ (p.dropped => q.dropped)
  BY DEF CommandComes
<1>2. p.dropped \in BOOLEAN /\ q.dropped \in BOOLEAN
  BY DEF ServerInv, TypeOK, Peer
<1>3. c \in Abstract!Present
  BY <1>1, PresentUsed DEF ServerInv, Owned, InUse
<1>4. /\ Commands[c] = [sent |-> p.sent, obeyed |-> p.obeyed, lost |-> p.dropped]
      /\ Commands' = [Commands EXCEPT ![c] = [sent |-> q.sent, obeyed |-> q.obeyed, lost |-> q.dropped]]
  BY OneCommands DEF Becomes
<1>5. q.dropped = (p.dropped \/ q.dropped)
  BY <1>1, <1>2
<1>6. Commands' = [Commands EXCEPT ![c] = [sent |-> p.sent + 1, obeyed |-> p.obeyed,
                                           lost |-> p.dropped \/ q.dropped]]
  BY <1>1, <1>4, <1>5
<1>7. Commands' = [Commands EXCEPT ![c].sent = @ + 1, ![c].lost = @ \/ q.dropped]
  BY <1>4, <1>6 DEF Commands
<1> QED
  BY <1>2, <1>3, <1>7 DEF Abstract!Command

LEMMA TakenObeys ==
    ASSUME ServerInv, NEW m \in Netconn, NEW q \in Peer, Becomes(cur, m, q), pc = "pend",
           MessageTaken(nc[cur], peer[cur], m, q), UNCHANGED <<acceptmbox, Served>>
    PROVE  Abstract!Obey(cur) \/ UNCHANGED Service
<1> DEFINE n == nc[cur]  p == peer[cur]  x == Head(n.box)
<1>0. /\ cur \in Conns /\ n \in Netconn /\ p \in Peer /\ OrderAt(n, p) /\ RisingAt(n, p)
      /\ peer' = [peer EXCEPT ![cur] = q]
  BY DEF ServerInv, TypeOK, InOrder, Rising, Becomes
<1>1. n.box # <<>> /\ q.sent = p.sent /\ q.dropped = p.dropped
      /\ q.obeyed = IF x = NULL THEN p.obeyed ELSE x
  BY DEF MessageTaken
<1>2. CASE x = NULL
  <2>1. SameCommands(p, q)
    BY <1>1, <1>2 DEF SameCommands
  <2> QED
    BY <1>0, <2>1, OneCommands DEF Service
<1>3. CASE x # NULL
  <2>1. p.obeyed < x /\ x <= p.sent
    BY <1>0, <1>3, RisingTaken
  <2>2. p.obeyed \in Nat /\ p.sent \in Nat /\ n.box \in Seq(Nat) /\ Len(n.box) \in Nat \ {0}
        /\ x = n.box[1] /\ x \in Nat
    BY <1>0, <1>1 DEF Netconn, Peer
  <2>3. x \in p.obeyed + 1 .. p.sent
    BY <2>1, <2>2
  <2>4. p.dropped \/ x = p.obeyed + 1
    <3>1. SUFFICES ASSUME ~p.dropped PROVE x = p.obeyed + 1
      OBVIOUS
    <3>2. n.mbox
      BY <1>0, <1>1 DEF RisingAt
    <3>3. x = IF 1 <= p.sent - p.obeyed THEN p.obeyed + 1 ELSE NULL
      BY <1>0, <2>2, <3>1, <3>2 DEF OrderAt
    <3> QED
      BY <1>3, <3>3
  <2>5. Served = {cur}
    BY DEF Served, Serving
  <2>6. /\ Commands[cur] = [sent |-> p.sent, obeyed |-> p.obeyed, lost |-> p.dropped]
        /\ Commands' = [Commands EXCEPT ![cur] = [sent |-> p.sent, obeyed |-> x, lost |-> p.dropped]]
    <3>1. q.sent = p.sent /\ q.obeyed = x /\ q.dropped = p.dropped
      BY <1>1, <1>3
    <3> HIDE DEF x
    <3>2. /\ Commands[cur] = [sent |-> p.sent, obeyed |-> p.obeyed, lost |-> p.dropped]
          /\ Commands' = [Commands EXCEPT ![cur] = [sent |-> q.sent, obeyed |-> q.obeyed,
                                                    lost |-> q.dropped]]
      BY <1>0, OneCommands
    <3> QED
      BY <3>1, <3>2
  <2> HIDE DEF x
  <2>7. Commands' = [Commands EXCEPT ![cur].obeyed = x]
    BY <2>6 DEF Commands
  <2>8. x \in Commands[cur].obeyed + 1 .. Commands[cur].sent
    BY <2>3, <2>6
  <2>9. Commands[cur].lost \/ x = Commands[cur].obeyed + 1
    BY <2>4, <2>6
  <2> QED
    BY <2>5, <2>7, <2>8, <2>9 DEF Abstract!Obey
<1> QED
  BY <1>2, <1>3

(* Every step of the server is one of the steps its clients are promised, or none of their
   business: they are served in their turn, alone, each command obeyed in order and at most
   once (accept_function, netconn_accept, netconn_recv, netconn_delete). *)
THEOREM ServesClients == Spec => ServesInTurn
<1>1. ServerInv /\ [Next]_vars => [Abstract!Next]_Service
  <2> SUFFICES ASSUME ServerInv, [Next]_vars PROVE Abstract!Next \/ UNCHANGED Service
    OBVIOUS
  <2>0. cur \in Conns /\ peer \in [Conns -> Peer]
    BY DEF ServerInv, TypeOK
  <2>1. CASE UNCHANGED vars
    BY <2>1 DEF vars, Service, Served, Serving, Commands
  <2>2. CASE Restart
    BY <2>2, RestartRestarts DEF Abstract!Next
  <2>3. CASE Delete
    BY <2>0, <2>3, DeleteLeaves DEF Abstract!Next
  <2>4. CASE Accept
    BY <2>4, AcceptServes DEF Abstract!Next
  <2>5. ASSUME NEW c \in Conns, Connect(c) PROVE Abstract!Next
    BY <2>5, ConnectJoins DEF Abstract!Next
  <2>6. CASE Next /\ ~Accept /\ ~Delete /\ ~Restart /\ ~\E c \in Conns : Connect(c)
    <3>1. UNCHANGED <<acceptmbox, Served>>
      BY <2>6, OthersKeep DEF Served, Serving
    <3>2. ASSUME NEW c \in Conns, NEW q \in Peer, peer' = [peer EXCEPT ![c] = q], SameCommands(peer[c], q)
          PROVE  UNCHANGED Service
      BY <3>1, <3>2, OneCommands DEF Service
    <3>3. ASSUME NEW c \in Conns, ByClient(c) PROVE Abstract!Next \/ UNCHANGED Service
      <4>1. PICK m \in Netconn, q \in Peer : Becomes(c, m, q) /\ Outside(nc[c], peer[c], m, q)
        BY <3>3 DEF ByClient
      <4>2. CASE SameCommands(peer[c], q)
        BY <3>2, <4>1, <4>2 DEF Becomes
      <4>3. CASE CommandComes(nc[c], peer[c], m, q)
        BY <3>1, <4>1, <4>3, DataCommands DEF Abstract!Next
      <4> QED
        BY <4>1, <4>2, <4>3 DEF Outside, Quiet, EndComes
    <3>4. CASE ByThread
      <4>1. PICK m \in Netconn, q \in Peer :
               /\ Becomes(cur, m, q)
               /\ \/ Quiet(nc[cur], peer[cur], m, q)
                  \/ pc = "pend" /\ MessageTaken(nc[cur], peer[cur], m, q)
        BY <3>4 DEF ByThread
      <4>2. CASE Quiet(nc[cur], peer[cur], m, q)
        BY <2>0, <3>2, <4>1, <4>2 DEF Becomes, Quiet
      <4>3. CASE pc = "pend" /\ MessageTaken(nc[cur], peer[cur], m, q)
        BY <2>0, <3>1, <4>1, <4>3, TakenObeys DEF Abstract!Next
      <4> QED
        BY <4>1, <4>2, <4>3
    <3> QED
      BY <2>6, <3>3, <3>4, ClientSteps, ThreadSteps DEF Next, Tcpip
  <2> QED
    BY <2>1, <2>2, <2>3, <2>4, <2>5, <2>6
<1> QED
  BY <1>1, ServiceInit, ServerInvariance, PTL DEF Spec, ServesInTurn, Abstract!Spec, Service
=============================================================================
