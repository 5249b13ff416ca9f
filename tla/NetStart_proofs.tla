--------------------------- MODULE NetStart_proofs ---------------------------
(***************************************************************************)
(* Proofs about the start of the network, for every size of the pool, every  *)
(* list of pieces and every size of them: no block has two owners and none    *)
(* is lost by freeing, unless the console took what a call had just found      *)
(* free; a line is executed as it was sent; the DMA starts with all of its     *)
(* memory; and the mailbox is given, where the pool has room for one start.    *)
(***************************************************************************)
EXTENDS NetStart, TLAPS

-----------------------------------------------------------------------------
(* The call under way.                                                       *)

ScanCall(w, a, n) == [op |-> "scan", who |-> w, at |-> a, n |-> n]
MarkCall(w, a, n) == [op |-> "mark", who |-> w, at |-> a, n |-> n]
ClearCall(w, a, n, l) == [op |-> "clear", who |-> w, at |-> a, n |-> n, len |-> l]

Scanning == \E w \in Program, a \in Table \cup {NULL}, n \in Nat :
                call = ScanCall(w, a, n) /\ n < Size[w] /\ a + 1 + n <= Blocks
Marking  == \E w \in Program, a \in Table, n \in Nat :
                call = MarkCall(w, a, n) /\ n <= Size[w] /\ a + Size[w] <= Blocks
Clearing == \E w \in Program, a \in Table, n \in Nat, l \in Nat : call = ClearCall(w, a, n, l)

LEMMA ScanFound ==
    ASSUME NEW w, NEW a, NEW n
    PROVE  [ScanCall(w, a, n) EXCEPT !.op = "mark", !.n = 0] = MarkCall(w, a, 0)
<1>1. [ScanCall(w, a, n) EXCEPT !.op = "mark"] = MarkCall(w, a, n)
  BY DEF ScanCall, MarkCall
<1>2. [MarkCall(w, a, n) EXCEPT !.n = 0] = MarkCall(w, a, 0)
  BY DEF MarkCall
<1>3. [ScanCall(w, a, n) EXCEPT !.op = "mark", !.n = 0]
        = [[ScanCall(w, a, n) EXCEPT !.op = "mark"] EXCEPT !.n = 0]
  BY Zenon
<1> QED
  BY <1>1, <1>2, <1>3

LEMMA MarkOn ==
    ASSUME NEW w, NEW a, NEW n
    PROVE  [MarkCall(w, a, n) EXCEPT !.n = @ + 1] = MarkCall(w, a, n + 1)
BY DEF MarkCall

LEMMA ClearOn ==
    ASSUME NEW w, NEW a, NEW n, NEW l
    PROVE  [ClearCall(w, a, n, l) EXCEPT !.n = @ + 1] = ClearCall(w, a, n + 1, l)
BY DEF ClearCall

LEMMA CallFields ==
    /\ \A w, a, n : /\ ScanCall(w, a, n).op = "scan" /\ ScanCall(w, a, n).who = w
                    /\ ScanCall(w, a, n).at = a /\ ScanCall(w, a, n).n = n
                    /\ MarkCall(w, a, n).op = "mark" /\ MarkCall(w, a, n).who = w
                    /\ MarkCall(w, a, n).at = a /\ MarkCall(w, a, n).n = n
    /\ \A w, a, n, l : /\ ClearCall(w, a, n, l).op = "clear" /\ ClearCall(w, a, n, l).who = w
                       /\ ClearCall(w, a, n, l).at = a /\ ClearCall(w, a, n, l).n = n
                       /\ ClearCall(w, a, n, l).len = l
    /\ NoCall.op = "none"
BY DEF ScanCall, MarkCall, ClearCall, NoCall

LEMMA PoolConstants ==
    /\ Blocks \in Nat /\ Blocks # 0 /\ Table = 0 .. Blocks - 1 /\ NULL = -1 /\ NULL \notin Table
    /\ \A w \in Owners : Size[w] \in Nat /\ Size[w] # 0
    /\ Program \subseteq Owners /\ Console \subseteq Owners /\ Program \cap Console = {}
BY BlocksAssumption, OwnersAssumption, SizeAssumption DEF Table, NULL, Owners

-----------------------------------------------------------------------------
(* Types: what is found fits into the table, so that what belongs to somebody does.  *)

PoolTypes ==
    /\ memmap \in [Table -> Nat]
    /\ ptr \in [Owners -> Table \cup {NULL}]
    /\ owned \subseteq Owners
    /\ leaked \subseteq Table
    /\ raced \in BOOLEAN
    /\ call = NoCall \/ Scanning \/ Marking \/ Clearing
    /\ \A w \in Owners : ptr[w] # NULL => ptr[w] + Size[w] <= Blocks
    /\ \A w \in owned : ptr[w] # NULL

LEMMA CallTypes ==
    ASSUME PoolTypes
    PROVE  PoolTypeOK
<1>1. Scanning => call \in [op : {"scan"}, who : Program, at : Table \cup {NULL}, n : Nat]
  BY DEF Scanning, ScanCall
<1>2. Marking => call \in [op : {"mark"}, who : Program, at : Table, n : Nat]
  BY DEF Marking, MarkCall
<1>3. Clearing => call \in [op : {"clear"}, who : Program, at : Table, n : Nat, len : Nat]
  BY DEF Clearing, ClearCall
<1> QED
  BY <1>1, <1>2, <1>3 DEF PoolTypes, PoolTypeOK

LEMMA HeldInTable ==
    ASSUME PoolTypes, NEW w \in Owners, ptr[w] # NULL
    PROVE  Held(w) \subseteq Table
<1>1. ptr[w] \in Table /\ ptr[w] + Size[w] <= Blocks
  BY DEF PoolTypes
<1> QED
  BY <1>1, PoolConstants DEF Held, Run

(* A call returns. *)
LEMMA ReturnTypes ==
    ASSUME PoolTypes, NEW w \in Program, NEW o \in Table \cup {NULL},
           o # NULL => o + Size[w] <= Blocks, Return(w, o)
    PROVE  PoolTypes'
<1>0. w \in Owners /\ ptr' = [ptr EXCEPT ![w] = o] /\ memmap' = memmap /\ raced' = raced /\ call' = NoCall
  BY PoolConstants DEF Return
<1>1. ptr' \in [Owners -> Table \cup {NULL}]
      /\ \A v \in Owners : ptr'[v] = IF v = w THEN o ELSE ptr[v]
  BY <1>0 DEF PoolTypes
<1>2. leaked' \subseteq Table
  BY HeldInTable, <1>0 DEF Return, PoolTypes
<1>3. owned' \subseteq Owners /\ \A v \in owned' : (v = w /\ o # NULL) \/ (v # w /\ v \in owned)
  BY <1>0 DEF Return, PoolTypes
<1> QED
  BY <1>0, <1>1, <1>2, <1>3 DEF PoolTypes

-----------------------------------------------------------------------------
(* What the turns of the loops do, with the call as it is.                   *)

LEMMA WhichCall ==
    ASSUME PoolTypes
    PROVE  /\ call.op = "scan" => Scanning
           /\ call.op = "mark" => Marking
           /\ call.op = "clear" => Clearing
BY CallFields DEF PoolTypes, Scanning, Marking, Clearing

LEMMA ScanDoes ==
    ASSUME PoolTypes, Scan
    PROVE  \E w \in Program, a \in Table \cup {NULL}, n \in Nat :
             /\ call = ScanCall(w, a, n) /\ n < Size[w] /\ a + 1 + n <= Blocks
             /\ \/ a = NULL /\ Return(w, NULL)
                \/ /\ a \in Table /\ UNCHANGED <<memmap, ptr, owned, leaked, raced>>
                   /\ \/ memmap[a] = 0 /\ n + 1 = Size[w] /\ call' = MarkCall(w, a, 0)
                      \/ memmap[a] = 0 /\ n + 1 < Size[w] /\ call' = ScanCall(w, a - 1, n + 1)
                      \/ memmap[a] # 0 /\ call' = ScanCall(w, a - 1, 0)
<1>0. PICK w \in Program, a \in Table \cup {NULL}, n \in Nat :
             call = ScanCall(w, a, n) /\ n < Size[w] /\ a + 1 + n <= Blocks
  BY WhichCall DEF Scan, Scanning
<1>1. call.who = w /\ call.at = a /\ call.n = n
  BY <1>0, CallFields
<1>2. Size[w] \in Nat /\ Size[w] # 0
  BY PoolConstants
<1>3. CASE a = NULL
  BY <1>0, <1>1, <1>3 DEF Scan
<1>4. CASE a # NULL
  <2> DEFINE m == IF memmap[a] = 0 THEN n + 1 ELSE 0
  <2>1. /\ call' = IF m = Size[w] THEN [call EXCEPT !.op = "mark", !.n = 0]
                                  ELSE [call EXCEPT !.at = @ - 1, !.n = m]
        /\ UNCHANGED <<memmap, ptr, owned, leaked, raced>>
    BY <1>1, <1>4 DEF Scan
  <2>2. call' = IF m = Size[w] THEN MarkCall(w, a, 0) ELSE ScanCall(w, a - 1, m)
    <3> HIDE DEF m
    <3>1. CASE m = Size[w]
      BY <1>0, <2>1, <3>1, ScanFound
    <3>2. CASE m # Size[w]
      <4>1. call' = [call EXCEPT !.at = @ - 1, !.n = m]
        BY <2>1, <3>2
      <4>2. [call EXCEPT !.at = @ - 1, !.n = m] = ScanCall(w, a - 1, m)
        <5>1. [call EXCEPT !.at = @ - 1] = ScanCall(w, a - 1, n)
          BY <1>0 DEF ScanCall
        <5>2. [ScanCall(w, a - 1, n) EXCEPT !.n = m] = ScanCall(w, a - 1, m)
          BY DEF ScanCall
        <5>3. [call EXCEPT !.at = @ - 1, !.n = m] = [[call EXCEPT !.at = @ - 1] EXCEPT !.n = m]
          BY Zenon
        <5> QED
          BY <5>1, <5>2, <5>3
      <4> QED
        BY <3>2, <4>1, <4>2, Zenon
    <3> QED
      BY <3>1, <3>2
  <2>3. \/ memmap[a] = 0 /\ n + 1 = Size[w] /\ call' = MarkCall(w, a, 0)
        \/ memmap[a] = 0 /\ n + 1 < Size[w] /\ call' = ScanCall(w, a - 1, n + 1)
        \/ memmap[a] # 0 /\ call' = ScanCall(w, a - 1, 0)
    BY <1>0, <1>2, <2>2
  <2> HIDE DEF m
  <2> QED
    BY <1>0, <1>4, <2>1, <2>3
<1> QED
  BY <1>3, <1>4

LEMMA MarkDoes ==
    ASSUME PoolTypes, Mark
    PROVE  \E w \in Program, a \in Table, n \in Nat :
             /\ call = MarkCall(w, a, n) /\ n <= Size[w] /\ a + Size[w] <= Blocks
             /\ \/ n = Size[w] /\ Return(w, a)
                \/ /\ n < Size[w] /\ UNCHANGED <<ptr, owned, leaked, raced>>
                   /\ memmap' = [memmap EXCEPT ![a + n] = Size[w]]
                   /\ call' = MarkCall(w, a, n + 1)
<1>0. PICK w \in Program, a \in Table, n \in Nat :
             call = MarkCall(w, a, n) /\ n <= Size[w] /\ a + Size[w] <= Blocks
  BY WhichCall DEF Mark, Marking
<1>1. call.who = w /\ call.at = a /\ call.n = n
  BY <1>0, CallFields
<1>2. Size[w] \in Nat
  BY PoolConstants
<1>3. CASE n = Size[w]
  BY <1>0, <1>1, <1>3 DEF Mark
<1>4. CASE n # Size[w]
  <2>1. /\ memmap' = [memmap EXCEPT ![a + n] = Size[w]]
        /\ call' = [call EXCEPT !.n = @ + 1]
        /\ UNCHANGED <<ptr, owned, leaked, raced>>
    BY <1>1, <1>4 DEF Mark
  <2>2. call' = MarkCall(w, a, n + 1)
    BY <1>0, <2>1, MarkOn
  <2>3. n < Size[w]
    BY <1>0, <1>2, <1>4
  <2> QED
    BY <1>0, <2>1, <2>2, <2>3
<1> QED
  BY <1>3, <1>4

LEMMA ClearDoes ==
    ASSUME PoolTypes, Clear
    PROVE  \E w \in Program, a \in Table, n \in Nat, l \in Nat :
             /\ call = ClearCall(w, a, n, l)
             /\ UNCHANGED <<ptr, owned, leaked, raced>>
             /\ \/ n = l /\ call' = NoCall /\ memmap' = memmap
                \/ /\ n # l /\ call' = ClearCall(w, a, n + 1, l)
                   /\ memmap' = [b \in Table |-> IF b = a + n THEN 0 ELSE memmap[b]]
<1>0. PICK w \in Program, a \in Table, n \in Nat, l \in Nat : call = ClearCall(w, a, n, l)
  BY WhichCall DEF Clear, Clearing
<1>1. call.at = a /\ call.n = n /\ call.len = l
  BY <1>0, CallFields
<1>2. UNCHANGED <<ptr, owned, leaked, raced>>
  BY DEF Clear
<1>3. CASE n = l
  BY <1>0, <1>1, <1>2, <1>3 DEF Clear
<1>4. CASE n # l
  <2>1. /\ memmap' = [b \in Table |-> IF b = a + n THEN 0 ELSE memmap[b]]
        /\ call' = [call EXCEPT !.n = @ + 1]
    BY <1>1, <1>4 DEF Clear
  <2>2. call' = ClearCall(w, a, n + 1, l)
    BY <1>0, <2>1, ClearOn
  <2> QED
    BY <1>0, <1>2, <1>4, <2>1, <2>2
<1> QED
  BY <1>3, <1>4

-----------------------------------------------------------------------------
LEMMA PoolStepTypes ==
    ASSUME PoolTypes, PoolStep
    PROVE  PoolTypes'
<1>1. CASE Scan
  <2>1. PICK w \in Program, a \in Table \cup {NULL}, n \in Nat :
             /\ call = ScanCall(w, a, n) /\ n < Size[w] /\ a + 1 + n <= Blocks
             /\ \/ a = NULL /\ Return(w, NULL)
                \/ /\ a \in Table /\ UNCHANGED <<memmap, ptr, owned, leaked, raced>>
                   /\ \/ memmap[a] = 0 /\ n + 1 = Size[w] /\ call' = MarkCall(w, a, 0)
                      \/ memmap[a] = 0 /\ n + 1 < Size[w] /\ call' = ScanCall(w, a - 1, n + 1)
                      \/ memmap[a] # 0 /\ call' = ScanCall(w, a - 1, 0)
    BY <1>1, ScanDoes
  <2>2. CASE a = NULL /\ Return(w, NULL)
    BY <2>2, ReturnTypes
  <2>3. CASE a \in Table /\ UNCHANGED <<memmap, ptr, owned, leaked, raced>>
    <3>1. a - 1 \in Table \cup {NULL} /\ Size[w] \in Nat /\ Size[w] # 0
          /\ (a - 1) + 1 + (n + 1) = a + 1 + n /\ (a - 1) + 1 + 0 <= Blocks
          /\ n + 1 \in Nat /\ 0 \in Nat
      BY <2>1, <2>3, PoolConstants
    <3>2. CASE n + 1 = Size[w] /\ call' = MarkCall(w, a, 0)
      <4>0. a + Size[w] <= Blocks /\ 0 <= Size[w] /\ a \in Table /\ 0 \in Nat
        BY <2>1, <2>3, <3>1, <3>2, PoolConstants
      <4>1. Marking'
        BY <3>2, <4>0 DEF Marking
      <4> QED
        BY <2>3, <4>1 DEF PoolTypes
    <3>3. CASE n + 1 < Size[w] /\ call' = ScanCall(w, a - 1, n + 1)
      <4>1. Scanning'
        BY <2>1, <3>1, <3>3 DEF Scanning
      <4> QED
        BY <2>3, <4>1 DEF PoolTypes
    <3>4. CASE call' = ScanCall(w, a - 1, 0)
      <4>1. Scanning'
        BY <3>1, <3>4 DEF Scanning
      <4> QED
        BY <2>3, <4>1 DEF PoolTypes
    <3> QED
      BY <2>1, <2>3, <3>2, <3>3, <3>4, PoolConstants
  <2> QED
    BY <2>1, <2>2, <2>3
<1>2. CASE Mark
  <2>1. PICK w \in Program, a \in Table, n \in Nat :
             /\ call = MarkCall(w, a, n) /\ n <= Size[w] /\ a + Size[w] <= Blocks
             /\ \/ n = Size[w] /\ Return(w, a)
                \/ /\ n < Size[w] /\ UNCHANGED <<ptr, owned, leaked, raced>>
                   /\ memmap' = [memmap EXCEPT ![a + n] = Size[w]]
                   /\ call' = MarkCall(w, a, n + 1)
    BY <1>2, MarkDoes
  <2>2. CASE n = Size[w] /\ Return(w, a)
    BY <2>1, <2>2, ReturnTypes
  <2>3. CASE n < Size[w] /\ UNCHANGED <<ptr, owned, leaked, raced>>
    <3>1. Size[w] \in Nat /\ n + 1 <= Size[w] /\ n + 1 \in Nat
      BY <2>3, PoolConstants
    <3>0. a + n \in Table
      BY <2>1, <2>3, <3>1, PoolConstants
    <3>2. memmap' \in [Table -> Nat]
      BY <2>1, <2>3, <3>0, <3>1 DEF PoolTypes
    <3>3. call' = MarkCall(w, a, n + 1)
      BY <2>1, <2>3, <3>1
    <3>4. Marking'
      BY <2>1, <3>1, <3>3 DEF Marking
    <3> QED
      BY <2>3, <3>2, <3>4 DEF PoolTypes
  <2> QED
    BY <2>1, <2>2, <2>3
<1>3. CASE Clear
  <2>1. PICK w \in Program, a \in Table, n \in Nat, l \in Nat :
             /\ call = ClearCall(w, a, n, l)
             /\ UNCHANGED <<ptr, owned, leaked, raced>>
             /\ \/ n = l /\ call' = NoCall /\ memmap' = memmap
                \/ /\ n # l /\ call' = ClearCall(w, a, n + 1, l)
                   /\ memmap' = [b \in Table |-> IF b = a + n THEN 0 ELSE memmap[b]]
    BY <1>3, ClearDoes
  <2>2. memmap' \in [Table -> Nat]
    BY <2>1 DEF PoolTypes
  <2>3. n + 1 \in Nat
    OBVIOUS
  <2>4. call' = NoCall \/ Clearing'
    BY <2>1, <2>3 DEF Clearing
  <2> QED
    BY <2>1, <2>2, <2>4 DEF PoolTypes
<1> QED
  BY <1>1, <1>2, <1>3 DEF PoolStep

LEMMA MallocDoes ==
    ASSUME NEW w \in Program, Malloc(w)
    PROVE  /\ call = NoCall /\ call' = ScanCall(w, Blocks - 1, 0)
           /\ UNCHANGED <<memmap, ptr, owned, leaked, raced>>
BY DEF Malloc, ScanCall

LEMMA FreeDoes ==
    ASSUME NEW w \in Program, FreeCall(w)
    PROVE  /\ call = NoCall /\ UNCHANGED <<memmap, ptr, leaked, raced>>
           /\ \/ ptr[w] = NULL /\ UNCHANGED <<owned, call>>
              \/ /\ ptr[w] # NULL /\ owned' = owned \ {w}
                 /\ call' = ClearCall(w, ptr[w], 0, memmap[ptr[w]])
BY DEF FreeCall, ClearCall

LEMMA MallocTypes ==
    ASSUME PoolTypes, NEW w \in Program, Malloc(w)
    PROVE  PoolTypes'
<1>1. call' = ScanCall(w, Blocks - 1, 0) /\ UNCHANGED <<memmap, ptr, owned, leaked, raced>>
  BY MallocDoes
<1>2. Blocks - 1 \in Table \cup {NULL} /\ 0 \in Nat /\ 0 < Size[w] /\ (Blocks - 1) + 1 + 0 <= Blocks
  BY PoolConstants
<1>3. Scanning'
  BY <1>1, <1>2 DEF Scanning
<1> QED
  BY <1>1, <1>3 DEF PoolTypes

LEMMA FreeTypes ==
    ASSUME PoolTypes, NEW w \in Program, FreeCall(w)
    PROVE  PoolTypes'
<1>1. CASE ptr[w] = NULL
  BY <1>1, FreeDoes DEF PoolTypes, Scanning, Marking, Clearing
<1>2. CASE ptr[w] # NULL
  <2>1. /\ UNCHANGED <<memmap, ptr, leaked, raced>> /\ owned' = owned \ {w}
        /\ call' = ClearCall(w, ptr[w], 0, memmap[ptr[w]])
    BY <1>2, FreeDoes
  <2>2. ptr[w] \in Table /\ memmap[ptr[w]] \in Nat /\ 0 \in Nat
    BY <1>2, PoolConstants DEF PoolTypes
  <2>3. Clearing'
    BY <2>1, <2>2 DEF Clearing
  <2> QED
    BY <2>1, <2>3 DEF PoolTypes
<1> QED
  BY <1>1, <1>2

-----------------------------------------------------------------------------
(* The console's calls.                                                      *)

LEMMA ConsoleMallocDoes ==
    ASSUME NEW k \in Console, ConsoleMalloc(k), PoolTypes
    PROVE  /\ leaked' = IF k \in owned THEN leaked \cup Held(k) ELSE leaked
           /\ call' = call
           /\ \/ ptr' = [ptr EXCEPT ![k] = NULL] /\ owned' = owned \ {k} /\ UNCHANGED <<memmap, raced>>
              \/ \E o \in Table :
                   /\ o + Size[k] <= Blocks
                   /\ \A b \in Run(o, Size[k]) : b \in Table /\ memmap[b] = 0
                   /\ memmap' = [b \in Table |-> IF b \in Run(o, Size[k]) THEN Size[k] ELSE memmap[b]]
                   /\ ptr' = [ptr EXCEPT ![k] = o]
                   /\ owned' = owned \cup {k}
                   /\ raced' = (raced \/ Counted \cap Run(o, Size[k]) # {})
<1>0. Size[k] \in Nat /\ Size[k] # 0
  BY PoolConstants
<1>1. CASE Fits(Size[k]) = {}
  BY <1>1 DEF ConsoleMalloc
<1>2. CASE Fits(Size[k]) # {}
  <2>1. PICK o \in Fits(Size[k]) :
          /\ memmap' = [b \in Table |-> IF b \in Run(o, Size[k]) THEN Size[k] ELSE memmap[b]]
          /\ ptr' = [ptr EXCEPT ![k] = o]
          /\ owned' = owned \cup {k}
          /\ raced' = (raced \/ Counted \cap Run(o, Size[k]) # {})
    BY <1>2 DEF ConsoleMalloc
  <2>2. o \in 0 .. Blocks - Size[k] /\ \A b \in Run(o, Size[k]) : memmap[b] = 0
    BY DEF Fits, IsFree
  <2>3. o \in Table /\ o + Size[k] <= Blocks /\ \A b \in Run(o, Size[k]) : b \in Table
    BY <1>0, <2>2, PoolConstants DEF Run
  <2>4. leaked' = (IF k \in owned THEN leaked \cup Held(k) ELSE leaked) /\ call' = call
    BY DEF ConsoleMalloc
  <2> QED
    BY <2>1, <2>2, <2>3, <2>4
<1> QED
  BY <1>1, <1>2

LEMMA SameCall ==
    ASSUME call' = call
    PROVE  /\ Scanning' <=> Scanning
           /\ Marking' <=> Marking
           /\ Clearing' <=> Clearing
BY DEF Scanning, Marking, Clearing

LEMMA ConsoleMallocTypes ==
    ASSUME PoolTypes, NEW k \in Console, ConsoleMalloc(k)
    PROVE  PoolTypes'
<1>0. k \in Owners /\ Size[k] \in Nat
  BY PoolConstants
<1>1. leaked' \subseteq Table /\ call' = call
  BY <1>0, ConsoleMallocDoes, HeldInTable DEF PoolTypes
<1>2. CASE ptr' = [ptr EXCEPT ![k] = NULL] /\ owned' = owned \ {k} /\ UNCHANGED <<memmap, raced>>
  <2>1. /\ ptr' \in [Owners -> Table \cup {NULL}]
        /\ \A v \in Owners : ptr'[v] = IF v = k THEN NULL ELSE ptr[v]
    BY <1>2 DEF PoolTypes
  <2> QED
    BY <1>1, <1>2, <2>1, SameCall DEF PoolTypes
<1>3. ASSUME NEW o \in Table, o + Size[k] <= Blocks,
             memmap' = [b \in Table |-> IF b \in Run(o, Size[k]) THEN Size[k] ELSE memmap[b]],
             ptr' = [ptr EXCEPT ![k] = o], owned' = owned \cup {k},
             raced' = (raced \/ Counted \cap Run(o, Size[k]) # {})
      PROVE  PoolTypes'
  <2>1. /\ ptr' \in [Owners -> Table \cup {NULL}]
        /\ \A v \in Owners : ptr'[v] = IF v = k THEN o ELSE ptr[v]
    BY <1>3 DEF PoolTypes
  <2>2. memmap' \in [Table -> Nat] /\ o # NULL
    BY <1>0, <1>3, PoolConstants DEF PoolTypes
  <2>3. raced' \in BOOLEAN /\ owned' \subseteq Owners
    BY <1>0, <1>3 DEF PoolTypes
  <2>4. \A v \in owned' : ptr'[v] # NULL
    BY <1>0, <1>3, <2>1, <2>2 DEF PoolTypes
  <2>5. \A v \in Owners : ptr'[v] # NULL => ptr'[v] + Size[v] <= Blocks
    BY <1>0, <1>3, <2>1 DEF PoolTypes
  <2> QED
    BY <1>1, <2>1, <2>2, <2>3, <2>4, <2>5, SameCall DEF PoolTypes
<1> QED
  BY <1>2, <1>3, ConsoleMallocDoes

LEMMA ConsoleFreeTypes ==
    ASSUME PoolTypes, NEW k \in Console, ConsoleFree(k)
    PROVE  PoolTypes'
<1>1. /\ owned' = owned \ {k} /\ UNCHANGED <<ptr, leaked, call, raced>>
      /\ memmap' = [b \in Table |-> IF b \in Run(ptr[k], memmap[ptr[k]]) THEN 0 ELSE memmap[b]]
  BY DEF ConsoleFree
<1>2. memmap' \in [Table -> Nat]
  BY <1>1 DEF PoolTypes
<1> QED
  BY <1>1, <1>2, SameCall DEF PoolTypes

-----------------------------------------------------------------------------
(* Owners: a marked block leaked, is in the run of one owner, or is in the part of the
   call under way that is marked and belongs to nobody yet, or no more.                *)

InPart(b) ==
    \/ call.op = "mark" /\ call.at <= b /\ b < call.at + call.n
    \/ call.op = "clear" /\ call.at + call.n <= b /\ b < call.at + call.len

(* The blocks the call has found free and not marked yet. *)
InCounted(b) ==
    \/ call.op = "scan" /\ call.at < b /\ b <= call.at + call.n
    \/ call.op = "mark" /\ call.at + call.n <= b /\ b < call.at + Size[call.who]

HeldBy(w, b) == ptr[w] <= b /\ b < ptr[w] + Size[w]
HasOwner(b) == \E w \in owned : HeldBy(w, b)

PoolOwners ==
    /\ \A b \in Table : memmap[b] # 0 <=> b \in leaked \/ HasOwner(b) \/ InPart(b)
    /\ \A b \in Table : InPart(b) => b \notin leaked /\ ~HasOwner(b)
    /\ \A b \in leaked : ~HasOwner(b)
    /\ \A b \in Table : \A v, w \in owned : HeldBy(v, b) /\ HeldBy(w, b) => v = w
    /\ \A w \in owned : \A b \in Table : HeldBy(w, b) => memmap[b] = Size[w]
    /\ \A b \in Table : InCounted(b) => memmap[b] = 0
    /\ call.op = "mark" => \A b \in Table : InPart(b) => memmap[b] = Size[call.who]
    /\ call.op = "clear" => call.n <= call.len

LEMMA HeldIs ==
    ASSUME PoolTypes, NEW w \in Owners, ptr[w] # NULL
    PROVE  \A b : b \in Held(w) <=> b \in Table /\ HeldBy(w, b)
<1>1. ptr[w] \in Table /\ ptr[w] + Size[w] <= Blocks /\ Size[w] \in Nat
  BY PoolConstants DEF PoolTypes
<1> QED
  BY <1>1, PoolConstants DEF Held, Run, HeldBy

(* A call that returns with a run it has marked, or with nothing. *)
LEMMA ReturnOwners ==
    ASSUME PoolTypes, PoolOwners, NEW w \in Program, NEW o \in Table \cup {NULL},
           Return(w, o),
           \A b \in Table : InPart(b) <=> o # NULL /\ o <= b /\ b < o + Size[w],
           \A b \in Table : InPart(b) => memmap[b] = Size[w]
    PROVE  PoolOwners'
<1>0. /\ w \in Owners /\ ptr' = [ptr EXCEPT ![w] = o] /\ memmap' = memmap /\ call' = NoCall
      /\ leaked' = IF w \in owned THEN leaked \cup Held(w) ELSE leaked
      /\ owned' = IF o = NULL THEN owned \ {w} ELSE owned \cup {w}
  BY PoolConstants DEF Return
<1>1. \A b : ~InPart(b)' /\ ~InCounted(b)'
  BY <1>0, CallFields DEF InPart, InCounted
<1>2. \A v \in Owners : ptr'[v] = IF v = w THEN o ELSE ptr[v]
  BY <1>0 DEF PoolTypes
<1>3. \A b \in Table : b \in leaked' <=> b \in leaked \/ (w \in owned /\ HeldBy(w, b))
  BY <1>0, HeldIs DEF PoolTypes
<1>4. \A v \in owned', b \in Table :
         HeldBy(v, b)' <=> \/ v # w /\ v \in owned /\ HeldBy(v, b)
                           \/ v = w /\ InPart(b)
  BY <1>0, <1>2 DEF HeldBy, PoolTypes
<1>5. \A b \in Table : HasOwner(b)' <=> InPart(b) \/ \E v \in owned : v # w /\ HeldBy(v, b)
  BY <1>0, <1>4 DEF HasOwner
<1>6. \A b \in Table : memmap'[b] # 0 <=> b \in leaked' \/ HasOwner(b)' \/ InPart(b)'
  BY <1>0, <1>1, <1>3, <1>5 DEF PoolOwners, HasOwner
<1>7. leaked' \subseteq Table
  BY <1>0, HeldIs DEF PoolTypes
<1>8. \A b \in leaked' : ~HasOwner(b)'
  BY <1>3, <1>5, <1>7 DEF PoolOwners, HasOwner
<1>9. \A b \in Table : \A v, u \in owned' : HeldBy(v, b)' /\ HeldBy(u, b)' => v = u
  BY <1>0, <1>4 DEF PoolOwners, HasOwner
<1>10. \A v \in owned' : \A b \in Table : HeldBy(v, b)' => memmap'[b] = Size[v]
  BY <1>0, <1>4 DEF PoolOwners
<1> QED
  BY <1>0, <1>1, <1>6, <1>8, <1>9, <1>10, CallFields DEF PoolOwners

(* Where only the call goes on. *)
LEMMA SameOwners ==
    ASSUME PoolOwners, UNCHANGED <<memmap, ptr, owned, leaked>>,
           \A b \in Table : InPart(b)' <=> InPart(b),
           \A b \in Table : InCounted(b)' => memmap[b] = 0,
           call'.op = "mark" => \A b \in Table : ~InPart(b),
           call'.op # "clear"
    PROVE  PoolOwners'
BY DEF PoolOwners, HasOwner, HeldBy

LEMMA MallocOwners ==
    ASSUME PoolOwners, PoolTypes, NEW w \in Program, Malloc(w)
    PROVE  PoolOwners'
<1>1. call = NoCall /\ call' = ScanCall(w, Blocks - 1, 0) /\ UNCHANGED <<memmap, ptr, owned, leaked>>
  BY MallocDoes
<1>2. /\ call.op = "none" /\ call'.op = "scan" /\ call'.at = Blocks - 1 /\ call'.n = 0
  BY <1>1, CallFields
<1>3. \A b \in Table : ~InPart(b)' /\ ~InPart(b) /\ ~InCounted(b)'
  BY <1>2, PoolConstants DEF InPart, InCounted
<1> QED
  BY <1>1, <1>2, <1>3, SameOwners

(* myfree of what the program owns. *)
LEMMA FreeOwners ==
    ASSUME PoolOwners, PoolTypes, NEW w \in Program, FreeCall(w), ptr[w] # NULL => w \in owned
    PROVE  PoolOwners'
<1>0. w \in Owners /\ Size[w] \in Nat /\ Size[w] # 0
  BY PoolConstants
<1>1. CASE ptr[w] = NULL
  BY <1>1, FreeDoes DEF PoolOwners, InPart, InCounted, HasOwner, HeldBy
<1>2. CASE ptr[w] # NULL
  <2>1. /\ call = NoCall /\ UNCHANGED <<memmap, ptr, leaked, raced>> /\ owned' = owned \ {w}
        /\ call' = ClearCall(w, ptr[w], 0, memmap[ptr[w]])
    BY <1>2, FreeDoes
  <2>0. ptr[w] \in Table /\ ptr[w] \in Int /\ w \in owned
    BY <1>0, <1>2, PoolConstants DEF PoolTypes
  <2>2. ptr[w] \in Table /\ HeldBy(w, ptr[w]) /\ w \in owned
    BY <1>0, <2>0 DEF HeldBy
  <2>3. memmap[ptr[w]] = Size[w]
    BY <2>2 DEF PoolOwners
  <2>4. /\ call.op = "none" /\ call'.op = "clear" /\ call'.at = ptr[w] /\ call'.n = 0
        /\ call'.len = Size[w]
    BY <2>1, <2>3, CallFields
  <2>5. \A b \in Table : (InPart(b)' <=> HeldBy(w, b)) /\ ~InPart(b) /\ ~InCounted(b)'
    BY <1>0, <2>2, <2>4, PoolConstants DEF InPart, InCounted, HeldBy
  <2>6. \A b : HasOwner(b)' <=> \E v \in owned : v # w /\ HeldBy(v, b)
    BY <2>1 DEF HasOwner, HeldBy
  <2>7. \A b \in Table : HasOwner(b) <=> HasOwner(b)' \/ InPart(b)'
    BY <2>2, <2>5, <2>6 DEF HasOwner
  <2>8. \A b \in Table : ~(HasOwner(b)' /\ InPart(b)')
    BY <2>2, <2>5, <2>6 DEF PoolOwners
  <2>9. \A b \in leaked' : ~HasOwner(b)'
    BY <2>1, <2>6 DEF PoolOwners, HasOwner
  <2>10. \A b \in Table : InPart(b)' => b \notin leaked'
    BY <2>1, <2>2, <2>5 DEF PoolOwners, HasOwner
  <2>11. \A b \in Table : memmap'[b] # 0 <=> b \in leaked' \/ HasOwner(b)' \/ InPart(b)'
    BY <2>1, <2>5, <2>7 DEF PoolOwners
  <2>12. \A b \in Table : \A u, v \in owned' : HeldBy(u, b)' /\ HeldBy(v, b)' => u = v
    BY <2>1 DEF PoolOwners, HeldBy
  <2>13. \A v \in owned' : \A b \in Table : HeldBy(v, b)' => memmap'[b] = Size[v]
    BY <2>1 DEF PoolOwners, HeldBy
  <2> QED
    BY <1>0, <2>4, <2>5, <2>8, <2>9, <2>10, <2>11, <2>12, <2>13 DEF PoolOwners
<1> QED
  BY <1>1, <1>2

LEMMA PoolStepOwners ==
    ASSUME PoolOwners, PoolTypes, PoolStep
    PROVE  PoolOwners'
<1>1. CASE Scan
  <2>1. PICK w \in Program, a \in Table \cup {NULL}, n \in Nat :
             /\ call = ScanCall(w, a, n) /\ n < Size[w] /\ a + 1 + n <= Blocks
             /\ \/ a = NULL /\ Return(w, NULL)
                \/ /\ a \in Table /\ UNCHANGED <<memmap, ptr, owned, leaked, raced>>
                   /\ \/ memmap[a] = 0 /\ n + 1 = Size[w] /\ call' = MarkCall(w, a, 0)
                      \/ memmap[a] = 0 /\ n + 1 < Size[w] /\ call' = ScanCall(w, a - 1, n + 1)
                      \/ memmap[a] # 0 /\ call' = ScanCall(w, a - 1, 0)
    BY <1>1, ScanDoes
  <2>2. /\ call.op = "scan" /\ call.at = a /\ call.n = n
        /\ \A b \in Table : ~InPart(b)
    BY <2>1, CallFields DEF InPart
  <2>3. CASE a = NULL /\ Return(w, NULL)
    BY <2>2, <2>3, ReturnOwners
  <2>4. CASE a \in Table /\ UNCHANGED <<memmap, ptr, owned, leaked, raced>>
    <3>0. a \in Int /\ Table \subseteq Int /\ Size[w] \in Nat
          /\ \A b \in Table : a < b /\ b <= a + n => memmap[b] = 0
      BY <2>2, <2>4, PoolConstants DEF PoolOwners, InCounted
    <3>1. CASE memmap[a] = 0 /\ n + 1 = Size[w] /\ call' = MarkCall(w, a, 0)
      <4>1. call'.op = "mark" /\ call'.at = a /\ call'.n = 0 /\ call'.who = w
        BY <3>1, CallFields
      <4>2. \A b \in Table : ~InPart(b)'
        BY <3>0, <4>1 DEF InPart
      <4>3. \A b \in Table : InCounted(b)' => memmap[b] = 0
        <5> SUFFICES ASSUME NEW b \in Table, InCounted(b)' PROVE memmap[b] = 0
          OBVIOUS
        <5>1. a <= b /\ b < a + Size[w]
          BY <3>0, <4>1 DEF InCounted
        <5> QED
          BY <3>0, <3>1, <5>1
      <4> QED
        BY <2>2, <2>4, <4>1, <4>2, <4>3, SameOwners
    <3>2. CASE memmap[a] = 0 /\ call' = ScanCall(w, a - 1, n + 1)
      <4>1. call'.op = "scan" /\ call'.at = a - 1 /\ call'.n = n + 1
        BY <3>2, CallFields
      <4>2. \A b \in Table : ~InPart(b)'
        BY <4>1 DEF InPart
      <4>3. \A b \in Table : InCounted(b)' => memmap[b] = 0
        BY <3>0, <3>2, <4>1 DEF InCounted
      <4> QED
        BY <2>2, <2>4, <4>1, <4>2, <4>3, SameOwners
    <3>3. CASE call' = ScanCall(w, a - 1, 0)
      <4>1. call'.op = "scan" /\ call'.at = a - 1 /\ call'.n = 0
        BY <3>3, CallFields
      <4>2. \A b \in Table : ~InPart(b)' /\ ~InCounted(b)'
        BY <3>0, <4>1 DEF InPart, InCounted
      <4> QED
        BY <2>2, <2>4, <4>1, <4>2, SameOwners
    <3> QED
      BY <2>1, <2>4, <3>1, <3>2, <3>3, PoolConstants
  <2> QED
    BY <2>1, <2>3, <2>4
<1>2. CASE Mark
  <2>1. PICK w \in Program, a \in Table, n \in Nat :
             /\ call = MarkCall(w, a, n) /\ n <= Size[w] /\ a + Size[w] <= Blocks
             /\ \/ n = Size[w] /\ Return(w, a)
                \/ /\ n < Size[w] /\ UNCHANGED <<ptr, owned, leaked, raced>>
                   /\ memmap' = [memmap EXCEPT ![a + n] = Size[w]]
                   /\ call' = MarkCall(w, a, n + 1)
    BY <1>2, MarkDoes
  <2>2. /\ call.op = "mark" /\ call.at = a /\ call.n = n /\ call.who = w
        /\ a \in Int /\ Table \subseteq Int /\ Size[w] \in Nat /\ a # NULL
    BY <2>1, CallFields, PoolConstants
  <2>3. \A b \in Table : InPart(b) <=> a <= b /\ b < a + n
    BY <2>2 DEF InPart
  <2>4. CASE n = Size[w] /\ Return(w, a)
    <3>1. \A b \in Table : InPart(b) => memmap[b] = Size[w]
      BY <2>2 DEF PoolOwners
    <3> QED
      BY <2>2, <2>3, <2>4, <3>1, ReturnOwners
  <2>5. CASE n < Size[w] /\ UNCHANGED <<ptr, owned, leaked, raced>>
    <3>0. /\ memmap' = [memmap EXCEPT ![a + n] = Size[w]]
          /\ call' = MarkCall(w, a, n + 1)
      BY <2>1, <2>5, <2>2
    <3>1. /\ a + n \in Table /\ Size[w] # 0
          /\ \A b \in Table : memmap'[b] = IF b = a + n THEN Size[w] ELSE memmap[b]
      BY <2>1, <2>2, <2>5, <3>0, PoolConstants DEF PoolTypes
    <3>2. call'.op = "mark" /\ call'.at = a /\ call'.n = n + 1 /\ call'.who = w
      BY <3>0, CallFields
    <3>3. \A b \in Table : InPart(b)' <=> InPart(b) \/ b = a + n
      BY <2>2, <2>3, <3>2 DEF InPart
    <3>4. /\ memmap[a + n] = 0
          /\ \A b \in Table : InCounted(b)' => InCounted(b) /\ b # a + n
      BY <2>2, <2>5, <3>1, <3>2 DEF PoolOwners, InCounted
    <3>5. a + n \notin leaked /\ ~HasOwner(a + n) /\ ~InPart(a + n)
      BY <3>1, <3>4 DEF PoolOwners
    <3>6. \A b : HasOwner(b)' <=> HasOwner(b)
      BY <2>5 DEF HasOwner, HeldBy
    <3>7. \A b \in Table : memmap'[b] # 0 <=> b \in leaked' \/ HasOwner(b)' \/ InPart(b)'
      BY <2>5, <3>1, <3>3, <3>6 DEF PoolOwners
    <3>8. \A b \in Table : InPart(b)' => b \notin leaked' /\ ~HasOwner(b)'
      BY <2>5, <3>3, <3>5, <3>6 DEF PoolOwners
    <3>9. \A b \in leaked' : ~HasOwner(b)'
      BY <2>5, <3>6 DEF PoolOwners
    <3>10. \A b \in Table : \A u, v \in owned' : HeldBy(u, b)' /\ HeldBy(v, b)' => u = v
      BY <2>5 DEF PoolOwners, HeldBy
    <3>11. \A v \in owned' : \A b \in Table : HeldBy(v, b)' => memmap'[b] = Size[v]
      <4> SUFFICES ASSUME NEW v \in owned, NEW b \in Table, HeldBy(v, b) PROVE memmap'[b] = Size[v]
        BY <2>5 DEF HeldBy
      <4>1. b # a + n
        BY <3>5 DEF HasOwner
      <4> QED
        BY <3>1, <4>1 DEF PoolOwners
    <3>12. \A b \in Table : InCounted(b)' => memmap'[b] = 0
      BY <3>1, <3>4 DEF PoolOwners
    <3>13. \A b \in Table : InPart(b)' => memmap'[b] = Size[call'.who]
      BY <2>2, <3>1, <3>2, <3>3 DEF PoolOwners
    <3> QED
      BY <3>2, <3>7, <3>8, <3>9, <3>10, <3>11, <3>12, <3>13 DEF PoolOwners
  <2> QED
    BY <2>1, <2>4, <2>5
<1>3. CASE Clear
  <2>1. PICK w \in Program, a \in Table, n \in Nat, l \in Nat :
             /\ call = ClearCall(w, a, n, l)
             /\ UNCHANGED <<ptr, owned, leaked, raced>>
             /\ \/ n = l /\ call' = NoCall /\ memmap' = memmap
                \/ /\ n # l /\ call' = ClearCall(w, a, n + 1, l)
                   /\ memmap' = [b \in Table |-> IF b = a + n THEN 0 ELSE memmap[b]]
    BY <1>3, ClearDoes
  <2>2. call.op = "clear" /\ call.at = a /\ call.n = n /\ call.len = l /\ Table \subseteq Int
    BY <2>1, CallFields, PoolConstants
  <2>3. CASE n = l /\ call' = NoCall /\ memmap' = memmap
    <3>1. call'.op = "none"
      BY <2>3, CallFields
    <3>2. \A b \in Table : ~InPart(b) /\ ~InPart(b)' /\ ~InCounted(b)'
      BY <2>2, <2>3, <3>1 DEF InPart, InCounted
    <3> QED
      BY <2>1, <2>3, <3>1, <3>2, SameOwners
  <2>4. CASE /\ n # l /\ call' = ClearCall(w, a, n + 1, l)
             /\ memmap' = [b \in Table |-> IF b = a + n THEN 0 ELSE memmap[b]]
    <3>1. call'.op = "clear" /\ call'.at = a /\ call'.n = n + 1 /\ call'.len = l
      BY <2>4, CallFields
    <3>2. \A b \in Table : /\ InPart(b) <=> InPart(b)' \/ (b = a + n /\ n < l)
                           /\ InPart(b)' => b # a + n
                           /\ ~InCounted(b)'
      BY <2>2, <3>1 DEF InPart, InCounted
    <3>3. n + 1 <= l /\ n < l
      BY <2>2, <2>4 DEF PoolOwners
    <3>4. \A b \in Table : memmap'[b] = IF b = a + n THEN 0 ELSE memmap[b]
      BY <2>4
    <3>5. \A b : HasOwner(b)' <=> HasOwner(b)
      BY <2>1 DEF HasOwner, HeldBy
    <3>6. \A b \in Table : b = a + n => b \notin leaked /\ ~HasOwner(b)
      BY <3>2, <3>3 DEF PoolOwners
    <3>7. \A b \in Table : memmap'[b] # 0 <=> b \in leaked' \/ HasOwner(b)' \/ InPart(b)'
      <4> TAKE b \in Table
      <4>1. memmap[b] # 0 <=> b \in leaked \/ HasOwner(b) \/ InPart(b)
        BY DEF PoolOwners
      <4>2. leaked' = leaked
        BY <2>1
      <4>3. CASE b = a + n
        <5>1. memmap'[b] = 0
          BY <3>4, <4>3
        <5>2. b \notin leaked' /\ ~HasOwner(b)' /\ ~InPart(b)'
          BY <3>2, <3>5, <3>6, <4>2, <4>3
        <5> QED
          BY <5>1, <5>2
      <4>4. CASE b # a + n
        <5>1. memmap'[b] = memmap[b] /\ (InPart(b) <=> InPart(b)')
          BY <3>2, <3>4, <4>4
        <5> QED
          BY <3>5, <4>1, <4>2, <5>1
      <4> QED
        BY <4>3, <4>4
    <3>8. \A b \in Table : InPart(b)' => b \notin leaked' /\ ~HasOwner(b)'
      BY <2>1, <3>2, <3>5 DEF PoolOwners
    <3>9. \A b \in leaked' : ~HasOwner(b)'
      BY <2>1, <3>5 DEF PoolOwners
    <3>10. \A b \in Table : \A u, v \in owned' : HeldBy(u, b)' /\ HeldBy(v, b)' => u = v
      BY <2>1 DEF PoolOwners, HeldBy
    <3>11. \A v \in owned' : \A b \in Table : HeldBy(v, b)' => memmap'[b] = Size[v]
      <4> SUFFICES ASSUME NEW v \in owned, NEW b \in Table, HeldBy(v, b) PROVE memmap'[b] = Size[v]
        BY <2>1 DEF HeldBy
      <4>1. b # a + n
        BY <3>6 DEF HasOwner
      <4> QED
        BY <3>4, <4>1 DEF PoolOwners
    <3> QED
      BY <3>1, <3>2, <3>3, <3>7, <3>8, <3>9, <3>10, <3>11 DEF PoolOwners
  <2> QED
    BY <2>1, <2>3, <2>4
<1> QED
  BY <1>1, <1>2, <1>3 DEF PoolStep

LEMMA CountedIs ==
    ASSUME PoolTypes
    PROVE  \A b \in Table : InCounted(b) => b \in Counted
<1>0. Table \subseteq Int
  BY PoolConstants
<1>1. CASE Scanning
  <2>1. PICK w \in Program, a \in Table \cup {NULL}, n \in Nat : call = ScanCall(w, a, n)
    BY <1>1 DEF Scanning
  <2>2. call.op = "scan" /\ call.at = a /\ call.n = n /\ a \in Int
    BY <2>1, CallFields, PoolConstants
  <2>3. Counted = Run(a + 1, n)
    BY <2>2 DEF Counted
  <2> QED
    BY <1>0, <2>2, <2>3 DEF InCounted, Run
<1>2. CASE Marking
  <2>1. PICK w \in Program, a \in Table, n \in Nat : call = MarkCall(w, a, n)
    BY <1>2 DEF Marking
  <2>2. call.op = "mark" /\ call.at = a /\ call.n = n /\ call.who = w /\ a \in Int /\ Size[w] \in Nat
    BY <2>1, CallFields, PoolConstants
  <2>3. Counted = Run(a + n, Size[w] - n)
    BY <2>2 DEF Counted
  <2> QED
    BY <1>0, <2>2, <2>3 DEF InCounted, Run
<1>3. CASE call = NoCall \/ Clearing
  BY <1>3, CallFields DEF InCounted, Clearing
<1> QED
  BY <1>1, <1>2, <1>3 DEF PoolTypes

(* Where the call under way stands still. *)
LEMMA SameParts ==
    ASSUME call' = call
    PROVE  \A b : (InPart(b)' <=> InPart(b)) /\ (InCounted(b)' <=> InCounted(b))
BY DEF InPart, InCounted

LEMMA ConsoleMallocOwners ==
    ASSUME PoolOwners, PoolTypes, NEW k \in Console, ConsoleMalloc(k), ~raced'
    PROVE  PoolOwners'
<1>0. k \in Owners /\ Size[k] \in Nat /\ Size[k] # 0 /\ Table \subseteq Int
  BY PoolConstants
<1>1. /\ leaked' = IF k \in owned THEN leaked \cup Held(k) ELSE leaked
      /\ call' = call
  BY ConsoleMallocDoes
<1>2. \A b \in Table : b \in leaked' <=> b \in leaked \/ (k \in owned /\ HeldBy(k, b))
  BY <1>0, <1>1, HeldIs DEF PoolTypes
<1>3. leaked' \subseteq Table
  BY <1>0, <1>1, HeldIs DEF PoolTypes
<1>4. \A b : (InPart(b)' <=> InPart(b)) /\ (InCounted(b)' <=> InCounted(b))
  BY <1>1, SameParts
<1>5. CASE ptr' = [ptr EXCEPT ![k] = NULL] /\ owned' = owned \ {k} /\ UNCHANGED <<memmap, raced>>
  <2>1. \A v \in owned' : \A b : HeldBy(v, b)' <=> HeldBy(v, b)
    BY <1>5 DEF HeldBy, PoolTypes
  <2>2. \A b : HasOwner(b)' <=> \E v \in owned : v # k /\ HeldBy(v, b)
    BY <1>5, <2>1 DEF HasOwner
  <2>3. \A b \in Table : memmap'[b] # 0 <=> b \in leaked' \/ HasOwner(b)' \/ InPart(b)'
    BY <1>2, <1>4, <1>5, <2>2 DEF PoolOwners, HasOwner
  <2>4. \A b \in Table : InPart(b)' => b \notin leaked' /\ ~HasOwner(b)'
    BY <1>2, <1>4, <2>2 DEF PoolOwners, HasOwner
  <2>5. \A b \in leaked' : ~HasOwner(b)'
    BY <1>2, <1>3, <2>2 DEF PoolOwners, HasOwner
  <2>6. \A b \in Table : \A u, v \in owned' : HeldBy(u, b)' /\ HeldBy(v, b)' => u = v
    BY <1>5, <2>1 DEF PoolOwners
  <2>7. \A v \in owned' : \A b \in Table : HeldBy(v, b)' => memmap'[b] = Size[v]
    BY <1>5, <2>1 DEF PoolOwners
  <2>8. \A b \in Table : InCounted(b)' => memmap'[b] = 0
    BY <1>4, <1>5 DEF PoolOwners
  <2>9. call'.op = "mark" => \A b \in Table : InPart(b)' => memmap'[b] = Size[call'.who]
    BY <1>1, <1>4, <1>5 DEF PoolOwners
  <2>10. call'.op = "clear" => call'.n <= call'.len
    BY <1>1 DEF PoolOwners
  <2> QED
    BY <2>3, <2>4, <2>5, <2>6, <2>7, <2>8, <2>9, <2>10 DEF PoolOwners
<1>6. ASSUME NEW o \in Table, o + Size[k] <= Blocks,
             \A b \in Run(o, Size[k]) : b \in Table /\ memmap[b] = 0,
             memmap' = [b \in Table |-> IF b \in Run(o, Size[k]) THEN Size[k] ELSE memmap[b]],
             ptr' = [ptr EXCEPT ![k] = o], owned' = owned \cup {k},
             raced' = (raced \/ Counted \cap Run(o, Size[k]) # {})
      PROVE  PoolOwners'
  <2> DEFINE New(b) == o <= b /\ b < o + Size[k]
  <2>0. \A b \in Table : b \in Run(o, Size[k]) <=> New(b)
    BY <1>0 DEF Run
  <2>1. \A b \in Table : memmap'[b] = IF New(b) THEN Size[k] ELSE memmap[b]
    BY <1>6, <2>0
  <2>2. \A b \in Table : New(b) => ~InCounted(b) /\ memmap[b] = 0
    BY <1>6, <2>0, CountedIs
  <2>3. \A v \in owned' : \A b : HeldBy(v, b)' <=> (v = k /\ New(b)) \/ (v # k /\ v \in owned /\ HeldBy(v, b))
    BY <1>0, <1>6 DEF HeldBy, PoolTypes
  <2> HIDE DEF New
  <2>4. \A b : HasOwner(b)' <=> New(b) \/ \E v \in owned : v # k /\ HeldBy(v, b)
    BY <1>6, <2>3 DEF HasOwner
  <2>5. \A b \in Table : New(b) => b \notin leaked /\ ~HasOwner(b) /\ ~InPart(b)
    BY <2>2 DEF PoolOwners
  <2>6. \A b \in Table : memmap'[b] # 0 <=> b \in leaked' \/ HasOwner(b)' \/ InPart(b)'
    BY <1>0, <1>2, <1>4, <2>1, <2>4 DEF PoolOwners, HasOwner
  <2>7. \A b \in Table : InPart(b)' => b \notin leaked' /\ ~HasOwner(b)'
    BY <1>2, <1>4, <2>4, <2>5 DEF PoolOwners, HasOwner
  <2>8. \A b \in leaked' : ~HasOwner(b)'
    BY <1>2, <1>3, <2>4, <2>5 DEF PoolOwners, HasOwner
  <2>9. \A b \in Table : \A u, v \in owned' : HeldBy(u, b)' /\ HeldBy(v, b)' => u = v
    BY <2>3, <2>5 DEF PoolOwners, HasOwner
  <2>10. \A v \in owned' : \A b \in Table : HeldBy(v, b)' => memmap'[b] = Size[v]
    <3> SUFFICES ASSUME NEW v \in owned', NEW b \in Table, HeldBy(v, b)' PROVE memmap'[b] = Size[v]
      OBVIOUS
    <3>1. CASE v = k /\ New(b)
      BY <2>1, <3>1
    <3>2. CASE v # k /\ v \in owned /\ HeldBy(v, b)
      BY <2>1, <2>5, <3>2 DEF PoolOwners, HasOwner
    <3> QED
      BY <2>3, <3>1, <3>2
  <2>11. \A b \in Table : InCounted(b)' => memmap'[b] = 0
    BY <1>4, <2>1, <2>2 DEF PoolOwners
  <2>12. call'.op = "mark" => \A b \in Table : InPart(b)' => memmap'[b] = Size[call'.who]
    BY <1>1, <1>4, <2>1, <2>5 DEF PoolOwners
  <2>13. call'.op = "clear" => call'.n <= call'.len
    BY <1>1 DEF PoolOwners
  <2> QED
    BY <2>6, <2>7, <2>8, <2>9, <2>10, <2>11, <2>12, <2>13 DEF PoolOwners
<1> QED
  BY <1>5, <1>6, ConsoleMallocDoes

LEMMA ConsoleFreeOwners ==
    ASSUME PoolOwners, PoolTypes, NEW k \in Console, ConsoleFree(k)
    PROVE  PoolOwners'
<1>0. k \in Owners /\ Size[k] \in Nat /\ Size[k] # 0 /\ Table \subseteq Int
  BY PoolConstants
<1>1. /\ k \in owned /\ owned' = owned \ {k} /\ UNCHANGED <<ptr, leaked, call, raced>>
      /\ memmap' = [b \in Table |-> IF b \in Run(ptr[k], memmap[ptr[k]]) THEN 0 ELSE memmap[b]]
  BY DEF ConsoleFree
<1>2. ptr[k] \in Table /\ ptr[k] \in Int
  BY <1>0, <1>1 DEF PoolTypes
<1>3. HeldBy(k, ptr[k])
  BY <1>0, <1>2 DEF HeldBy
<1>4. memmap[ptr[k]] = Size[k]
  BY <1>1, <1>2, <1>3 DEF PoolOwners
<1>5. \A b \in Table : b \in Run(ptr[k], Size[k]) <=> HeldBy(k, b)
  BY <1>0, <1>2 DEF Run, HeldBy
<1>6. \A b \in Table : memmap'[b] = IF HeldBy(k, b) THEN 0 ELSE memmap[b]
  BY <1>1, <1>4, <1>5
<1>7. \A v, b : HeldBy(v, b)' <=> HeldBy(v, b)
  BY <1>1 DEF HeldBy
<1>8. \A b : HasOwner(b)' <=> \E v \in owned : v # k /\ HeldBy(v, b)
  BY <1>1, <1>7 DEF HasOwner
<1>9. \A b : (InPart(b)' <=> InPart(b)) /\ (InCounted(b)' <=> InCounted(b))
  BY <1>1, SameParts
<1>10. \A b \in Table : HeldBy(k, b) => ~HasOwner(b)' /\ HasOwner(b)
  BY <1>1, <1>8 DEF PoolOwners, HasOwner
<1>11. \A b \in Table : memmap'[b] # 0 <=> b \in leaked' \/ HasOwner(b)' \/ InPart(b)'
  <2> TAKE b \in Table
  <2>1. memmap[b] # 0 <=> b \in leaked \/ HasOwner(b) \/ InPart(b)
    BY DEF PoolOwners
  <2>2. CASE HeldBy(k, b)
    <3>1. ~HasOwner(b)' /\ b \notin leaked /\ ~InPart(b) /\ memmap'[b] = 0
      BY <1>6, <1>10, <2>2 DEF PoolOwners
    <3> QED
      BY <1>1, <1>9, <3>1
  <2>3. CASE ~HeldBy(k, b)
    <3>1. memmap'[b] = memmap[b] /\ (HasOwner(b)' <=> HasOwner(b))
      BY <1>6, <1>8, <2>3 DEF HasOwner
    <3> QED
      BY <1>1, <1>9, <2>1, <3>1
  <2> QED
    BY <2>2, <2>3
<1>12. \A b \in Table : InPart(b)' => b \notin leaked' /\ ~HasOwner(b)'
  BY <1>1, <1>8, <1>9 DEF PoolOwners, HasOwner
<1>13. \A b \in leaked' : ~HasOwner(b)'
  BY <1>1, <1>8 DEF PoolOwners, HasOwner
<1>14. \A b \in Table : \A u, v \in owned' : HeldBy(u, b)' /\ HeldBy(v, b)' => u = v
  BY <1>1, <1>7 DEF PoolOwners
<1>15. \A v \in owned' : \A b \in Table : HeldBy(v, b)' => memmap'[b] = Size[v]
  BY <1>1, <1>6, <1>7 DEF PoolOwners
<1>16. \A b \in Table : InCounted(b)' => memmap'[b] = 0
  BY <1>6, <1>9 DEF PoolOwners
<1>17. call'.op = "mark" => \A b \in Table : InPart(b)' => memmap'[b] = Size[call'.who]
  BY <1>1, <1>6, <1>9, <1>10 DEF PoolOwners
<1>18. call'.op = "clear" => call'.n <= call'.len
  BY <1>1 DEF PoolOwners
<1> QED
  BY <1>11, <1>12, <1>13, <1>14, <1>15, <1>16, <1>17, <1>18 DEF PoolOwners

-----------------------------------------------------------------------------
(* The start: what it frees is nothing or its own.                           *)

Fresh(w) == ptr[w] = NULL \/ w \in owned
Calling(w) == call.op \in {"scan", "mark"} /\ call.who = w

Labels == {"eth", "lwip", "free", "reset", "link", "tcpip", "mbox_new",
           "started", "recvmbox_new"}

StartTypes ==
    /\ pc \in Labels
    /\ todo \in Seq(Program)
    /\ retry \in 0 .. MaxRetry /\ mailboxes \in 0 .. MaxMailboxes
    /\ link \in BOOLEAN /\ conFreed \in BOOLEAN

StartOwners ==
    /\ pc = "lwip" => \A w \in Range(LwipMemory) : w \in Range(todo) \/ Fresh(w) \/ Calling(w)
    /\ pc = "free" => /\ IsInjective(todo) /\ \A w \in Range(todo) : Fresh(w)
                      /\ call.op \in {"none", "clear"}
    /\ pc = "recvmbox_new" => Fresh("recvmbox") \/ Calling("recvmbox")

LEMMA TailOfTodo ==
    ASSUME NEW S, NEW s \in Seq(S), s # <<>>
    PROVE  /\ Head(s) \in S /\ Head(s) \in Range(s)
           /\ Tail(s) \in Seq(S)
           /\ \A x : x \in Range(s) <=> x = Head(s) \/ x \in Range(Tail(s))
           /\ IsInjective(s) => IsInjective(Tail(s)) /\ Head(s) \notin Range(Tail(s))
<1>1. /\ Len(s) \in Nat /\ Len(s) # 0 /\ DOMAIN s = 1 .. Len(s)
      /\ Tail(s) \in Seq(S) /\ Len(Tail(s)) = Len(s) - 1
      /\ \A i \in 1 .. Len(s) - 1 : Tail(s)[i] = s[i + 1]
      /\ Head(s) = s[1]
  OBVIOUS
<1>2. DOMAIN Tail(s) = 1 .. Len(s) - 1
  BY <1>1
<1>3. Head(s) \in S /\ Head(s) \in Range(s)
  BY <1>1 DEF Range
<1>4. \A x : x \in Range(s) <=> x = Head(s) \/ x \in Range(Tail(s))
  <2> TAKE x
  <2>1. ASSUME x \in Range(s) PROVE x = Head(s) \/ x \in Range(Tail(s))
    <3>1. PICK i \in 1 .. Len(s) : x = s[i]
      BY <1>1, <2>1 DEF Range
    <3>2. CASE i = 1
      BY <1>1, <3>1, <3>2
    <3>3. CASE i # 1
      <4>1. i - 1 \in 1 .. Len(s) - 1 /\ Tail(s)[i - 1] = s[i]
        BY <1>1, <3>3
      <4> QED
        BY <1>2, <3>1, <4>1 DEF Range
    <3> QED
      BY <3>2, <3>3
  <2>2. ASSUME x \in Range(Tail(s)) PROVE x \in Range(s)
    <3>1. PICK i \in 1 .. Len(s) - 1 : x = Tail(s)[i]
      BY <1>2, <2>2 DEF Range
    <3>2. i + 1 \in 1 .. Len(s) /\ x = s[i + 1]
      BY <1>1, <3>1
    <3> QED
      BY <1>1, <3>2 DEF Range
  <2> QED
    BY <1>3, <2>1, <2>2
<1>5. IsInjective(s) => IsInjective(Tail(s)) /\ Head(s) \notin Range(Tail(s))
  <2> HAVE IsInjective(s)
  <2>1. \A i, j \in 1 .. Len(s) : s[i] = s[j] => i = j
    BY <1>1 DEF IsInjective
  <2>2. \A i, j \in 1 .. Len(s) - 1 : Tail(s)[i] = Tail(s)[j] => i = j
    <3> SUFFICES ASSUME NEW i \in 1 .. Len(s) - 1, NEW j \in 1 .. Len(s) - 1,
                        Tail(s)[i] = Tail(s)[j]
                 PROVE  i = j
      OBVIOUS
    <3>1. i + 1 \in 1 .. Len(s) /\ j + 1 \in 1 .. Len(s) /\ s[i + 1] = s[j + 1]
      BY <1>1
    <3> QED
      BY <2>1, <3>1
  <2>3. Head(s) \notin Range(Tail(s))
    <3> SUFFICES ASSUME Head(s) \in Range(Tail(s)) PROVE FALSE
      OBVIOUS
    <3>1. PICK i \in 1 .. Len(s) - 1 : s[1] = Tail(s)[i]
      BY <1>1, <1>2 DEF Range
    <3>2. i + 1 \in 1 .. Len(s) /\ 1 \in 1 .. Len(s) /\ s[1] = s[i + 1] /\ i + 1 # 1
      BY <1>1, <3>1
    <3> QED
      BY <2>1, <3>2
  <2> QED
    BY <1>2, <2>2, <2>3 DEF IsInjective
<1> QED
  BY <1>1, <1>3, <1>4, <1>5

LEMMA ReturnFresh ==
    ASSUME PoolTypes, NEW w \in Program, NEW o \in Table \cup {NULL}, Return(w, o)
    PROVE  /\ Fresh(w)' /\ call'.op = "none"
           /\ \A v \in Program : Fresh(v) => Fresh(v)'
<1>1. w \in Owners /\ ptr' = [ptr EXCEPT ![w] = o] /\ call' = NoCall
      /\ owned' = IF o = NULL THEN owned \ {w} ELSE owned \cup {w}
  BY PoolConstants DEF Return
<1>2. \A v \in Owners : ptr'[v] = IF v = w THEN o ELSE ptr[v]
  BY <1>1 DEF PoolTypes
<1>3. Fresh(w)'
  BY <1>1, <1>2 DEF Fresh
<1>4. \A v \in Owners : v # w => (v \in owned' <=> v \in owned) /\ ptr'[v] = ptr[v]
  BY <1>1, <1>2
<1> QED
  BY <1>1, <1>3, <1>4, PoolConstants, CallFields DEF Fresh

LEMMA PoolStepFresh ==
    ASSUME PoolTypes, PoolStep
    PROVE  /\ \A v \in Program : Fresh(v) => Fresh(v)'
           /\ \A v : Calling(v) => Calling(v)' \/ Fresh(v)'
           /\ call.op \in {"none", "clear"} => call'.op \in {"none", "clear"}
<1>1. CASE Scan
  <2>1. PICK w \in Program, a \in Table \cup {NULL}, n \in Nat :
             /\ call = ScanCall(w, a, n) /\ n < Size[w] /\ a + 1 + n <= Blocks
             /\ \/ a = NULL /\ Return(w, NULL)
                \/ /\ a \in Table /\ UNCHANGED <<memmap, ptr, owned, leaked, raced>>
                   /\ \/ memmap[a] = 0 /\ n + 1 = Size[w] /\ call' = MarkCall(w, a, 0)
                      \/ memmap[a] = 0 /\ n + 1 < Size[w] /\ call' = ScanCall(w, a - 1, n + 1)
                      \/ memmap[a] # 0 /\ call' = ScanCall(w, a - 1, 0)
    BY <1>1, ScanDoes
  <2>2. call.op = "scan" /\ call.who = w
    BY <2>1, CallFields
  <2>3. CASE a = NULL /\ Return(w, NULL)
    BY <2>2, <2>3, ReturnFresh DEF Calling
  <2>4. CASE a \in Table /\ UNCHANGED <<memmap, ptr, owned, leaked, raced>>
    <3>1. CASE a # NULL
      <4>1. call'.op \in {"scan", "mark"} /\ call'.who = w
        BY <2>1, <2>4, <3>1, CallFields
      <4> QED
        BY <2>2, <2>4, <4>1 DEF Calling, Fresh
    <3> QED
      BY <2>4, <3>1, PoolConstants
  <2> QED
    BY <2>1, <2>3, <2>4
<1>2. CASE Mark
  <2>1. PICK w \in Program, a \in Table, n \in Nat :
             /\ call = MarkCall(w, a, n) /\ n <= Size[w] /\ a + Size[w] <= Blocks
             /\ \/ n = Size[w] /\ Return(w, a)
                \/ /\ n < Size[w] /\ UNCHANGED <<ptr, owned, leaked, raced>>
                   /\ memmap' = [memmap EXCEPT ![a + n] = Size[w]]
                   /\ call' = MarkCall(w, a, n + 1)
    BY <1>2, MarkDoes
  <2>2. call.op = "mark" /\ call.who = w
    BY <2>1, CallFields
  <2>3. CASE n = Size[w] /\ Return(w, a)
    BY <2>2, <2>3, ReturnFresh DEF Calling
  <2>4. CASE n < Size[w] /\ UNCHANGED <<ptr, owned, leaked, raced>> /\ call' = MarkCall(w, a, n + 1)
    <3>1. call'.op = "mark" /\ call'.who = w
      BY <2>4, CallFields
    <3> QED
      BY <2>2, <2>4, <3>1 DEF Calling, Fresh
  <2> QED
    BY <2>1, <2>3, <2>4
<1>3. CASE Clear
  <2>1. PICK w \in Program, a \in Table, n \in Nat, l \in Nat :
             /\ call = ClearCall(w, a, n, l)
             /\ UNCHANGED <<ptr, owned, leaked, raced>>
             /\ \/ n = l /\ call' = NoCall /\ memmap' = memmap
                \/ /\ n # l /\ call' = ClearCall(w, a, n + 1, l)
                   /\ memmap' = [b \in Table |-> IF b = a + n THEN 0 ELSE memmap[b]]
    BY <1>3, ClearDoes
  <2>2. call.op = "clear" /\ call'.op \in {"none", "clear"}
    BY <2>1, CallFields
  <2> QED
    BY <2>1, <2>2 DEF Calling, Fresh
<1> QED
  BY <1>1, <1>2, <1>3 DEF PoolStep

LEMMA ConsoleFresh ==
    ASSUME PoolTypes, NEW k \in Console, ConsoleMalloc(k) \/ ConsoleFree(k)
    PROVE  /\ call' = call
           /\ \A v \in Program : Fresh(v)' <=> Fresh(v)
<1>0. k \notin Program /\ k \in Owners /\ Program \subseteq Owners
  BY PoolConstants
<1>1. CASE ConsoleMalloc(k)
  <2>1. PICK o : ptr' = [ptr EXCEPT ![k] = o] /\ owned' \in {owned \ {k}, owned \cup {k}} /\ call' = call
    BY <1>1, ConsoleMallocDoes
  <2>2. \A v \in Owners : v # k => ptr'[v] = ptr[v] /\ (v \in owned' <=> v \in owned)
    BY <2>1 DEF PoolTypes
  <2> QED
    BY <1>0, <2>1, <2>2 DEF Fresh
<1>2. CASE ConsoleFree(k)
  BY <1>0, <1>2 DEF ConsoleFree, Fresh
<1> QED
  BY <1>1, <1>2

-----------------------------------------------------------------------------
(* The pool under every step, unless the console took what was found free.   *)

PoolInv == PoolTypes /\ (~raced => PoolOwners)

LEMMA PoolBegins ==
    ASSUME PoolInit
    PROVE  PoolInv
<1>1. call.op = "none" /\ raced = FALSE /\ owned = {} /\ leaked = {} /\ call = NoCall
  BY CallFields DEF PoolInit
<1>2. memmap \in [Table -> Nat] /\ ptr \in [Owners -> Table \cup {NULL}]
      /\ (\A w \in Owners : ptr[w] = NULL) /\ (\A b \in Table : memmap[b] = 0)
  BY DEF PoolInit
<1>3. PoolTypes
  BY <1>1, <1>2 DEF PoolTypes
<1>4. PoolOwners
  BY <1>1, <1>2 DEF PoolOwners, InPart, InCounted, HasOwner
<1> QED
  BY <1>3, <1>4 DEF PoolInv

LEMMA PoolStays ==
    ASSUME UNCHANGED poolVars
    PROVE  /\ PoolInv => PoolInv'
           /\ \A v : (Fresh(v)' <=> Fresh(v)) /\ (Calling(v)' <=> Calling(v))
           /\ call' = call
BY DEF poolVars, PoolInv, PoolTypes, PoolOwners, Fresh, Calling, Scanning, Marking, Clearing,
       InPart, InCounted, HasOwner, HeldBy

LEMMA MallocKeeps ==
    ASSUME PoolInv, NEW w \in Program, Malloc(w)
    PROVE  /\ PoolInv' /\ call.op = "none" /\ Calling(w)'
           /\ \A v : (Fresh(v)' <=> Fresh(v)) /\ ~Calling(v)
<1>1. call = NoCall /\ call' = ScanCall(w, Blocks - 1, 0)
      /\ UNCHANGED <<memmap, ptr, owned, leaked, raced>>
  BY MallocDoes
<1>2. PoolInv'
  BY <1>1, MallocTypes, MallocOwners DEF PoolInv
<1>3. call.op = "none" /\ call'.op = "scan" /\ call'.who = w
  BY <1>1, CallFields
<1> QED
  BY <1>1, <1>2, <1>3 DEF Fresh, Calling

LEMMA FreeKeeps ==
    ASSUME PoolInv, NEW w \in Program, FreeCall(w), Fresh(w)
    PROVE  /\ PoolInv' /\ call'.op \in {"none", "clear"}
           /\ \A v : v # w /\ Fresh(v) => Fresh(v)'
<1>1. ptr[w] # NULL => w \in owned
  BY DEF Fresh
<1>2. PoolInv'
  BY <1>1, FreeDoes, FreeTypes, FreeOwners DEF PoolInv
<1>3. call'.op \in {"none", "clear"}
  BY FreeDoes, CallFields
<1>4. ptr' = ptr /\ (owned' = owned \/ owned' = owned \ {w})
  BY FreeDoes
<1> QED
  BY <1>2, <1>3, <1>4 DEF Fresh

LEMMA PoolStepKeeps ==
    ASSUME PoolInv, PoolStep
    PROVE  PoolInv'
<1>1. raced' = raced
  BY DEF PoolStep, Scan, Mark, Clear, Return
<1> QED
  BY <1>1, PoolStepTypes, PoolStepOwners DEF PoolInv

LEMMA ConsoleKeeps ==
    ASSUME PoolInv, NEW k \in Console, ConsoleMalloc(k) \/ ConsoleFree(k)
    PROVE  PoolInv'
<1>1. CASE ConsoleMalloc(k)
  <2>1. ~raced' => ~raced
    BY <1>1, ConsoleMallocDoes DEF PoolInv
  <2> QED
    BY <1>1, <2>1, ConsoleMallocTypes, ConsoleMallocOwners DEF PoolInv
<1>2. CASE ConsoleFree(k)
  <2>1. raced' = raced
    BY <1>2 DEF ConsoleFree
  <2> QED
    BY <1>2, <2>1, ConsoleFreeTypes, ConsoleFreeOwners DEF PoolInv
<1> QED
  BY <1>1, <1>2

(* What the invariant says of the property: the named parts of BlocksOwned. *)
LEMMA OwnersMeans ==
    ASSUME PoolTypes, PoolOwners
    PROVE  Disjoint /\ OwnedMarked /\ OthersFree
<1>0. \A w \in owned : w \in Owners /\ ptr[w] # NULL
  BY DEF PoolTypes
<1>1. \A w \in owned : \A b : b \in Held(w) <=> b \in Table /\ HeldBy(w, b)
  BY <1>0, HeldIs
<1>2. Disjoint
  <2>1. \A v, w \in owned : v # w => Held(v) \cap Held(w) = {}
    BY <1>1 DEF PoolOwners
  <2>2. \A w \in owned : Held(w) \cap leaked = {}
    BY <1>1 DEF PoolOwners, HasOwner
  <2> QED
    BY <2>1, <2>2 DEF Disjoint
<1>3. OwnedMarked
  BY <1>0, <1>1 DEF OwnedMarked, PoolOwners
<1>4. OthersFree
  <2> SUFFICES ASSUME call = NoCall PROVE Marked = leaked \cup UNION {Held(w) : w \in owned}
    BY DEF OthersFree
  <2>1. \A b : ~InPart(b)
    BY CallFields DEF InPart
  <2>2. \A b \in Table : b \in Marked <=> b \in leaked \/ HasOwner(b)
    BY <2>1 DEF PoolOwners, Marked
  <2>3. \A b \in Table : HasOwner(b) <=> \E w \in owned : b \in Held(w)
    BY <1>1 DEF HasOwner
  <2>4. Marked \subseteq Table /\ leaked \subseteq Table /\ \A w \in owned : Held(w) \subseteq Table
    BY <1>1 DEF Marked, PoolTypes
  <2> QED
    BY <2>2, <2>3, <2>4
<1> QED
  BY <1>2, <1>3, <1>4

-----------------------------------------------------------------------------
StartInv == PoolInv /\ StartTypes /\ StartOwners

LEMMA StartBegins ==
    ASSUME Init
    PROVE  StartInv
<1>1. PoolInv
  BY PoolBegins DEF Init
<1>2. StartTypes
  <2>1. /\ pc = "eth" /\ todo = EthMemory /\ retry = 0 /\ mailboxes = 0
        /\ link \in BOOLEAN /\ conFreed = FALSE
    BY DEF Init
  <2>2. todo \in Seq(Program) /\ retry \in 0 .. MaxRetry /\ mailboxes \in 0 .. MaxMailboxes
    BY <2>1, RetryAssumption, MemoryAssumption
  <2>3. conFreed \in BOOLEAN
    BY <2>1
  <2> QED
    BY <2>1, <2>2, <2>3 DEF StartTypes, Labels
<1>3. StartOwners
  BY DEF Init, StartOwners
<1> QED
  BY <1>1, <1>2, <1>3 DEF StartInv

(* lwip_comm_init, called by main. *)
LEMMA StartStep ==
    ASSUME StartInv, Start
    PROVE  StartInv'
<1> USE DEF StartInv
<1>0. /\ <<>> \in Seq(Program) /\ EthMemory \in Seq(Program) /\ LwipMemory \in Seq(Program)
      /\ IsInjective(LwipMemory)
      /\ "mbox" \in Program /\ "recvmbox" \in Program
      /\ MaxRetry \in Nat /\ MaxMailboxes \in Nat
  BY MemoryAssumption, RetryAssumption
<1>1. CASE Allocate
  <2>1. /\ pc \in {"eth", "lwip"} /\ todo # <<>> /\ Malloc(Head(todo))
        /\ pc' = pc /\ todo' = Tail(todo) /\ UNCHANGED <<retry, link, mailboxes, conFreed>>
    BY <1>1 DEF Allocate, Go
  <2>0. PICK h \in Program : h = Head(todo)
    BY <2>1, TailOfTodo DEF StartTypes
  <2>2. /\ Tail(todo) \in Seq(Program)
        /\ \A x : x \in Range(todo) <=> x = h \/ x \in Range(Tail(todo))
    BY <2>0, <2>1, TailOfTodo DEF StartTypes
  <2>3. /\ PoolInv' /\ call.op = "none" /\ Calling(h)'
        /\ \A v : (Fresh(v)' <=> Fresh(v)) /\ ~Calling(v)
    BY <2>0, <2>1, MallocKeeps
  <2>4. StartTypes'
    BY <2>1, <2>2 DEF StartTypes
  <2>5. pc' = "lwip" => \A w \in Range(LwipMemory) : w \in Range(todo') \/ Fresh(w)' \/ Calling(w)'
    BY <2>1, <2>2, <2>3 DEF StartOwners
  <2>6. StartOwners'
    BY <2>1, <2>5 DEF StartOwners
  <2> QED
    BY <2>3, <2>4, <2>6
<1>2. CASE EthAllocated
  <2>1. pc' = "lwip" /\ todo' = LwipMemory /\ UNCHANGED <<poolVars, retry, link, mailboxes, conFreed>>
    BY <1>2 DEF EthAllocated, Go
  <2> QED
    BY <1>0, <2>1, PoolStays DEF StartTypes, StartOwners, Labels
<1>3. CASE LwipAllocated
  <2>1. /\ pc = "lwip" /\ todo = <<>> /\ call = NoCall
        /\ UNCHANGED <<poolVars, retry, link, mailboxes, conFreed>>
        /\ \/ pc' = "free" /\ todo' = LwipMemory
           \/ pc' = "reset" /\ todo' = <<>>
    BY <1>3 DEF LwipAllocated, Go
  <2>2. PoolInv' /\ call' = call /\ \A v : Fresh(v)' <=> Fresh(v)
    BY <2>1, PoolStays
  <2>3. call.op = "none" /\ Range(todo) = {}
    BY <2>1, CallFields DEF Range
  <2>4. \A w \in Range(LwipMemory) : Fresh(w)
    BY <2>1, <2>3 DEF StartOwners, Calling
  <2>5. StartTypes'
    BY <1>0, <2>1 DEF StartTypes, Labels
  <2>6. StartOwners'
    BY <1>0, <2>1, <2>2, <2>3, <2>4 DEF StartOwners
  <2> QED
    BY <2>2, <2>5, <2>6
<1>4. CASE FreeLwip
  <2>0. pc = "free" /\ UNCHANGED <<retry, link, mailboxes, conFreed>>
    BY <1>4 DEF FreeLwip
  <2>1. CASE todo = <<>>
    <3>1. pc' = "eth" /\ todo' = EthMemory /\ UNCHANGED poolVars
      BY <1>4, <2>1 DEF FreeLwip, Go
    <3> QED
      BY <1>0, <2>0, <3>1, PoolStays DEF StartTypes, StartOwners, Labels
  <2>2. CASE todo # <<>>
    <3>1. FreeCall(Head(todo)) /\ pc' = "free" /\ todo' = Tail(todo)
      BY <1>4, <2>2 DEF FreeLwip, Go
    <3>2. IsInjective(todo) /\ \A w \in Range(todo) : Fresh(w)
      BY <2>0 DEF StartOwners
    <3>3. /\ Head(todo) \in Program /\ Tail(todo) \in Seq(Program) /\ Head(todo) \in Range(todo)
          /\ \A x : x \in Range(todo) <=> x = Head(todo) \/ x \in Range(Tail(todo))
          /\ IsInjective(Tail(todo)) /\ Head(todo) \notin Range(Tail(todo))
      BY <2>2, <3>2, TailOfTodo DEF StartTypes
    <3>4. /\ PoolInv' /\ call'.op \in {"none", "clear"}
          /\ \A v : v # Head(todo) /\ Fresh(v) => Fresh(v)'
      BY <3>1, <3>2, <3>3, FreeKeeps
    <3>5. StartTypes'
      BY <2>0, <3>1, <3>3 DEF StartTypes, Labels
    <3>6. StartOwners'
      BY <3>1, <3>2, <3>3, <3>4 DEF StartOwners
    <3> QED
      BY <3>4, <3>5, <3>6
  <2> QED
    BY <2>1, <2>2
<1>5. CASE PhyReset
  <2>1. pc' = "link" /\ todo' = <<>> /\ UNCHANGED <<poolVars, retry, link, mailboxes, conFreed>>
    BY <1>5 DEF PhyReset, Go
  <2> QED
    BY <1>0, <2>1, PoolStays DEF StartTypes, StartOwners, Labels
<1>6. CASE PhyInit
  <2>1. /\ UNCHANGED <<poolVars, link, mailboxes, conFreed>>
        /\ \/ pc' = "tcpip" /\ todo' = <<>> /\ retry' = 0
           \/ pc' = "reset" /\ todo' = <<>> /\ retry < MaxRetry /\ retry' = retry + 1
           \/ pc' = "eth" /\ todo' = EthMemory /\ retry' = 0
    BY <1>6 DEF PhyInit, Go
  <2>2. retry' \in 0 .. MaxRetry
    BY <1>0, <2>1 DEF StartTypes
  <2> QED
    BY <1>0, <2>1, <2>2, PoolStays DEF StartTypes, StartOwners, Labels
<1>7. CASE TcpipInit
  <2>1. Malloc("mbox") /\ pc' = "mbox_new" /\ todo' = <<>> /\ UNCHANGED <<retry, link, mailboxes, conFreed>>
    BY <1>7 DEF TcpipInit, Go
  <2>2. PoolInv'
    BY <1>0, <2>1, MallocKeeps
  <2> QED
    BY <1>0, <2>1, <2>2 DEF StartTypes, StartOwners, Labels
<1>8. CASE MboxNew
  <2>1. pc' = "started" /\ todo' = <<>> /\ UNCHANGED <<poolVars, retry, link, mailboxes, conFreed>>
    BY <1>8 DEF MboxNew, Go
  <2> QED
    BY <1>0, <2>1, PoolStays DEF StartTypes, StartOwners, Labels
<1> QED
  BY <1>1, <1>2, <1>3, <1>4, <1>5, <1>6, <1>7, <1>8 DEF Start

(* The mailboxes of connections. *)
LEMMA MailboxesStep ==
    ASSUME StartInv, Mailboxes
    PROVE  StartInv'
<1> USE DEF StartInv
<1>0. <<>> \in Seq(Program) /\ "recvmbox" \in Program /\ MaxMailboxes \in Nat
  BY MemoryAssumption, RetryAssumption
<1>1. CASE RecvmboxNew
  <2>1. /\ Malloc("recvmbox") /\ pc' = "recvmbox_new" /\ todo' = <<>>
        /\ mailboxes < MaxMailboxes /\ mailboxes' = mailboxes + 1
        /\ UNCHANGED <<retry, link, conFreed>>
    BY <1>1 DEF RecvmboxNew, Go
  <2>2. PoolInv' /\ Calling("recvmbox")'
    BY <1>0, <2>1, MallocKeeps
  <2>3. StartTypes'
    BY <1>0, <2>1 DEF StartTypes, Labels
  <2> QED
    BY <2>1, <2>2, <2>3 DEF StartOwners
<1>2. CASE RecvmboxMade
  <2>1. /\ pc = "recvmbox_new" /\ call = NoCall /\ pc' = "started" /\ todo' = <<>>
        /\ UNCHANGED <<retry, link, mailboxes, conFreed>>
        /\ UNCHANGED poolVars \/ FreeCall("recvmbox")
    BY <1>2 DEF RecvmboxMade, Go
  <2>2. Fresh("recvmbox")
    BY <2>1, CallFields DEF StartOwners, Calling
  <2>3. PoolInv'
    BY <1>0, <2>1, <2>2, PoolStays, FreeKeeps
  <2> QED
    BY <1>0, <2>1, <2>3 DEF StartTypes, StartOwners, Labels
<1>3. CASE RecvmboxFree
  <2>1. pc = "started" /\ "recvmbox" \in owned /\ FreeCall("recvmbox") /\ UNCHANGED startVars
    BY <1>3 DEF RecvmboxFree
  <2>2. PoolInv'
    BY <1>0, <2>1, FreeKeeps DEF Fresh
  <2> QED
    BY <2>1, <2>2 DEF startVars, StartTypes, StartOwners, Labels
<1> QED
  BY <1>1, <1>2, <1>3 DEF Mailboxes

(* The turns of a call's loop; the console's calls; what does not touch the pool. *)
LEMMA TurnStep ==
    ASSUME StartInv, PoolStep, UNCHANGED startVars
    PROVE  StartInv'
<1>1. /\ PoolInv' /\ \A v \in Program : Fresh(v) => Fresh(v)'
      /\ \A v : Calling(v) => Calling(v)' \/ Fresh(v)'
      /\ call.op \in {"none", "clear"} => call'.op \in {"none", "clear"}
  BY PoolStepKeeps, PoolStepFresh DEF StartInv, PoolInv
<1>2. Range(todo) \subseteq Program /\ Range(LwipMemory) \subseteq Program /\ "recvmbox" \in Program
  BY MemoryAssumption DEF StartInv, StartTypes, Range
<1>3. StartTypes'
  BY DEF StartInv, StartTypes, startVars
<1>4. StartOwners'
  BY <1>1, <1>2 DEF StartInv, StartOwners, startVars
<1> QED
  BY <1>1, <1>3, <1>4 DEF StartInv

LEMMA ConsoleStep ==
    ASSUME StartInv, UNCHANGED <<pc, todo, retry, link, mailboxes>>, conFreed' \in BOOLEAN,
           NEW k \in Console, ConsoleMalloc(k) \/ ConsoleFree(k)
    PROVE  StartInv'
<1>1. PoolInv' /\ call' = call /\ \A v \in Program : Fresh(v)' <=> Fresh(v)
  BY ConsoleKeeps, ConsoleFresh DEF StartInv, PoolInv
<1>2. Range(todo) \subseteq Program /\ Range(LwipMemory) \subseteq Program /\ "recvmbox" \in Program
  BY MemoryAssumption DEF StartInv, StartTypes, Range
<1>3. StartTypes'
  BY DEF StartInv, StartTypes
<1>4. StartOwners'
  BY <1>1, <1>2 DEF StartInv, StartOwners, Calling
<1> QED
  BY <1>1, <1>3, <1>4 DEF StartInv

LEMMA QuietStep ==
    ASSUME StartInv, UNCHANGED <<poolVars, pc, todo, retry, mailboxes>>,
           link' \in BOOLEAN, conFreed' \in BOOLEAN
    PROVE  StartInv'
BY PoolStays DEF StartInv, StartTypes, StartOwners

-----------------------------------------------------------------------------
(* The debug console.  To an operator who waits, and as long as no byte is lost, what
   has been collected, what is in the UART and what is on its way are one line, as it
   was sent.                                                                       *)

Char == STRING \cup {"CR", "LF"}

ConsoleTypes ==
    /\ wire \in Seq(Char) /\ rdr \in Seq(Char) /\ buf \in Seq(Char)
    /\ due \in Seq(Seq(Char)) /\ typed \in Nat
    /\ ConsoleTypeOK

(* The bytes of a line that is sent, and how many of them the interrupt has taken. *)
Byte(l, i) == IF i <= Len(l) THEN l[i] ELSE IF i = Len(l) + 1 THEN "CR" ELSE "LF"
Taken(l) == IF sta.done THEN Len(l) + 2 ELSE IF sta.cr THEN Len(l) + 1 ELSE Len(buf)

OnItsWay(l) ==
    /\ due = <<l>>
    /\ Len(buf) <= Len(l) /\ (sta.cr \/ sta.done => Len(buf) = Len(l))
    /\ \A i \in 1 .. Len(buf) : buf[i] = l[i]
    /\ Taken(l) + Len(rdr) + Len(wire) = Len(l) + 2
    /\ \A i \in 1 .. Len(rdr) : rdr[i] = Byte(l, Taken(l) + i)
    /\ \A i \in 1 .. Len(wire) : wire[i] = Byte(l, Taken(l) + Len(rdr) + i)

NoLine == due = <<>> /\ wire = <<>> /\ rdr = <<>> /\ sta = Empty /\ buf = <<>>

LineInv == patient /\ ~lost => NoLine \/ \E l \in Lines : OnItsWay(l)

ConsoleInv == ConsoleTypes /\ LineInv

LEMMA LineFacts ==
    ASSUME NEW l \in Lines
    PROVE  /\ l \in Seq(Char) /\ Len(l) \in Nat /\ Len(l) < RecLen /\ DOMAIN l = 1 .. Len(l)
           /\ \A i \in 1 .. Len(l) : l[i] \notin {"CR", "LF"}
           /\ RecLen \in Nat /\ RecLen # 0 /\ RecLen # 1 /\ MaxLines \in Nat
<1>1. l \in Seq(Char)
  <2>1. l \in Seq(STRING)
    BY LinesAssumption
  <2> QED
    BY <2>1 DEF Char
<1> QED
  BY <1>1, LinesAssumption

(* sta is a record of two bits. *)
LEMMA StaFacts ==
    /\ Empty.done = FALSE /\ Empty.cr = FALSE /\ Empty \in [done : BOOLEAN, cr : BOOLEAN]
    /\ \A s \in [done : BOOLEAN, cr : BOOLEAN] :
          /\ [s EXCEPT !.done = TRUE] \in [done : BOOLEAN, cr : BOOLEAN]
          /\ [s EXCEPT !.done = TRUE].done = TRUE /\ [s EXCEPT !.done = TRUE].cr = s.cr
          /\ [s EXCEPT !.cr = TRUE] \in [done : BOOLEAN, cr : BOOLEAN]
          /\ [s EXCEPT !.cr = TRUE].cr = TRUE /\ [s EXCEPT !.cr = TRUE].done = s.done
BY DEF Empty

LEMMA ConsoleBegins ==
    ASSUME ConsoleInit
    PROVE  ConsoleInv
<1>1. <<>> \in Seq(Char) /\ <<>> \in Seq(Seq(Char)) /\ Len(<<>>) = 0
  OBVIOUS
<1>2. RecLen \in Nat /\ RecLen # 0 /\ MaxLines \in Nat
  BY LinesAssumption
<1>3. /\ wire = <<>> /\ rdr = <<>> /\ buf = <<>> /\ due = <<>> /\ sta = Empty
      /\ typed = 0 /\ patient \in BOOLEAN /\ lost = FALSE
  BY DEF ConsoleInit
<1>4. ConsoleTypeOK
  <2>1. Len(wire) = 0 /\ Len(rdr) = 0 /\ Len(buf) = 0 /\ Len(due) = 0
    BY <1>1, <1>3
  <2>2. Len(wire) < RecLen + 2 /\ Len(rdr) <= 1 /\ Len(buf) < RecLen
        /\ Len(due) <= typed /\ typed <= MaxLines
    BY <1>2, <1>3, <2>1
  <2>3. lost \in BOOLEAN /\ patient \in BOOLEAN /\ sta \in [done : BOOLEAN, cr : BOOLEAN]
    BY <1>3, StaFacts
  <2> QED
    BY <2>2, <2>3 DEF ConsoleTypeOK
<1>5. ConsoleTypes
  BY <1>1, <1>3, <1>4 DEF ConsoleTypes
<1>6. LineInv
  BY <1>3 DEF LineInv, NoLine
<1> QED
  BY <1>5, <1>6 DEF ConsoleInv

LEMMA TypeStep ==
    ASSUME ConsoleInv, NEW l \in Lines, Type(l)
    PROVE  ConsoleInv'
<1>0. l \in Seq(Char) /\ Len(l) \in Nat /\ Len(l) < RecLen /\ RecLen \in Nat /\ MaxLines \in Nat
      /\ DOMAIN l = 1 .. Len(l)
  BY LineFacts
<1>1. /\ wire = <<>> /\ typed < MaxLines /\ (patient => due = <<>>)
      /\ wire' = l \o <<"CR", "LF">> /\ typed' = typed + 1 /\ due' = Append(due, l)
      /\ rdr' = rdr /\ sta' = sta /\ buf' = buf /\ patient' = patient /\ lost' = lost
  BY DEF Type
<1>2. /\ wire' \in Seq(Char) /\ Len(wire') = Len(l) + 2
      /\ \A i \in 1 .. Len(l) + 2 : wire'[i] = Byte(l, i)
  <2>1. <<"CR", "LF">> \in Seq(Char) /\ Len(<<"CR", "LF">>) = 2
        /\ <<"CR", "LF">>[1] = "CR" /\ <<"CR", "LF">>[2] = "LF"
    <3>1. "CR" \in Char /\ "LF" \in Char
      BY DEF Char
    <3>2. <<"CR", "LF">> \in Seq(Char)
      BY <3>1
    <3>3. Len(<<"CR", "LF">>) = 2
      OBVIOUS
    <3>4. <<"CR", "LF">>[1] = "CR" /\ <<"CR", "LF">>[2] = "LF"
      OBVIOUS
    <3> QED
      BY <3>2, <3>3, <3>4
  <2>2. /\ wire' \in Seq(Char) /\ Len(wire') = Len(l) + 2
        /\ \A i \in 1 .. Len(l) + 2 :
              wire'[i] = IF i <= Len(l) THEN l[i] ELSE <<"CR", "LF">>[i - Len(l)]
    BY <1>0, <1>1, <2>1
  <2>3. \A i \in 1 .. Len(l) + 2 : i <= Len(l) \/ i = Len(l) + 1 \/ i = Len(l) + 2
    BY <1>0
  <2>4. (Len(l) + 1) - Len(l) = 1 /\ (Len(l) + 2) - Len(l) = 2 /\ ~(Len(l) + 2 = Len(l) + 1)
        /\ ~(Len(l) + 1 <= Len(l)) /\ ~(Len(l) + 2 <= Len(l))
    BY <1>0
  <2>5. \A i \in 1 .. Len(l) + 2 : wire'[i] = Byte(l, i)
    BY <2>1, <2>2, <2>3, <2>4 DEF Byte
  <2> QED
    BY <2>2, <2>5
<1>3. due' \in Seq(Seq(Char)) /\ Len(due') = Len(due) + 1
  BY <1>0, <1>1 DEF ConsoleInv, ConsoleTypes
<1>4. ConsoleTypes'
  <2>1. typed' \in Nat /\ typed' <= MaxLines /\ Len(due') <= typed'
    BY <1>0, <1>1, <1>3 DEF ConsoleInv, ConsoleTypes, ConsoleTypeOK
  <2>2. Len(wire') < RecLen + 2
    BY <1>0, <1>2
  <2> QED
    BY <1>1, <1>2, <1>3, <2>1, <2>2 DEF ConsoleInv, ConsoleTypes, ConsoleTypeOK
<1>5. LineInv'
  <2> SUFFICES ASSUME patient, ~lost PROVE OnItsWay(l)'
    BY <1>1 DEF LineInv
  <2>1. NoLine
    <3> SUFFICES ASSUME NEW m \in Lines, OnItsWay(m) PROVE FALSE
      BY DEF ConsoleInv, LineInv
    <3> QED
      BY <1>1 DEF OnItsWay
  <2>2. due' = <<l>>
    BY <1>1, <2>1 DEF NoLine
  <2>3. /\ rdr' = <<>> /\ buf' = <<>> /\ sta'.done = FALSE /\ sta'.cr = FALSE
        /\ Len(rdr') = 0 /\ Len(buf') = 0
    BY <1>1, <2>1, StaFacts DEF NoLine
  <2>4. Taken(l)' = 0
    BY <2>3 DEF Taken
  <2>5. \A i \in 1 .. Len(wire') : wire'[i] = Byte(l, 0 + 0 + i)
    BY <1>0, <1>2
  <2> QED
    BY <1>0, <1>2, <2>2, <2>3, <2>4, <2>5 DEF OnItsWay, Byte
<1> QED
  BY <1>4, <1>5 DEF ConsoleInv

LEMMA ArriveStep ==
    ASSUME ConsoleInv, Arrive
    PROVE  ConsoleInv'
<1>0. /\ wire \in Seq(Char) /\ wire # <<>> /\ Len(wire) \in Nat /\ Len(wire) # 0
      /\ Tail(wire) \in Seq(Char) /\ Len(Tail(wire)) = Len(wire) - 1
      /\ Head(wire) \in Char /\ Head(wire) = wire[1]
      /\ \A i \in 1 .. Len(wire) - 1 : Tail(wire)[i] = wire[i + 1]
  BY DEF ConsoleInv, ConsoleTypes, Arrive
<1>1. /\ wire' = Tail(wire) /\ rdr' = (IF rdr = <<>> THEN <<Head(wire)>> ELSE rdr)
      /\ lost' = (lost \/ rdr # <<>>)
      /\ sta' = sta /\ buf' = buf /\ patient' = patient /\ typed' = typed /\ due' = due
  BY DEF Arrive
<1>2. <<Head(wire)>> \in Seq(Char) /\ Len(<<Head(wire)>>) = 1 /\ <<Head(wire)>>[1] = Head(wire)
  BY <1>0
<1>3. ConsoleTypes'
  <2>1. rdr' \in Seq(Char) /\ Len(rdr') <= 1
    <3>1. rdr \in Seq(Char) /\ Len(rdr) <= 1
      BY DEF ConsoleInv, ConsoleTypes, ConsoleTypeOK
    <3>2. CASE rdr = <<>>
      BY <1>1, <1>2, <3>2
    <3>3. CASE rdr # <<>>
      BY <1>1, <3>1, <3>3
    <3> QED
      BY <3>2, <3>3
  <2>2. wire' \in Seq(Char) /\ Len(wire') < RecLen + 2
    BY <1>0, <1>1, LinesAssumption DEF ConsoleInv, ConsoleTypes, ConsoleTypeOK
  <2>3. lost' \in BOOLEAN
    BY <1>1 DEF ConsoleInv, ConsoleTypes, ConsoleTypeOK
  <2> QED
    BY <1>1, <2>1, <2>2, <2>3 DEF ConsoleInv, ConsoleTypes, ConsoleTypeOK
<1>4. LineInv'
  <2> SUFFICES ASSUME patient, ~lost' PROVE \E l \in Lines : OnItsWay(l)'
    BY <1>1 DEF LineInv
  <2>1. ~lost /\ rdr = <<>> /\ Len(rdr) = 0 /\ rdr' = <<Head(wire)>>
    BY <1>1 DEF ConsoleInv, ConsoleTypes, ConsoleTypeOK
  <2>2. PICK l \in Lines : OnItsWay(l)
    BY <1>0, <2>1 DEF ConsoleInv, LineInv, NoLine
  <2>3. Taken(l)' = Taken(l) /\ Taken(l) \in Nat
    <3>1. Len(buf) \in Nat /\ Len(l) \in Nat
      BY LineFacts DEF ConsoleInv, ConsoleTypes
    <3> QED
      BY <1>1, <3>1 DEF Taken
  <2>4. Len(rdr') = 1 /\ rdr'[1] = Byte(l, Taken(l) + 1)
    BY <1>0, <1>2, <2>1, <2>2, <2>3 DEF OnItsWay
  <2>5. \A i \in 1 .. Len(wire') : wire'[i] = Byte(l, Taken(l) + 1 + i)
    <3> TAKE i \in 1 .. Len(wire')
    <3>1. i + 1 \in 1 .. Len(wire) /\ wire'[i] = wire[i + 1] /\ Taken(l) + 0 + (i + 1) = Taken(l) + 1 + i
      BY <1>0, <1>1, <2>3
    <3> QED
      BY <2>1, <2>2, <3>1 DEF OnItsWay
  <2>6. Taken(l) + 1 + Len(wire') = Len(l) + 2
    BY <1>0, <1>1, <2>1, <2>2, <2>3, LineFacts DEF OnItsWay
  <2>7. \A i \in 1 .. Len(rdr') : rdr'[i] = Byte(l, Taken(l) + i)
    BY <2>4
  <2>8. OnItsWay(l)'
    <3>1. /\ due' = <<l>>
          /\ Len(buf') <= Len(l) /\ (sta'.cr \/ sta'.done => Len(buf') = Len(l))
          /\ \A i \in 1 .. Len(buf') : buf'[i] = l[i]
      BY <1>1, <2>2 DEF OnItsWay
    <3>2. /\ Taken(l)' + Len(rdr') + Len(wire') = Len(l) + 2
          /\ \A i \in 1 .. Len(rdr') : rdr'[i] = Byte(l, Taken(l)' + i)
          /\ \A i \in 1 .. Len(wire') : wire'[i] = Byte(l, Taken(l)' + Len(rdr') + i)
      BY <2>3, <2>4, <2>5, <2>6, <2>7
    <3>3. \A i : Byte(l, i)' = Byte(l, i)
      BY DEF Byte
    <3> QED
      BY <3>1, <3>2, <3>3 DEF OnItsWay
  <2> QED
    BY <2>8
<1> QED
  BY <1>3, <1>4 DEF ConsoleInv

(* The receive interrupt takes the byte from the UART. *)
LEMMA UartIsrStep ==
    ASSUME ConsoleInv, UartIsr
    PROVE  ConsoleInv'
<1>0. /\ rdr \in Seq(Char) /\ buf \in Seq(Char) /\ rdr # <<>> /\ Len(rdr) = 1
      /\ Len(buf) \in Nat /\ Len(wire) \in Nat
      /\ sta \in [done : BOOLEAN, cr : BOOLEAN] /\ RecLen \in Nat /\ RecLen # 0 /\ RecLen # 1
  <2>1. /\ rdr \in Seq(Char) /\ buf \in Seq(Char) /\ wire \in Seq(Char) /\ Len(rdr) <= 1
        /\ sta \in [done : BOOLEAN, cr : BOOLEAN]
    BY DEF ConsoleInv, ConsoleTypes, ConsoleTypeOK
  <2>2. rdr # <<>> /\ RecLen \in Nat /\ RecLen # 0 /\ RecLen # 1
    BY LinesAssumption DEF UartIsr
  <2>3. Len(rdr) = 1
    <3>1. Len(rdr) \in Nat
      BY <2>1
    <3>2. Len(rdr) = 0 => rdr = <<>>
      BY <2>1
    <3>3. Len(rdr) # 0
      BY <2>2, <3>2
    <3>4. Len(rdr) <= 1
      BY <2>1
    <3>5. \A n \in Nat : n # 0 /\ n <= 1 => n = 1
      OBVIOUS
    <3> QED
      BY <3>1, <3>3, <3>4, <3>5, Zenon
  <2> QED
    BY <2>1, <2>2, <2>3
<1>1. PICK b \in Char : b = Head(rdr) /\ b = rdr[1]
  BY <1>0
<1>2. /\ rdr' = <<>> /\ Len(rdr') = 0 /\ rdr' \in Seq(Char)
      /\ UNCHANGED <<wire, patient, typed, due, lost>>
  BY DEF UartIsr
<1>3. \/ sta.done /\ UNCHANGED <<sta, buf>>
      \/ ~sta.done /\ sta.cr /\ b = "LF" /\ sta' = [sta EXCEPT !.done = TRUE] /\ buf' = buf
      \/ ~sta.done /\ sta.cr /\ b # "LF" /\ sta' = Empty /\ buf' = <<>>
      \/ ~sta.done /\ ~sta.cr /\ b = "CR" /\ sta' = [sta EXCEPT !.cr = TRUE] /\ buf' = buf
      \/ ~sta.done /\ ~sta.cr /\ b # "CR" /\ sta' = sta
         /\ buf' = IF Len(buf) + 1 > RecLen - 1 THEN <<>> ELSE Append(buf, b)
  BY <1>1 DEF UartIsr, Collect
<1>4. sta' \in [done : BOOLEAN, cr : BOOLEAN]
  <2>1. /\ [sta EXCEPT !.done = TRUE] \in [done : BOOLEAN, cr : BOOLEAN]
        /\ [sta EXCEPT !.cr = TRUE] \in [done : BOOLEAN, cr : BOOLEAN]
    BY <1>0
  <2> QED
    BY <1>0, <1>3, <2>1, StaFacts
<1>5. buf' \in Seq(Char) /\ Len(buf') < RecLen
  <2>1. Len(buf) < RecLen /\ <<>> \in Seq(Char) /\ Len(<<>>) = 0 /\ 0 < RecLen
    BY <1>0 DEF ConsoleInv, ConsoleTypes, ConsoleTypeOK
  <2>2. Append(buf, b) \in Seq(Char) /\ Len(Append(buf, b)) = Len(buf) + 1
    BY <1>0, <1>1
  <2>3. buf' = buf \/ buf' = <<>> \/ (buf' = Append(buf, b) /\ ~(Len(buf) + 1 > RecLen - 1))
    BY <1>3
  <2>4. ~(Len(buf) + 1 > RecLen - 1) => Len(buf) + 1 < RecLen
    BY <1>0
  <2> QED
    BY <1>0, <2>1, <2>2, <2>3, <2>4
<1>6. ConsoleTypes'
  BY <1>2, <1>4, <1>5 DEF ConsoleInv, ConsoleTypes, ConsoleTypeOK
<1>7. LineInv'
  <2> SUFFICES ASSUME patient, ~lost PROVE \E l \in Lines : OnItsWay(l)'
    BY <1>2 DEF LineInv
  <2>1. PICK l \in Lines : OnItsWay(l)
    BY <1>0 DEF ConsoleInv, LineInv, NoLine
  <2>2. /\ Len(l) \in Nat /\ Len(l) < RecLen /\ \A i \in 1 .. Len(l) : l[i] \notin {"CR", "LF"}
    BY LineFacts
  <2>3. Taken(l) \in Nat
    BY <1>0, <2>2 DEF Taken
  <2>4. /\ due = <<l>> /\ Len(buf) <= Len(l) /\ (sta.cr \/ sta.done => Len(buf) = Len(l))
        /\ \A i \in 1 .. Len(buf) : buf[i] = l[i]
        /\ Taken(l) + 1 + Len(wire) = Len(l) + 2
        /\ \A i \in 1 .. Len(wire) : wire[i] = Byte(l, Taken(l) + 1 + i)
    BY <1>0, <2>1 DEF OnItsWay
  <2>5. b = Byte(l, Taken(l) + 1)
    <3>1. 1 \in 1 .. Len(rdr)
      BY <1>0
    <3> QED
      BY <1>1, <2>1, <3>1 DEF OnItsWay
  <2>6. /\ Taken(l)' = Taken(l) + 1
        /\ Len(buf') <= Len(l) /\ (sta'.cr \/ sta'.done => Len(buf') = Len(l))
        /\ \A i \in 1 .. Len(buf') : buf'[i] = l[i]
    <3>1. ~sta.done
      BY <1>0, <2>2, <2>4 DEF Taken
    <3>2. CASE sta.cr
      <4>1. Taken(l) = Len(l) + 1
        BY <3>1, <3>2 DEF Taken
      <4>2. b = "LF"
        <5>1. ~((Len(l) + 1) + 1 <= Len(l)) /\ ~((Len(l) + 1) + 1 = Len(l) + 1)
          BY <2>2
        <5> QED
          BY <2>5, <4>1, <5>1 DEF Byte
      <4>3. sta' = [sta EXCEPT !.done = TRUE] /\ buf' = buf
        BY <1>3, <3>1, <3>2, <4>2
      <4>4. sta'.done
        BY <1>0, <4>3, StaFacts
      <4>5. Taken(l)' = Taken(l) + 1
        BY <2>2, <4>1, <4>4 DEF Taken
      <4> QED
        BY <2>4, <3>2, <4>3, <4>5
    <3>3. CASE ~sta.cr
      <4>1. Taken(l) = Len(buf)
        BY <3>1, <3>3 DEF Taken
      <4>2. CASE Len(buf) = Len(l)
        <5>1. ~(Len(l) + 1 <= Len(l))
          BY <2>2
        <5>2. b = "CR"
          BY <2>5, <4>1, <4>2, <5>1 DEF Byte
        <5>3. sta' = [sta EXCEPT !.cr = TRUE] /\ buf' = buf
          BY <1>3, <3>1, <3>3, <5>2
        <5>4. sta'.cr /\ ~sta'.done
          BY <1>0, <3>1, <5>3, StaFacts
        <5>5. Taken(l)' = Taken(l) + 1
          BY <4>1, <4>2, <5>4 DEF Taken
        <5> QED
          BY <2>4, <4>2, <5>3, <5>5
      <4>3. CASE Len(buf) # Len(l)
        <5>1. Len(buf) + 1 <= Len(l) /\ Len(buf) + 1 \in 1 .. Len(l)
          BY <1>0, <2>2, <2>4, <4>3
        <5>2. b = l[Len(buf) + 1] /\ b # "CR"
          BY <2>2, <2>5, <4>1, <5>1 DEF Byte
        <5>3. ~(Len(buf) + 1 > RecLen - 1)
          BY <1>0, <2>2, <5>1
        <5>4. sta' = sta /\ buf' = Append(buf, b)
          BY <1>3, <3>1, <3>3, <5>2, <5>3
        <5>5. Len(buf') = Len(buf) + 1 /\ buf'[Len(buf) + 1] = b
              /\ \A i \in 1 .. Len(buf) : buf'[i] = buf[i]
          BY <1>0, <1>1, <5>4
        <5>6. \A i \in 1 .. Len(buf') : buf'[i] = l[i]
          BY <1>0, <2>4, <5>2, <5>5
        <5>7. Taken(l)' = Taken(l) + 1
          BY <3>1, <3>3, <4>1, <5>4, <5>5 DEF Taken
        <5> QED
          BY <3>1, <3>3, <5>1, <5>4, <5>5, <5>6, <5>7
      <4> QED
        BY <4>2, <4>3
    <3> QED
      BY <3>2, <3>3
  <2>7. /\ (Taken(l) + 1) + 0 + Len(wire) = Len(l) + 2
        /\ \A i \in 1 .. Len(wire) : (Taken(l) + 1) + 0 + i = Taken(l) + 1 + i
    BY <1>0, <2>3, <2>4
  <2>8. \A i \in 1 .. Len(rdr') : FALSE
    BY <1>2
  <2>9. due' = <<l>> /\ wire' = wire
    BY <1>2, <2>4
  <2>10. \A i \in 1 .. Len(wire) : wire[i] = Byte(l, (Taken(l) + 1) + 0 + i)
    BY <2>4, <2>7
  <2>11. \A i : Byte(l, i)' = Byte(l, i)
    BY DEF Byte
  <2>12. OnItsWay(l)'
    BY <1>2, <2>6, <2>7, <2>8, <2>9, <2>10 DEF OnItsWay, Byte
  <2> QED
    BY <2>12
<1> QED
  BY <1>6, <1>7 DEF ConsoleInv

(* A complete line is what was sent: the next has not begun. *)
LEMMA CompleteLine ==
    ASSUME ConsoleInv, sta.done, patient, ~lost
    PROVE  due = <<buf>> /\ wire = <<>> /\ rdr = <<>>
<1>1. PICK l \in Lines : OnItsWay(l)
  BY StaFacts DEF ConsoleInv, LineInv, NoLine
<1>2. Taken(l) = Len(l) + 2
  BY DEF Taken
<1>3. buf \in Seq(Char) /\ l \in Seq(Char) /\ Len(buf) = Len(l) /\ Len(l) \in Nat
      /\ \A i \in 1 .. Len(l) : buf[i] = l[i]
  BY <1>1, LineFacts DEF OnItsWay, ConsoleInv, ConsoleTypes
<1>4. buf = l
  BY <1>3
<1>5. Len(rdr) \in Nat /\ Len(wire) \in Nat /\ rdr \in Seq(Char) /\ wire \in Seq(Char)
  BY DEF ConsoleInv, ConsoleTypes
<1>6. Len(rdr) = 0 /\ Len(wire) = 0
  BY <1>1, <1>2, <1>3, <1>5 DEF OnItsWay
<1>7. rdr = <<>> /\ wire = <<>>
  BY <1>5, <1>6
<1> QED
  BY <1>1, <1>4, <1>7 DEF OnItsWay

LEMMA ScannedStep ==
    ASSUME ConsoleInv, Scanned
    PROVE  ConsoleInv'
<1>1. /\ sta.done /\ sta' = Empty /\ buf' = <<>> /\ due' = <<>>
      /\ UNCHANGED <<wire, rdr, patient, typed, lost>>
  BY DEF Scanned
<1>2. /\ <<>> \in Seq(Char) /\ <<>> \in Seq(Seq(Char)) /\ Len(<<>>) = 0
      /\ RecLen \in Nat /\ RecLen # 0
  BY LinesAssumption
<1>3. ConsoleTypes'
  BY <1>1, <1>2, StaFacts DEF ConsoleInv, ConsoleTypes, ConsoleTypeOK
<1>4. LineInv'
  BY <1>1, CompleteLine DEF LineInv, NoLine
<1> QED
  BY <1>3, <1>4 DEF ConsoleInv

LEMMA ConsoleStays ==
    ASSUME ConsoleInv, UNCHANGED consoleVars
    PROVE  ConsoleInv'
<1>1. /\ wire' = wire /\ rdr' = rdr /\ sta' = sta /\ buf' = buf /\ patient' = patient
      /\ typed' = typed /\ due' = due /\ lost' = lost
  BY DEF consoleVars
<1>2. ConsoleTypes'
  BY <1>1 DEF ConsoleInv, ConsoleTypes, ConsoleTypeOK
<1>3. LineInv'
  BY <1>1 DEF ConsoleInv, LineInv, NoLine, OnItsWay, Taken, Byte
<1> QED
  BY <1>2, <1>3 DEF ConsoleInv

-----------------------------------------------------------------------------
(* What of the program's data every run of it keeps, for every pool, every list and
   size of pieces and every line of the operator.                                  *)
THEOREM StartInvariance == Spec => [](StartInv /\ ConsoleInv)
<1>1. Init => StartInv /\ ConsoleInv
  BY StartBegins, ConsoleBegins DEF Init
<1>2. StartInv /\ ConsoleInv /\ [Next]_vars => (StartInv /\ ConsoleInv)'
  <2> SUFFICES ASSUME StartInv, ConsoleInv, [Next]_vars PROVE StartInv' /\ ConsoleInv'
    OBVIOUS
  <2>0. link \in BOOLEAN /\ conFreed \in BOOLEAN
    BY DEF StartInv, StartTypes
  <2>1. CASE (Start \/ Mailboxes) /\ UNCHANGED consoleVars
    BY <2>1, StartStep, MailboxesStep, ConsoleStays
  <2>2. CASE PoolStep /\ UNCHANGED <<consoleVars, startVars>>
    <3>1. UNCHANGED consoleVars /\ UNCHANGED startVars
      BY <2>2
    <3> QED
      BY <2>2, <3>1, TurnStep, ConsoleStays
  <2>3. CASE UartIsr /\ UNCHANGED <<poolVars, startVars>>
    <3>1. UNCHANGED <<poolVars, pc, todo, retry, mailboxes>> /\ link' = link /\ conFreed' = conFreed
      BY <2>3 DEF startVars
    <3> QED
      BY <2>0, <2>3, <3>1, UartIsrStep, QuietStep
  <2>4. CASE UsmartScan
    <3>1. Scanned /\ UNCHANGED <<pc, todo, retry, link, mailboxes>>
      BY <2>4 DEF UsmartScan
    <3>2. \/ \E k \in Console : ConsoleMalloc(k) /\ UNCHANGED conFreed
          \/ \E k \in Console : ConsoleFree(k) /\ conFreed' = TRUE
          \/ UNCHANGED <<poolVars, conFreed>>
      BY <2>4 DEF UsmartScan
    <3>3. ConsoleInv'
      BY <3>1, ScannedStep
    <3>4. CASE \E k \in Console : (ConsoleMalloc(k) \/ ConsoleFree(k)) /\ conFreed' \in BOOLEAN
      BY <3>1, <3>3, <3>4, ConsoleStep
    <3>5. CASE UNCHANGED <<poolVars, conFreed>>
      BY <2>0, <3>1, <3>3, <3>5, QuietStep
    <3> QED
      BY <2>0, <3>2, <3>3, <3>4, <3>5
  <2>5. CASE Operator
    <3>1. UNCHANGED <<poolVars, pc, todo, retry, mailboxes>> /\ link' = link /\ conFreed' = conFreed
      BY <2>5 DEF Operator, startVars
    <3>2. ConsoleInv'
      BY <2>5, ArriveStep, TypeStep DEF Operator
    <3> QED
      BY <2>0, <3>1, <3>2, QuietStep
  <2>6. CASE LinkUp
    <3>1. UNCHANGED <<poolVars, pc, todo, retry, mailboxes>> /\ link' = TRUE /\ conFreed' = conFreed
          /\ UNCHANGED consoleVars
      BY <2>6 DEF LinkUp
    <3> QED
      BY <2>0, <3>1, QuietStep, ConsoleStays
  <2>7. CASE UNCHANGED vars
    <3>1. UNCHANGED <<poolVars, pc, todo, retry, mailboxes>> /\ link' = link /\ conFreed' = conFreed
          /\ UNCHANGED consoleVars
      BY <2>7 DEF vars, startVars
    <3> QED
      BY <2>0, <3>1, QuietStep, ConsoleStays
  <2> QED
    BY <2>1, <2>2, <2>3, <2>4, <2>5, <2>6, <2>7 DEF Next, Task, Interrupt
<1> QED
  BY <1>1, <1>2, PTL DEF Spec

(* my_mem_malloc and my_mem_free: two owners never share a block, what myfree reads is
   the length of the run, and between two calls nothing is marked but what somebody owns
   or has lost by overwriting its pointer; unless the console, in its interrupt, took
   blocks that a call of the program had counted and not marked yet. *)
THEOREM OneOwner == Spec => []BlocksOwned
<1>1. StartInv /\ ConsoleInv => BlocksOwned
  <2> SUFFICES ASSUME StartInv, ConsoleInv PROVE BlocksOwned
    OBVIOUS
  <2>1. PoolTypeOK
    BY CallTypes DEF StartInv, PoolInv
  <2>2. TypeOK
    BY <2>1 DEF StartInv, StartTypes, Labels, ConsoleInv, ConsoleTypes, TypeOK
  <2>3. ~raced => Disjoint /\ OwnedMarked /\ OthersFree
    BY OwnersMeans DEF StartInv, PoolInv
  <2> QED
    BY <2>2, <2>3 DEF BlocksOwned
<1> QED
  BY <1>1, StartInvariance, PTL

(* HAL_UART_RxCpltCallback and usmart_scan: the line that is executed is the line that an
   operator sent who waits for its answer, whole and once, unless the UART lost a byte. *)
THEOREM LinesWhole == Spec => ExecutedAsSent
<1>1. StartInv /\ ConsoleInv
        => [sta.done /\ ~sta'.done /\ patient /\ ~lost => due = <<buf>>]_consoleVars
  BY CompleteLine
<1> QED
  BY <1>1, StartInvariance, PTL DEF ExecutedAsSent

-----------------------------------------------------------------------------
(* Refused memory.  What a search found too small for one piece is too small for a larger
   one, as long as nothing is freed: so the heap is refused when a piece of the driver was. *)

\* What the call under way has counted.
Seen(b) == call.op = "scan" /\ call.at < b /\ b <= call.at + call.n

\* No n blocks in a row are free, but for what is being counted.
Full(n) ==
    \A o \in Table : o + n <= Blocks =>
        \E b \in Table : o <= b /\ b < o + n /\ memmap[b] # 0 /\ ~Seen(b)

(* A search has found no n blocks in a row above the one it is at, and counts from the
   last one in use. *)
Searched ==
    call.op = "scan" =>
        /\ \/ call.at + 1 + call.n = Blocks
           \/ call.at + 1 + call.n \in Table /\ memmap[call.at + 1 + call.n] # 0
        /\ \A o \in Table : call.at < o /\ o + Size[call.who] <= Blocks =>
               \E b \in Table : o <= b /\ b < o + Size[call.who] /\ memmap[b] # 0

DriverMemory == Range(EthMemory)

\* ETH_Mem_Malloc has its answer for w.
Answered(w) ==
    /\ w \in DriverMemory
    /\ pc = "lwip" \/ (pc = "eth" /\ w \notin Range(todo) /\ ~Calling(w))

\* Whose call it is, and whose the next ones are.
Callers ==
    /\ pc = "eth" => Range(todo) \subseteq DriverMemory
    /\ pc = "lwip" => Range(todo) \subseteq Range(LwipMemory)
    /\ pc = "eth" => call.op # "clear" /\ \A v : Calling(v) => v \in DriverMemory
    /\ pc = "lwip" => call.op # "clear" /\ \A v : Calling(v) => v \notin DriverMemory
    /\ pc \in {"reset", "link", "tcpip"} => call = NoCall
    /\ pc \in {"mbox_new", "started", "recvmbox_new"} => \A v : Calling(v) => v \notin DriverMemory

\* A piece of the driver that was refused would be refused again; a larger one of lwIP is.
Refused ==
    /\ \A w : Answered(w) => w \in owned \/ Full(Size[w])
    /\ pc = "lwip" =>
           \A w \in DriverMemory, h \in Range(LwipMemory) :
               w \notin owned /\ Size[w] <= Size[h] /\ h \notin Range(todo) =>
                   IF Calling(h) THEN call.op = "scan" ELSE ptr[h] = NULL

\* The PHY and the DMA are started with all of it.
Phy == {"reset", "link", "tcpip", "mbox_new", "started", "recvmbox_new"}
Supplied == pc \in Phy => DriverMemory \subseteq owned

DriverInv == ~conFreed => Searched /\ Callers /\ Refused /\ Supplied

LEMMA MemoryFacts ==
    /\ DriverMemory \subseteq Program /\ Range(LwipMemory) \subseteq Program
    /\ \A w \in DriverMemory : w \in Owners /\ Size[w] \in Nat /\ Size[w] # 0
    /\ \A w \in Range(LwipMemory) : Size[w] \in Nat /\ w \notin DriverMemory
    /\ "mbox" \in Program /\ "mbox" \notin DriverMemory
    /\ "recvmbox" \in Program /\ "recvmbox" \notin DriverMemory
    /\ \E h \in DOMAIN LwipMemory : \A w \in DriverMemory : Size[w] <= Size[LwipMemory[h]]
<1>1. DriverMemory \subseteq Program /\ Range(LwipMemory) \subseteq Program
  BY MemoryAssumption DEF DriverMemory, Range
<1>2. \A w \in Program : w \in Owners /\ Size[w] \in Nat /\ Size[w] # 0
  BY PoolConstants
<1>3. \A w \in Range(LwipMemory) : w \notin DriverMemory
  BY MemoryAssumption DEF DriverMemory
<1>4. /\ "mbox" \in Program /\ "mbox" \notin DriverMemory
      /\ "recvmbox" \in Program /\ "recvmbox" \notin DriverMemory
  BY MemoryAssumption DEF DriverMemory
<1>5. \E h \in DOMAIN LwipMemory : \A w \in DriverMemory : Size[w] <= Size[LwipMemory[h]]
  BY HeapAssumption DEF DriverMemory, Range
<1> QED
  BY <1>1, <1>2, <1>3, <1>4, <1>5

(* As long as nothing is freed, what is full stays full. *)
LEMMA FullKept ==
    ASSUME \A b \in Table : memmap[b] # 0 => memmap'[b] # 0,
           \A b \in Table : Seen(b)' => Seen(b) \/ memmap[b] = 0
    PROVE  \A n : Full(n) => Full(n)'
BY DEF Full

(* The state of a search, with the call as it is. *)
SearchedAt(w, a, n) ==
    /\ a + 1 + n = Blocks \/ (a + 1 + n \in Table /\ memmap[a + 1 + n] # 0)
    /\ \A o \in Table : a < o /\ o + Size[w] <= Blocks =>
           \E b \in Table : o <= b /\ b < o + Size[w] /\ memmap[b] # 0

LEMMA SearchIs ==
    ASSUME NEW w, NEW a, NEW n, call = ScanCall(w, a, n)
    PROVE  /\ Searched <=> SearchedAt(w, a, n)
           /\ \A b : Seen(b) <=> a < b /\ b <= a + n
           /\ \A v : Calling(v) <=> v = w
           /\ call.op = "scan"
BY CallFields DEF Searched, SearchedAt, Seen, Calling

(* What a turn of a search leaves behind: the call goes on, or is refused for good. *)
LEMMA ScanTurn ==
    ASSUME PoolTypes, Searched, Scan
    PROVE  /\ memmap' = memmap /\ Searched'
           /\ \A b \in Table : Seen(b)' => Seen(b) \/ memmap[b] = 0
           /\ \E w \in Program :
                 /\ \A v : Calling(v) <=> v = w
                 /\ \/ /\ UNCHANGED <<ptr, owned>> /\ \A v : Calling(v)' <=> v = w
                       /\ call'.op \in {"scan", "mark"}
                       /\ \A s \in Nat : s <= Size[w] /\ Full(s) => call'.op = "scan"
                    \/ Return(w, NULL) /\ Full(Size[w])'
<1>1. PICK w \in Program, a \in Table \cup {NULL}, n \in Nat :
             /\ call = ScanCall(w, a, n) /\ n < Size[w] /\ a + 1 + n <= Blocks
             /\ \/ a = NULL /\ Return(w, NULL)
                \/ /\ a \in Table /\ UNCHANGED <<memmap, ptr, owned, leaked, raced>>
                   /\ \/ memmap[a] = 0 /\ n + 1 = Size[w] /\ call' = MarkCall(w, a, 0)
                      \/ memmap[a] = 0 /\ n + 1 < Size[w] /\ call' = ScanCall(w, a - 1, n + 1)
                      \/ memmap[a] # 0 /\ call' = ScanCall(w, a - 1, 0)
  BY ScanDoes
<1>2. /\ SearchedAt(w, a, n) /\ \A b : Seen(b) <=> a < b /\ b <= a + n
      /\ \A v : Calling(v) <=> v = w
  BY <1>1, SearchIs
<1>3. Size[w] \in Nat /\ Table = 0 .. Blocks - 1 /\ Blocks \in Nat /\ NULL = -1
  BY PoolConstants
<1>4. CASE a = NULL /\ Return(w, NULL)
  <2>1. memmap' = memmap /\ call'.op # "scan"
    BY <1>4, CallFields DEF Return
  <2>2. Searched' /\ \A b : ~Seen(b)'
    BY <2>1 DEF Searched, Seen
  <2>3. Full(Size[w])'
    <3> SUFFICES ASSUME NEW o \in Table, o + Size[w] <= Blocks
                 PROVE  \E b \in Table : o <= b /\ b < o + Size[w] /\ memmap'[b] # 0 /\ ~Seen(b)'
      BY DEF Full
    <3>1. a < o
      BY <1>3, <1>4
    <3> QED
      BY <1>2, <2>1, <2>2, <3>1 DEF SearchedAt
  <2> QED
    BY <1>2, <1>4, <2>1, <2>2, <2>3
<1>5. CASE a \in Table /\ UNCHANGED <<memmap, ptr, owned, leaked, raced>>
  <2>0. memmap' = memmap /\ ptr' = ptr /\ owned' = owned
    BY <1>5
  <2>1. CASE memmap[a] = 0 /\ n + 1 = Size[w] /\ call' = MarkCall(w, a, 0)
    <3>1. call'.op = "mark" /\ call'.who = w
      BY <2>1, CallFields
    <3>2. Searched' /\ \A b : ~Seen(b)'
      BY <3>1 DEF Searched, Seen
    <3>3. \A v : Calling(v)' <=> v = w
      BY <3>1 DEF Calling
    <3>4. ASSUME NEW s \in Nat, s <= Size[w], Full(s) PROVE FALSE
      <4>1. a + s <= Blocks
        BY <1>1, <1>3, <1>5, <2>1, <3>4
      <4>2. PICK b \in Table : a <= b /\ b < a + s /\ memmap[b] # 0 /\ ~Seen(b)
        BY <1>5, <3>4, <4>1 DEF Full
      <4>3. b # a /\ ~(a < b /\ b <= a + n)
        BY <1>2, <2>1, <4>2
      <4> QED
        BY <1>3, <1>5, <2>1, <3>4, <4>2, <4>3
    <3> QED
      BY <1>2, <2>0, <3>1, <3>2, <3>3, <3>4
  <2>2. CASE memmap[a] = 0 /\ n + 1 < Size[w] /\ call' = ScanCall(w, a - 1, n + 1)
    <3>1. /\ Searched' <=> SearchedAt(w, a - 1, n + 1)'
          /\ \A b : Seen(b)' <=> a - 1 < b /\ b <= (a - 1) + (n + 1)
          /\ \A v : Calling(v)' <=> v = w
          /\ call'.op = "scan"
      BY <2>2, CallFields DEF Searched, SearchedAt, Seen, Calling
    <3>2. \A b \in Table : Seen(b)' => Seen(b) \/ memmap[b] = 0
      BY <1>2, <1>3, <1>5, <2>2, <3>1
    <3>3. (a - 1) + 1 + (n + 1) = a + 1 + n
      BY <1>3, <1>5
    <3>4. \A o \in Table : a - 1 < o /\ o + Size[w] <= Blocks =>
             \E b \in Table : o <= b /\ b < o + Size[w] /\ memmap[b] # 0
      <4> SUFFICES ASSUME NEW o \in Table, a - 1 < o, o + Size[w] <= Blocks
                   PROVE  \E b \in Table : o <= b /\ b < o + Size[w] /\ memmap[b] # 0
        OBVIOUS
      <4>1. CASE a < o
        BY <1>2, <4>1 DEF SearchedAt
      <4>2. CASE ~(a < o)
        <5>1. o = a
          BY <1>3, <1>5, <4>2
        <5>2. a + 1 + n # Blocks /\ a <= a + 1 + n /\ a + 1 + n < a + Size[w]
          BY <1>3, <1>5, <2>2, <5>1
        <5> QED
          BY <1>2, <5>1, <5>2 DEF SearchedAt
      <4> QED
        BY <4>1, <4>2
    <3>5. SearchedAt(w, a - 1, n + 1)'
      BY <1>2, <2>0, <3>3, <3>4 DEF SearchedAt
    <3> QED
      BY <1>2, <2>0, <3>1, <3>2, <3>5
  <2>3. CASE memmap[a] # 0 /\ call' = ScanCall(w, a - 1, 0)
    <3>1. /\ Searched' <=> SearchedAt(w, a - 1, 0)'
          /\ \A b : Seen(b)' <=> a - 1 < b /\ b <= (a - 1) + 0
          /\ \A v : Calling(v)' <=> v = w
          /\ call'.op = "scan"
      BY <2>3, CallFields DEF Searched, SearchedAt, Seen, Calling
    <3>2. \A b \in Table : ~Seen(b)'
      BY <1>3, <1>5, <3>1
    <3>3. (a - 1) + 1 + 0 = a
      BY <1>3, <1>5
    <3>4. \A o \in Table : a - 1 < o /\ o + Size[w] <= Blocks =>
             \E b \in Table : o <= b /\ b < o + Size[w] /\ memmap[b] # 0
      <4> SUFFICES ASSUME NEW o \in Table, a - 1 < o, o + Size[w] <= Blocks
                   PROVE  \E b \in Table : o <= b /\ b < o + Size[w] /\ memmap[b] # 0
        OBVIOUS
      <4>1. CASE a < o
        BY <1>2, <4>1 DEF SearchedAt
      <4>2. CASE ~(a < o)
        <5>1. o = a /\ a <= a /\ a < a + Size[w]
          BY <1>1, <1>3, <1>5, <4>2
        <5> QED
          BY <2>3, <5>1
      <4> QED
        BY <4>1, <4>2
    <3>5. SearchedAt(w, a - 1, 0)'
      BY <1>5, <2>0, <2>3, <3>3, <3>4 DEF SearchedAt
    <3> QED
      BY <1>2, <2>0, <3>1, <3>2, <3>5
  <2> QED
    BY <1>1, <1>3, <1>5, <2>1, <2>2, <2>3
<1> QED
  BY <1>1, <1>4, <1>5

(* The turns of a call's loop. *)
LEMMA PoolTurn ==
    ASSUME PoolTypes, Searched, PoolStep
    PROVE  /\ Searched'
           /\ \/ /\ call.op = "clear" /\ call'.op \in {"none", "clear"} /\ UNCHANGED <<ptr, owned>>
              \/ /\ call.op \in {"scan", "mark"} /\ \A n : Full(n) => Full(n)'
                 /\ \E w \in Program :
                       /\ \A v : Calling(v) <=> v = w
                       /\ \/ /\ UNCHANGED <<ptr, owned>> /\ \A v : Calling(v)' <=> v = w
                             /\ call'.op \in {"scan", "mark"}
                             /\ call.op = "scan" =>
                                   \A s \in Nat : s <= Size[w] /\ Full(s) => call'.op = "scan"
                          \/ Return(w, NULL) /\ Full(Size[w])'
                          \/ call.op = "mark" /\ \E o \in Table : Return(w, o)
<1>1. CASE Scan
  <2>1. call.op = "scan"
    BY <1>1 DEF Scan
  <2>2. memmap' = memmap /\ Searched' /\ \A b \in Table : Seen(b)' => Seen(b) \/ memmap[b] = 0
    BY <1>1, ScanTurn
  <2>3. \A n : Full(n) => Full(n)'
    BY <2>2, FullKept
  <2> QED
    BY <1>1, <2>1, <2>2, <2>3, ScanTurn
<1>2. CASE Mark
  <2>1. PICK w \in Program, a \in Table, n \in Nat :
             /\ call = MarkCall(w, a, n) /\ n <= Size[w] /\ a + Size[w] <= Blocks
             /\ \/ n = Size[w] /\ Return(w, a)
                \/ /\ n < Size[w] /\ UNCHANGED <<ptr, owned, leaked, raced>>
                   /\ memmap' = [memmap EXCEPT ![a + n] = Size[w]]
                   /\ call' = MarkCall(w, a, n + 1)
    BY <1>2, MarkDoes
  <2>2. /\ call.op = "mark" /\ call'.op # "scan"
        /\ \A v : Calling(v) <=> v = w
    BY <2>1, CallFields DEF Calling, Return
  <2>3. Searched' /\ \A b : ~Seen(b)'
    BY <2>2 DEF Searched, Seen
  <2>4. \A b \in Table : memmap[b] # 0 => memmap'[b] # 0
    <3>1. Size[w] # 0
      BY PoolConstants
    <3> QED
      BY <2>1, <3>1 DEF PoolTypes, Return
  <2>5. \A m : Full(m) => Full(m)'
    BY <2>3, <2>4, FullKept
  <2>6. \/ \E o \in Table : Return(w, o)
        \/ UNCHANGED <<ptr, owned>> /\ call'.op = "mark" /\ \A v : Calling(v)' <=> v = w
    BY <2>1, CallFields DEF Calling
  <2> QED
    BY <2>2, <2>3, <2>5, <2>6
<1>3. CASE Clear
  <2>1. /\ call.op = "clear" /\ call'.op \in {"none", "clear"} /\ UNCHANGED <<ptr, owned>>
    BY <1>3, ClearDoes, CallFields
  <2> QED
    BY <2>1 DEF Searched
<1> QED
  BY <1>1, <1>2, <1>3 DEF PoolStep

LEMMA ReturnOthers ==
    ASSUME PoolTypes, NEW w \in Program, NEW o \in Table \cup {NULL}, Return(w, o)
    PROVE  /\ \A v \in Owners : v # w => ptr'[v] = ptr[v] /\ (v \in owned' <=> v \in owned)
           /\ ptr'[w] = o /\ (w \in owned' <=> o # NULL)
           /\ call' = NoCall /\ \A v : ~Calling(v)'
<1>1. w \in Owners /\ call' = NoCall /\ ptr' = [ptr EXCEPT ![w] = o]
      /\ owned' = IF o = NULL THEN owned \ {w} ELSE owned \cup {w}
  BY PoolConstants DEF Return
<1>2. \A v : ~Calling(v)'
  BY <1>1, CallFields DEF Calling
<1> QED
  BY <1>1, <1>2 DEF PoolTypes

LEMMA DriverTurn ==
    ASSUME DriverInv, StartInv, PoolStep, UNCHANGED startVars
    PROVE  DriverInv'
<1> SUFFICES ASSUME ~conFreed PROVE Searched' /\ Callers' /\ Refused' /\ Supplied'
  BY DEF DriverInv, startVars
<1>1. PoolTypes /\ Searched /\ Callers /\ Refused /\ Supplied /\ pc' = pc /\ todo' = todo
  BY DEF DriverInv, StartInv, PoolInv, startVars
<1>2. \A w \in DriverMemory : w \in Owners
  BY MemoryFacts
<1>3. \A h \in Range(LwipMemory) : h \in Owners /\ h \notin DriverMemory
  BY MemoryFacts, PoolConstants
<1>4. CASE call.op = "clear" /\ call'.op \in {"none", "clear"} /\ UNCHANGED <<ptr, owned>>
  <2>1. pc \notin {"eth", "lwip"} /\ call # NoCall /\ \A v : ~Calling(v)'
    BY <1>1, <1>4, CallFields DEF Callers, Calling
  <2>2. Callers' /\ Refused' /\ Supplied'
    BY <1>1, <1>4, <2>1 DEF Callers, Refused, Answered, Supplied
  <2> QED
    BY <1>1, <2>2, PoolTurn
<1>5. ASSUME call.op \in {"scan", "mark"}, \A n : Full(n) => Full(n)',
             NEW w \in Program, \A v : Calling(v) <=> v = w
      PROVE  /\ \/ /\ UNCHANGED <<ptr, owned>> /\ \A v : Calling(v)' <=> v = w
                   /\ call'.op \in {"scan", "mark"}
                   /\ call.op = "scan" =>
                         \A s \in Nat : s <= Size[w] /\ Full(s) => call'.op = "scan"
                \/ Return(w, NULL) /\ Full(Size[w])'
                \/ call.op = "mark" /\ \E o \in Table : Return(w, o)
             => Callers' /\ Refused' /\ Supplied'
  <2>0. /\ pc \notin {"reset", "link", "tcpip"}
        /\ pc = "eth" => w \in DriverMemory
        /\ pc \in {"lwip", "mbox_new", "started", "recvmbox_new"} => w \notin DriverMemory
    BY <1>1, <1>5, CallFields DEF Callers
  <2>1. CASE /\ UNCHANGED <<ptr, owned>> /\ \A v : Calling(v)' <=> v = w
             /\ call'.op \in {"scan", "mark"}
             /\ call.op = "scan" =>
                   \A s \in Nat : s <= Size[w] /\ Full(s) => call'.op = "scan"
    <3>1. Callers'
      BY <1>1, <2>0, <2>1 DEF Callers
    <3>2. \A u : Answered(u)' => u \in owned' \/ Full(Size[u])'
      BY <1>1, <1>5, <2>1 DEF Refused, Answered
    <3>3. ASSUME pc = "lwip", NEW u \in DriverMemory, NEW h \in Range(LwipMemory), u \notin owned,
                 Size[u] <= Size[h], h \notin Range(todo)
          PROVE  IF Calling(h)' THEN call'.op = "scan" ELSE ptr'[h] = NULL
      <4>1. IF Calling(h) THEN call.op = "scan" ELSE ptr[h] = NULL
        BY <1>1, <3>3 DEF Refused
      <4>2. Full(Size[u]) /\ Size[u] \in Nat
        BY <1>1, <3>3, MemoryFacts DEF Refused, Answered
      <4> QED
        BY <1>5, <2>1, <3>3, <4>1, <4>2
    <3>4. Refused'
      BY <1>1, <2>1, <3>2, <3>3 DEF Refused
    <3> QED
      BY <1>1, <2>1, <3>1, <3>4 DEF Supplied
  <2>2. ASSUME NEW o \in Table \cup {NULL}, Return(w, o), o = NULL => Full(Size[w])',
               o # NULL => call.op = "mark"
        PROVE  Callers' /\ Refused' /\ Supplied'
    <3>1. /\ \A v \in Owners : v # w => ptr'[v] = ptr[v] /\ (v \in owned' <=> v \in owned)
          /\ ptr'[w] = o /\ (w \in owned' <=> o # NULL)
          /\ call' = NoCall /\ call'.op = "none" /\ \A v : ~Calling(v)'
      BY <1>1, <2>2, ReturnOthers, CallFields
    <3>2. Callers'
      BY <1>1, <3>1 DEF Callers
    <3>3. \A u : Answered(u)' => u \in owned' \/ Full(Size[u])'
      BY <1>1, <1>2, <1>5, <2>0, <2>2, <3>1 DEF Refused, Answered
    <3>4. ASSUME pc = "lwip", NEW u \in DriverMemory, NEW h \in Range(LwipMemory), u \notin owned',
                 Size[u] <= Size[h], h \notin Range(todo)
          PROVE  ptr'[h] = NULL
      <4>1. u \notin owned
        BY <1>2, <2>0, <3>1, <3>4
      <4>2. IF Calling(h) THEN call.op = "scan" ELSE ptr[h] = NULL
        BY <1>1, <3>4, <4>1 DEF Refused
      <4> QED
        BY <1>3, <1>5, <2>2, <3>1, <4>2
    <3>5. Refused'
      BY <1>1, <3>1, <3>3, <3>4 DEF Refused
    <3>6. Supplied'
      BY <1>1, <1>2, <2>0, <3>1 DEF Supplied, Phy
    <3> QED
      BY <3>2, <3>5, <3>6
  <2>3. NULL \notin Table
    BY PoolConstants
  <2> QED
    BY <2>1, <2>2, <2>3
<1> QED
  BY <1>1, <1>4, <1>5, PoolTurn

(* A step that leaves the pool alone, but for the beginning of a call. *)
LEMMA DriverStays ==
    ASSUME UNCHANGED poolVars
    PROVE  /\ Searched => Searched'
           /\ \A n : Full(n)' <=> Full(n)
           /\ \A v : Calling(v)' <=> Calling(v)
           /\ call' = call /\ owned' = owned /\ ptr' = ptr
BY DEF poolVars, Searched, Full, Seen, Calling

LEMMA DriverMalloc ==
    ASSUME NEW w \in Program, Malloc(w)
    PROVE  /\ Searched' /\ \A n : Full(n) => Full(n)'
           /\ \A v : (Calling(v)' <=> v = w) /\ ~Calling(v)
           /\ call = NoCall /\ call'.op = "scan" /\ owned' = owned /\ ptr' = ptr
<1>1. call = NoCall /\ call' = ScanCall(w, Blocks - 1, 0)
      /\ UNCHANGED <<memmap, ptr, owned, leaked, raced>>
  BY MallocDoes
<1>2. /\ call.op = "none"
      /\ call'.op = "scan" /\ call'.who = w /\ call'.at = Blocks - 1 /\ call'.n = 0
  BY <1>1, CallFields
<1>3. /\ Blocks \in Nat /\ Table = 0 .. Blocks - 1 /\ (Blocks - 1) + 1 + 0 = Blocks
      /\ \A b \in Table : ~(Blocks - 1 < b)
  BY PoolConstants
<1>4. Searched'
  BY <1>2, <1>3 DEF Searched
<1>5. \A b \in Table : ~Seen(b)'
  BY <1>2, <1>3 DEF Seen
<1>6. \A n : Full(n) => Full(n)'
  BY <1>1, <1>5, FullKept
<1> QED
  BY <1>1, <1>2, <1>4, <1>6 DEF Calling

LEMMA DriverFree ==
    ASSUME NEW w \in Program, FreeCall(w)
    PROVE  Searched' /\ \A v : v # w => (v \in owned' <=> v \in owned) /\ ~Calling(v)'
<1>1. call = NoCall /\ (call' = call \/ \E a, l : call' = ClearCall(w, a, 0, l))
      /\ (owned' = owned \/ owned' = owned \ {w})
  BY FreeDoes
<1>2. call'.op \in {"none", "clear"}
  BY <1>1, CallFields
<1> QED
  BY <1>1, <1>2 DEF Searched, Calling

LEMMA DriverBegins ==
    ASSUME pc = "eth", todo = EthMemory, call = NoCall
    PROVE  Searched /\ Callers /\ Refused /\ Supplied
BY CallFields DEF Searched, Callers, Calling, Refused, Answered, Supplied, Phy, DriverMemory

LEMMA DriverBeginsAgain ==
    ASSUME pc' = "eth", todo' = EthMemory, call' = NoCall
    PROVE  Searched' /\ Callers' /\ Refused' /\ Supplied'
BY CallFields DEF Searched, Callers, Calling, Refused, Answered, Supplied, Phy, DriverMemory

(* lwip_comm_init, called by main. *)
LEMMA DriverStart ==
    ASSUME DriverInv, StartInv, Start
    PROVE  DriverInv'
<1>0. conFreed' = conFreed
  BY DEF Start, Allocate, EthAllocated, LwipAllocated, FreeLwip, PhyReset, PhyInit, TcpipInit, MboxNew
<1> SUFFICES ASSUME ~conFreed PROVE Searched' /\ Callers' /\ Refused' /\ Supplied'
  BY <1>0 DEF DriverInv
<1>1. Searched /\ Callers /\ Refused /\ Supplied /\ todo \in Seq(Program)
  BY DEF DriverInv, StartInv, StartTypes
<1>2. CASE Allocate
  <2>1. /\ pc \in {"eth", "lwip"} /\ todo # <<>> /\ Malloc(Head(todo))
        /\ pc' = pc /\ todo' = Tail(todo)
    BY <1>2 DEF Allocate, Go
  <2>2. PICK h \in Program : h = Head(todo)
    BY <1>1, <2>1, TailOfTodo
  <2>3. \A x : x \in Range(todo) <=> x = h \/ x \in Range(todo')
    BY <1>1, <2>1, <2>2, TailOfTodo
  <2>4. /\ Searched' /\ \A n : Full(n) => Full(n)'
        /\ \A v : (Calling(v)' <=> v = h) /\ ~Calling(v)
        /\ call'.op = "scan" /\ owned' = owned /\ ptr' = ptr
    BY <2>1, <2>2, DriverMalloc
  <2>5. (pc = "eth" => h \in DriverMemory) /\ (pc = "lwip" => h \notin DriverMemory)
    BY <1>1, <2>1, <2>3, MemoryFacts DEF Callers
  <2>6. Callers'
    BY <1>1, <2>1, <2>3, <2>4, <2>5 DEF Callers
  <2>7. Refused'
    BY <1>1, <2>1, <2>3, <2>4 DEF Refused, Answered
  <2> QED
    BY <2>1, <2>4, <2>6, <2>7 DEF Supplied, Phy
<1>3. CASE EthAllocated
  <2>1. pc = "eth" /\ todo = <<>> /\ call = NoCall /\ pc' = "lwip" /\ todo' = LwipMemory
        /\ UNCHANGED poolVars
    BY <1>3 DEF EthAllocated, Go
  <2>2. Range(todo) = {} /\ call.op = "none"
    BY <2>1, CallFields DEF Range
  <2>3. \A v : ~Calling(v) /\ ~Calling(v)'
    BY <2>1, <2>2, DriverStays DEF Calling
  <2>4. \A w : Answered(w)' => Answered(w)
    BY <2>1, <2>2, <2>3 DEF Answered
  <2>5. Refused'
    BY <1>1, <2>1, <2>4, DriverStays DEF Refused
  <2> QED
    BY <1>1, <2>1, <2>2, <2>3, <2>5, DriverStays DEF Callers, Supplied, Phy
<1>4. CASE LwipAllocated
  <2>1. /\ pc = "lwip" /\ todo = <<>> /\ call = NoCall /\ UNCHANGED poolVars
        /\ \/ pc' = "free"
           \/ pc' = "reset" /\ \A i \in DOMAIN LwipMemory : ptr[LwipMemory[i]] # NULL
    BY <1>4 DEF LwipAllocated, Go
  <2>2. Range(todo) = {} /\ call.op = "none" /\ \A v : ~Calling(v)
    BY <2>1, CallFields DEF Range, Calling
  <2>3. pc' = "reset" => DriverMemory \subseteq owned
    <3> SUFFICES ASSUME pc' = "reset", NEW w \in DriverMemory PROVE w \in owned
      OBVIOUS
    <3>1. PICK h \in DOMAIN LwipMemory : \A v \in DriverMemory : Size[v] <= Size[LwipMemory[h]]
      BY MemoryFacts
    <3>2. LwipMemory[h] \in Range(LwipMemory)
      BY DEF Range
    <3>3. ptr[LwipMemory[h]] # NULL
      BY <2>1
    <3> QED
      BY <1>1, <2>1, <2>2, <3>1, <3>2, <3>3 DEF Refused
  <2>4. Callers' /\ Refused'
    BY <2>1, DriverStays DEF Callers, Refused, Answered
  <2> QED
    BY <1>1, <2>1, <2>3, <2>4, DriverStays DEF Supplied, Phy
<1>5. CASE FreeLwip
  <2>1. CASE todo = <<>>
    <3>1. call = NoCall /\ pc' = "eth" /\ todo' = EthMemory /\ UNCHANGED poolVars
      BY <1>5, <2>1 DEF FreeLwip, Go
    <3> QED
      BY <3>1, DriverStays, DriverBeginsAgain
  <2>2. CASE todo # <<>>
    <3>1. FreeCall(Head(todo)) /\ pc' = "free"
      BY <1>5, <2>2 DEF FreeLwip, Go
    <3>2. Searched'
      BY <1>1, <2>2, <3>1, DriverFree, TailOfTodo
    <3> QED
      BY <3>1, <3>2 DEF Callers, Refused, Answered, Supplied, Phy
  <2> QED
    BY <2>1, <2>2
<1>6. CASE PhyReset
  <2>1. pc = "reset" /\ pc' = "link" /\ UNCHANGED poolVars
    BY <1>6 DEF PhyReset, Go
  <2> QED
    BY <1>1, <2>1, DriverStays DEF Callers, Refused, Answered, Supplied, Phy
<1>7. CASE PhyInit
  <2>1. pc = "link" /\ UNCHANGED poolVars
        /\ (pc' \in {"tcpip", "reset"} \/ (pc' = "eth" /\ todo' = EthMemory))
    BY <1>7 DEF PhyInit, Go
  <2>2. call = NoCall
    BY <1>1, <2>1 DEF Callers
  <2>3. CASE pc' \in {"tcpip", "reset"}
    BY <1>1, <2>1, <2>2, <2>3, DriverStays DEF Callers, Refused, Answered, Supplied, Phy
  <2>4. CASE pc' = "eth" /\ todo' = EthMemory
    BY <2>1, <2>2, <2>4, DriverStays, DriverBeginsAgain
  <2> QED
    BY <2>1, <2>3, <2>4
<1>8. CASE TcpipInit
  <2>1. pc = "tcpip" /\ Malloc("mbox") /\ pc' = "mbox_new"
    BY <1>8 DEF TcpipInit, Go
  <2>2. Searched' /\ owned' = owned /\ \A v : Calling(v)' <=> v = "mbox"
    BY <2>1, DriverMalloc, MemoryFacts
  <2> QED
    BY <1>1, <2>1, <2>2, MemoryFacts DEF Callers, Refused, Answered, Supplied, Phy
<1>9. CASE MboxNew
  <2>1. pc = "mbox_new" /\ pc' = "started" /\ UNCHANGED poolVars
    BY <1>9 DEF MboxNew, Go
  <2> QED
    BY <1>1, <2>1, DriverStays DEF Callers, Refused, Answered, Supplied, Phy
<1> QED
  BY <1>2, <1>3, <1>4, <1>5, <1>6, <1>7, <1>8, <1>9 DEF Start

LEMMA DriverMailboxes ==
    ASSUME DriverInv, Mailboxes
    PROVE  DriverInv'
<1>0. conFreed' = conFreed
  BY DEF Mailboxes, RecvmboxNew, RecvmboxMade, RecvmboxFree, startVars
<1> SUFFICES ASSUME ~conFreed PROVE Searched' /\ Callers' /\ Refused' /\ Supplied'
  BY <1>0 DEF DriverInv
<1>1. Searched /\ Callers /\ Supplied /\ "recvmbox" \in Program /\ "recvmbox" \notin DriverMemory
  BY MemoryFacts DEF DriverInv
<1>2. CASE RecvmboxNew
  <2>1. pc = "started" /\ Malloc("recvmbox") /\ pc' = "recvmbox_new"
    BY <1>2 DEF RecvmboxNew, Go
  <2>2. Searched' /\ owned' = owned /\ \A v : Calling(v)' <=> v = "recvmbox"
    BY <1>1, <2>1, DriverMalloc
  <2> QED
    BY <1>1, <2>1, <2>2 DEF Callers, Refused, Answered, Supplied, Phy
<1>3. CASE RecvmboxMade \/ RecvmboxFree
  <2>1. /\ pc \in {"started", "recvmbox_new"} /\ pc' = "started"
        /\ UNCHANGED poolVars \/ FreeCall("recvmbox")
    BY <1>3 DEF RecvmboxMade, RecvmboxFree, Go, startVars
  <2>2. /\ Searched' /\ \A v : v \in DriverMemory => (v \in owned' <=> v \in owned)
        /\ \A v \in DriverMemory : ~Calling(v)'
    <3>1. CASE UNCHANGED poolVars
      BY <1>1, <2>1, <3>1, DriverStays DEF Callers
    <3>2. CASE FreeCall("recvmbox")
      BY <1>1, <3>2, DriverFree
    <3> QED
      BY <2>1, <3>1, <3>2
  <2> QED
    BY <1>1, <2>1, <2>2 DEF Callers, Refused, Answered, Supplied, Phy
<1> QED
  BY <1>2, <1>3 DEF Mailboxes

(* The console takes memory; what it gives back, the invariant does not speak of. *)
LEMMA DriverConsole ==
    ASSUME DriverInv, StartInv, UNCHANGED <<pc, todo, conFreed>>,
           NEW k \in Console, ConsoleMalloc(k)
    PROVE  DriverInv'
<1> SUFFICES ASSUME ~conFreed PROVE Searched' /\ Callers' /\ Refused' /\ Supplied'
  BY DEF DriverInv
<1>1. PoolTypes /\ Searched /\ Callers /\ Refused /\ Supplied
  BY DEF DriverInv, StartInv, PoolInv
<1>2. /\ call' = call
      /\ \A v \in Owners : v # k => ptr'[v] = ptr[v] /\ (v \in owned' <=> v \in owned)
  <2>1. PICK o : ptr' = [ptr EXCEPT ![k] = o] /\ owned' \in {owned \ {k}, owned \cup {k}} /\ call' = call
    BY <1>1, ConsoleMallocDoes
  <2> QED
    BY <1>1, <2>1 DEF PoolTypes
<1>3. \A v : (v \in DriverMemory \/ v \in Range(LwipMemory)) => v \in Owners /\ v # k
  BY MemoryFacts, PoolConstants
<1>4. \A b \in Table : memmap[b] # 0 => memmap'[b] # 0
  <2>1. Size[k] # 0
    BY PoolConstants
  <2> QED
    BY <1>1, <2>1, ConsoleMallocDoes DEF PoolTypes
<1>5. \A b : Seen(b)' <=> Seen(b)
  BY <1>2 DEF Seen
<1>6. \A n : Full(n) => Full(n)'
  BY <1>4, <1>5, FullKept
<1>7. \A v : Calling(v)' <=> Calling(v)
  BY <1>2 DEF Calling
<1>8. Searched'
  BY <1>1, <1>2, <1>4 DEF Searched
<1>9. Callers'
  BY <1>1, <1>2, <1>7 DEF Callers
<1>10. \A w : Answered(w)' => w \in owned' \/ Full(Size[w])'
  BY <1>1, <1>2, <1>3, <1>6, <1>7 DEF Refused, Answered
<1>11. Refused'
  BY <1>1, <1>2, <1>3, <1>7, <1>10 DEF Refused
<1>12. Supplied'
  BY <1>1, <1>2, <1>3 DEF Supplied
<1> QED
  BY <1>8, <1>9, <1>11, <1>12

LEMMA DriverQuiet ==
    ASSUME DriverInv, UNCHANGED <<poolVars, pc, todo, conFreed>>
    PROVE  DriverInv'
BY DriverStays DEF DriverInv, Callers, Refused, Answered, Supplied

(* A piece of the driver that was refused stays refused, and so is the heap. *)
THEOREM DriverInvariance == Spec => []DriverInv
<1>1. Init => DriverInv
  BY PoolBegins, DriverBegins DEF Init, PoolInit, DriverInv
<1>2. DriverInv /\ StartInv /\ [Next]_vars => DriverInv'
  <2> SUFFICES ASSUME DriverInv, StartInv, [Next]_vars PROVE DriverInv'
    OBVIOUS
  <2>1. CASE Start \/ Mailboxes
    BY <2>1, DriverStart, DriverMailboxes
  <2>2. CASE PoolStep /\ UNCHANGED startVars
    BY <2>2, DriverTurn
  <2>3. CASE UsmartScan
    <3>1. UNCHANGED <<pc, todo>>
      BY <2>3 DEF UsmartScan
    <3>2. \/ \E k \in Console : ConsoleMalloc(k) /\ UNCHANGED conFreed
          \/ conFreed' = TRUE
          \/ UNCHANGED <<poolVars, conFreed>>
      BY <2>3 DEF UsmartScan
    <3>3. CASE conFreed' = TRUE
      BY <3>3 DEF DriverInv
    <3> QED
      BY <3>1, <3>2, <3>3, DriverConsole, DriverQuiet
  <2>4. CASE UNCHANGED <<poolVars, pc, todo, conFreed>>
    BY <2>4, DriverQuiet
  <2> QED
    BY <2>1, <2>2, <2>3, <2>4
       DEF Next, Task, Interrupt, Operator, LinkUp, vars, startVars
<1> QED
  BY <1>1, <1>2, StartInvariance, PTL DEF Spec

(* lan8720.c:169 tests the addresses of the two pointers, which are never 0: that the DMA
   is all the same not started on memory that was refused, is due to the test of the heap
   that follows.  Unless the console freed memory in between. *)
THEOREM DriverGetsMemory == Spec => []DmaMemoryOwned
<1>1. DriverInv => DmaMemoryOwned
  BY DEF DriverInv, Supplied, Phy, DmaMemoryOwned, DriverMemory, Range
<1> QED
  BY <1>1, DriverInvariance, PTL

-----------------------------------------------------------------------------
(* The first start.  Its pieces are found one below the other, from the top of the pool;
   a second one overwrites the pointers of the first, and so leaves blocks behind. *)

StartPieces == Append(EthMemory \o LwipMemory, "mbox")
Last == Len(StartPieces)

\* The pieces fit: place says where each begins, each ending where the one before begins.
LaidOut(place) ==
    /\ place \in [0 .. Last -> 0 .. Blocks] /\ place[0] = Blocks
    /\ \A i \in 1 .. Last : place[i] + Size[StartPieces[i]] = place[i - 1]

Clean == leaked = {} /\ Console \cap owned = {} /\ ~conFreed

\* Nothing is in use below the first k pieces but what the call under way has marked.
Filled(place, k) ==
    \A b \in Table : memmap[b] # 0 <=>
        \/ place[k] <= b
        \/ call.op = "mark" /\ call.at <= b /\ b < call.at + call.n

\* A call is for the piece after the first k, and will find its place.
Finding(place, k) ==
    call # NoCall =>
        /\ k < Last /\ call.who = StartPieces[k + 1]
        /\ \/ /\ call.op = "scan" /\ call.n < Size[call.who]
              /\ call.at + 1 + call.n = place[k] \/ (call.n = 0 /\ place[k] <= call.at)
           \/ call.op = "mark" /\ call.at = place[k + 1] /\ call.n <= Size[call.who]

Asked(k) == IF call = NoCall THEN k ELSE k + 1

\* How many pieces there are up to the end of todo.
Until ==
    CASE pc = "eth" -> Len(EthMemory)
      [] pc = "mbox_new" -> Last
      [] OTHER -> Len(EthMemory) + Len(LwipMemory)

\* The pieces after these are the next.
Ahead(k) ==
    /\ Asked(k) + Len(todo) = Until
    /\ \A i \in 1 .. Len(todo) : todo[i] = StartPieces[Asked(k) + i]

First(place) ==
    /\ pc \in {"eth", "lwip", "reset", "link", "tcpip", "mbox_new"}
    /\ \E k \in 0 .. Last : Filled(place, k) /\ Finding(place, k) /\ Ahead(k)
    /\ pc \notin {"eth", "lwip"} => todo = <<>>
    /\ pc = "lwip" => \A w \in Range(LwipMemory) : w \in Range(todo) \/ Calling(w) \/ ptr[w] # NULL
    /\ pc \in {"reset", "link"} => Range(LwipMemory) \subseteq owned
    /\ pc = "mbox_new" => Calling("mbox") \/ ptr["mbox"] # NULL

\* The next answer overwrites the pointer to a piece of the first start.
Again ==
    /\ pc \in {"eth", "lwip"}
    /\ pc = "eth" => Range(LwipMemory) \subseteq owned
    /\ pc = "lwip" => todo # <<>> \/ \E w : Calling(w)
    /\ \A w : w \in Range(todo) \/ Calling(w) => w \in owned
    /\ call.op # "clear"

Started == pc \in {"started", "recvmbox_new"}

RoomInv(place) == Clean => First(place) \/ Again \/ Started

LEMMA PieceFacts ==
    /\ EthMemory \in Seq(Program) /\ LwipMemory \in Seq(Program) /\ StartPieces \in Seq(Program)
    /\ Len(EthMemory) \in Nat /\ Len(LwipMemory) \in Nat /\ LwipMemory # <<>>
    /\ Last = Len(EthMemory) + Len(LwipMemory) + 1 /\ Last \in Nat
    /\ \A i \in 1 .. Len(EthMemory) : StartPieces[i] = EthMemory[i]
    /\ \A i \in 1 .. Len(LwipMemory) : StartPieces[Len(EthMemory) + i] = LwipMemory[i]
    /\ StartPieces[Last] = "mbox"
    /\ \A i \in 1 .. Last : StartPieces[i] \in Program
<1>1. /\ EthMemory \in Seq(Program) /\ LwipMemory \in Seq(Program)
      /\ Len(EthMemory) \in Nat /\ Len(LwipMemory) \in Nat
  BY MemoryAssumption
<1>2. /\ EthMemory \o LwipMemory \in Seq(Program)
      /\ Len(EthMemory \o LwipMemory) = Len(EthMemory) + Len(LwipMemory)
      /\ \A i \in 1 .. Len(EthMemory) : (EthMemory \o LwipMemory)[i] = EthMemory[i]
      /\ \A i \in 1 .. Len(LwipMemory) : (EthMemory \o LwipMemory)[Len(EthMemory) + i] = LwipMemory[i]
  BY <1>1
<1>3. "mbox" \in Program
  BY MemoryAssumption
<1>6. /\ StartPieces \in Seq(Program) /\ Last = Len(EthMemory \o LwipMemory) + 1
      /\ \A i \in 1 .. Len(EthMemory \o LwipMemory) : StartPieces[i] = (EthMemory \o LwipMemory)[i]
      /\ StartPieces[Last] = "mbox"
  BY <1>2, <1>3 DEF StartPieces, Last
<1>7. Last = Len(EthMemory) + Len(LwipMemory) + 1 /\ Last \in Nat
  BY <1>1, <1>2, <1>6
<1>8. \A i \in 1 .. Len(EthMemory) : i \in 1 .. Len(EthMemory \o LwipMemory)
  BY <1>1, <1>2
<1>9. \A i \in 1 .. Len(LwipMemory) : Len(EthMemory) + i \in 1 .. Len(EthMemory \o LwipMemory)
  BY <1>1, <1>2
<1>10. LwipMemory # <<>>
  BY HeapAssumption
<1>11. \A i \in 1 .. Last : StartPieces[i] \in Program
  BY <1>6 DEF Last
<1> QED
  BY <1>1, <1>2, <1>6, <1>7, <1>8, <1>9, <1>10, <1>11

LEMMA PlaceFacts ==
    ASSUME NEW place, LaidOut(place), NEW k \in 0 .. Last
    PROVE  /\ place[k] \in 0 .. Blocks /\ k \in Nat
           /\ k < Last => /\ k + 1 \in 0 .. Last /\ StartPieces[k + 1] \in Program
                          /\ place[k + 1] \in Nat
                          /\ place[k + 1] + Size[StartPieces[k + 1]] = place[k]
<1>1. Last \in Nat /\ k \in Nat /\ place[k] \in 0 .. Blocks
  <2>1. Last \in Nat
    BY PieceFacts
  <2>2. place[k] \in 0 .. Blocks
    BY DEF LaidOut
  <2> QED
    BY <2>1, <2>2
<1>2. ASSUME k < Last
      PROVE  /\ k + 1 \in 0 .. Last /\ StartPieces[k + 1] \in Program /\ place[k + 1] \in Nat
             /\ place[k + 1] + Size[StartPieces[k + 1]] = place[k]
  <2>1. k + 1 \in 1 .. Last /\ k + 1 \in 0 .. Last /\ (k + 1) - 1 = k
    BY <1>1, <1>2
  <2>2. place[k + 1] \in 0 .. Blocks
    BY <2>1 DEF LaidOut
  <2>3. place[k + 1] + Size[StartPieces[k + 1]] = place[(k + 1) - 1]
    BY <2>1 DEF LaidOut
  <2> QED
    BY <2>1, <2>2, <2>3, PieceFacts, PoolConstants
<1> QED
  BY <1>1, <1>2

(* A turn of a call brings it nearer to the place of its piece, or returns it. *)
LEMMA FindsPlace ==
    ASSUME PoolTypes, NEW place, LaidOut(place), NEW k \in 0 .. Last,
           Filled(place, k), Finding(place, k), PoolStep
    PROVE  /\ k < Last /\ call # NoCall /\ \A v : Calling(v) <=> v = StartPieces[k + 1]
           /\ \/ /\ UNCHANGED <<ptr, owned, leaked>> /\ Filled(place, k)' /\ Finding(place, k)'
                 /\ call' # NoCall /\ \A v : Calling(v)' <=> v = StartPieces[k + 1]
              \/ /\ \E o \in Table : Return(StartPieces[k + 1], o)
                 /\ Filled(place, k + 1)' /\ Finding(place, k + 1)'
<1>1. call.op \in {"scan", "mark", "clear"} /\ call # NoCall
  BY CallFields DEF PoolStep, Scan, Mark, Clear
<1>2. /\ k < Last /\ call.who = StartPieces[k + 1] /\ call.op \in {"scan", "mark"}
      /\ \A v : Calling(v) <=> v = StartPieces[k + 1]
  BY <1>1 DEF Finding, Calling
<1>3. PICK w \in Program : w = StartPieces[k + 1]
  BY <1>2, PlaceFacts
<1>4. /\ place[k] \in 0 .. Blocks /\ place[k + 1] \in Nat /\ place[k + 1] + Size[w] = place[k]
      /\ Size[w] \in Nat /\ Size[w] # 0 /\ k \in Nat
      /\ Table = 0 .. Blocks - 1 /\ Blocks \in Nat /\ NULL = -1
  BY <1>2, <1>3, PlaceFacts, PoolConstants
<1>5. CASE call.op = "scan"
  <2>1. PICK v \in Program, a \in Table \cup {NULL}, n \in Nat :
             /\ call = ScanCall(v, a, n) /\ n < Size[v] /\ a + 1 + n <= Blocks
             /\ \/ a = NULL /\ Return(v, NULL)
                \/ /\ a \in Table /\ UNCHANGED <<memmap, ptr, owned, leaked, raced>>
                   /\ \/ memmap[a] = 0 /\ n + 1 = Size[v] /\ call' = MarkCall(v, a, 0)
                      \/ memmap[a] = 0 /\ n + 1 < Size[v] /\ call' = ScanCall(v, a - 1, n + 1)
                      \/ memmap[a] # 0 /\ call' = ScanCall(v, a - 1, 0)
    BY <1>5, ScanDoes DEF PoolStep, Mark, Clear
  <2>2. /\ v = w /\ call.at = a /\ call.n = n /\ n < Size[w]
        /\ a + 1 + n = place[k] \/ (n = 0 /\ place[k] <= a)
    BY <1>1, <1>2, <1>3, <1>5, <2>1, CallFields DEF Finding
  <2>3. \A b \in Table : memmap[b] # 0 <=> place[k] <= b
    BY <1>5 DEF Filled
  <2>4. a # NULL
    BY <1>4, <2>2
  <2>5. /\ a \in Table /\ a \in Int /\ memmap' = memmap /\ UNCHANGED <<ptr, owned, leaked>>
    BY <1>4, <2>1, <2>4
  <2>6. CASE memmap[a] = 0 /\ n + 1 = Size[w] /\ call' = MarkCall(w, a, 0)
    <3>1. call'.op = "mark" /\ call'.at = a /\ call'.n = 0 /\ call'.who = w
          /\ call' # NoCall
      BY <2>6, CallFields
    <3>2. a = place[k + 1] /\ 0 <= Size[w]
      <4>1. ~(place[k] <= a)
        BY <2>3, <2>5, <2>6
      <4>2. a + 1 + n = place[k]
        BY <2>2, <4>1
      <4>3. \A q \in Nat, i \in Int : q + (n + 1) = i + 1 + n => i = q
        OBVIOUS
      <4>4. place[k + 1] + (n + 1) = a + 1 + n /\ 0 <= Size[w]
        BY <1>4, <2>6, <4>2
      <4> QED
        BY <1>4, <2>5, <4>3, <4>4
    <3>3. Filled(place, k)'
      BY <2>3, <2>5, <3>1 DEF Filled
    <3>4. Finding(place, k)'
      BY <1>2, <1>3, <3>1, <3>2 DEF Finding
    <3>5. \A u : Calling(u)' <=> u = w
      BY <3>1 DEF Calling
    <3> QED
      BY <1>1, <1>2, <1>3, <2>5, <3>1, <3>3, <3>4, <3>5
  <2>7. ASSUME NEW m \in Nat, call' = ScanCall(w, a - 1, m), m < Size[w],
               (a - 1) + 1 + m = place[k] \/ (m = 0 /\ place[k] <= a - 1)
        PROVE  /\ Filled(place, k)' /\ Finding(place, k)' /\ call' # NoCall
               /\ \A u : Calling(u)' <=> u = StartPieces[k + 1]
    <3>1. call'.op = "scan" /\ call'.at = a - 1 /\ call'.n = m /\ call'.who = w
          /\ call' # NoCall
      BY <2>7, CallFields
    <3>3. Filled(place, k)'
      BY <2>3, <2>5, <3>1 DEF Filled
    <3>4. Finding(place, k)'
      BY <1>2, <1>3, <2>7, <3>1 DEF Finding
    <3>5. \A u : Calling(u)' <=> u = w
      BY <3>1 DEF Calling
    <3> QED
      BY <1>3, <3>1, <3>3, <3>4, <3>5
  <2>8. CASE memmap[a] = 0 /\ n + 1 < Size[w] /\ call' = ScanCall(w, a - 1, n + 1)
    <3>1. (a - 1) + 1 + (n + 1) = place[k] /\ n + 1 \in Nat
      BY <1>4, <2>2, <2>3, <2>5, <2>8
    <3> QED
      BY <1>1, <1>2, <2>5, <2>7, <2>8, <3>1
  <2>9. CASE memmap[a] # 0 /\ call' = ScanCall(w, a - 1, 0)
    <3>1. (a - 1) + 1 + 0 = place[k] \/ (0 = 0 /\ place[k] <= a - 1)
      <4>1. place[k] <= a
        BY <2>3, <2>5, <2>9
      <4>2. \A p \in Nat : p <= a => (a - 1) + 1 + 0 = p \/ p <= a - 1
        BY <2>5
      <4>3. place[k] \in Nat
        BY <1>4
      <4> QED
        BY <4>1, <4>2, <4>3
    <3>2. 0 \in Nat /\ 0 < Size[w]
      BY <1>4
    <3> QED
      BY <1>1, <1>2, <2>5, <2>7, <2>9, <3>1, <3>2
  <2> QED
    BY <2>1, <2>2, <2>4, <2>6, <2>8, <2>9
<1>6. CASE call.op = "mark"
  <2>1. PICK v \in Program, a \in Table, n \in Nat :
             /\ call = MarkCall(v, a, n) /\ n <= Size[v] /\ a + Size[v] <= Blocks
             /\ \/ n = Size[v] /\ Return(v, a)
                \/ /\ n < Size[v] /\ UNCHANGED <<ptr, owned, leaked, raced>>
                   /\ memmap' = [memmap EXCEPT ![a + n] = Size[v]]
                   /\ call' = MarkCall(v, a, n + 1)
    BY <1>6, MarkDoes DEF PoolStep, Scan, Clear
  <2>2. v = w /\ call.at = a /\ call.n = n /\ a = place[k + 1]
    BY <1>1, <1>2, <1>3, <1>6, <2>1, CallFields DEF Finding
  <2>3. \A b \in Table : memmap[b] # 0 <=> place[k] <= b \/ (a <= b /\ b < a + n)
    BY <1>6, <2>2 DEF Filled
  <2>4. CASE n = Size[w] /\ Return(w, a)
    <3>1. memmap' = memmap /\ call' = NoCall /\ call'.op = "none"
      BY <2>4, CallFields DEF Return
    <3>2. \A b \in Table : memmap[b] # 0 <=> place[k + 1] <= b
      <4>1. PICK p \in Nat : p = place[k]
        BY <1>4
      <4>2. a + n = p /\ a \in Nat /\ Table \subseteq Nat
        BY <1>4, <2>2, <2>4, <4>1
      <4>3. \A b \in Nat : (p <= b \/ (a <= b /\ b < a + n)) <=> a <= b
        BY <2>1, <4>2
      <4> QED
        BY <2>2, <2>3, <4>1, <4>2, <4>3
    <3>3. Filled(place, k + 1)' /\ Finding(place, k + 1)'
      BY <3>1, <3>2 DEF Filled, Finding
    <3> QED
      BY <1>1, <1>2, <1>3, <2>4, <3>3
  <2>5. CASE n < Size[w] /\ UNCHANGED <<ptr, owned, leaked, raced>>
             /\ memmap' = [memmap EXCEPT ![a + n] = Size[w]] /\ call' = MarkCall(w, a, n + 1)
    <3>1. call'.op = "mark" /\ call'.at = a /\ call'.n = n + 1 /\ call'.who = w
          /\ call' # NoCall
      BY <2>5, CallFields
    <3>2. \A b \in Table : memmap'[b] # 0 <=> place[k] <= b \/ (a <= b /\ b < a + (n + 1))
      <4>1. \A b \in Table : memmap'[b] = IF b = a + n THEN Size[w] ELSE memmap[b]
        BY <2>5 DEF PoolTypes
      <4>2. \A b \in Table : (a <= b /\ b < a + (n + 1)) <=> b = a + n \/ (a <= b /\ b < a + n)
        BY <1>4
      <4> QED
        BY <1>4, <2>3, <4>1, <4>2
    <3>3. Filled(place, k)'
      BY <3>1, <3>2 DEF Filled
    <3>4. n + 1 <= Size[w]
      BY <1>4, <2>5
    <3>5. Finding(place, k)'
      BY <1>2, <1>3, <2>2, <3>1, <3>4 DEF Finding
    <3>6. \A u : Calling(u)' <=> u = w
      BY <3>1 DEF Calling
    <3> QED
      BY <1>1, <1>2, <1>3, <2>5, <3>1, <3>3, <3>5, <3>6
  <2> QED
    BY <2>1, <2>2, <2>4, <2>5
<1> QED
  BY <1>2, <1>5, <1>6

(* What is left behind stays so, and what the console holds is freed by the console. *)
LEMMA ReturnLeaks ==
    ASSUME PoolTypes, NEW w \in Program, NEW o \in Table \cup {NULL}, Return(w, o)
    PROVE  /\ leaked \subseteq leaked' /\ Console \cap owned = Console \cap owned'
           /\ w \in owned => leaked' # {}
<1>1. w \notin Console /\ w \in Owners /\ Size[w] \in Nat /\ Size[w] # 0
  BY PoolConstants
<1>2. w \in owned => ptr[w] \in Held(w)
  <2> HAVE w \in owned
  <2>1. ptr[w] \in Int
    BY <1>1, PoolConstants DEF PoolTypes
  <2> QED
    BY <1>1, <2>1 DEF Held, Run
<1> QED
  BY <1>1, <1>2 DEF Return

LEMMA TurnLeaks ==
    ASSUME PoolTypes, PoolStep
    PROVE  leaked \subseteq leaked' /\ Console \cap owned = Console \cap owned'
<1>1. CASE Scan
  BY <1>1, ScanDoes, ReturnLeaks
<1>2. CASE Mark
  BY <1>2, MarkDoes, ReturnLeaks
<1>3. CASE Clear
  BY <1>3, ClearDoes
<1> QED
  BY <1>1, <1>2, <1>3 DEF PoolStep

LEMMA RoomTurn ==
    ASSUME NEW place, LaidOut(place), RoomInv(place), StartInv, DriverInv,
           PoolStep, UNCHANGED startVars
    PROVE  RoomInv(place)'
<1> SUFFICES ASSUME Clean' PROVE First(place)' \/ Again' \/ Started'
  BY DEF RoomInv
<1>0. /\ PoolTypes /\ pc' = pc /\ todo' = todo /\ conFreed' = conFreed
      /\ \A w \in Program : w \in Owners
  BY PoolConstants DEF StartInv, PoolInv, startVars
<1>1. Clean
  BY <1>0, TurnLeaks DEF Clean
<1>2. CASE Started
  BY <1>0, <1>2 DEF Started
<1>3. CASE Again
  <2>1. Searched
    BY <1>1 DEF DriverInv, Clean
  <2>2. PICK w \in Program :
           /\ \A v : Calling(v) <=> v = w
           /\ \/ UNCHANGED <<ptr, owned>> /\ (\A v : Calling(v)' <=> v = w) /\ call'.op \in {"scan", "mark"}
              \/ \E o \in Table \cup {NULL} : Return(w, o)
    BY <1>0, <1>3, <2>1, PoolTurn DEF Again
  <2>3. w \in owned
    BY <1>3, <2>2 DEF Again
  <2>4. ~\E o \in Table \cup {NULL} : Return(w, o)
    BY <1>0, <2>3, ReturnLeaks DEF Clean
  <2>5. Again'
    BY <1>0, <1>3, <2>2, <2>4 DEF Again
  <2> QED
    BY <2>5
<1>4. CASE First(place)
  <2>1. PICK k \in 0 .. Last : Filled(place, k) /\ Finding(place, k) /\ Ahead(k)
    BY <1>4 DEF First
  <2>2. /\ k < Last /\ call # NoCall /\ \A v : Calling(v) <=> v = StartPieces[k + 1]
        /\ \/ /\ UNCHANGED <<ptr, owned, leaked>> /\ Filled(place, k)' /\ Finding(place, k)'
              /\ call' # NoCall /\ \A v : Calling(v)' <=> v = StartPieces[k + 1]
           \/ /\ \E o \in Table : Return(StartPieces[k + 1], o)
              /\ Filled(place, k + 1)' /\ Finding(place, k + 1)'
    BY <1>0, <2>1, FindsPlace
  <2>3. k + 1 \in 0 .. Last /\ StartPieces[k + 1] \in Program
    BY <2>2, PlaceFacts
  <2>4. pc \in {"eth", "lwip", "mbox_new"}
    BY <1>1, <1>4, <2>2 DEF First, DriverInv, Callers, Clean
  <2>5. CASE /\ UNCHANGED <<ptr, owned, leaked>> /\ Filled(place, k)' /\ Finding(place, k)'
             /\ call' # NoCall /\ \A v : Calling(v)' <=> v = StartPieces[k + 1]
    <3>1. Ahead(k)'
      BY <1>0, <2>1, <2>2, <2>5 DEF Ahead, Asked, Until
    <3> QED
      BY <1>0, <1>4, <2>2, <2>5, <3>1 DEF First
  <2>6. ASSUME NEW o \in Table, Return(StartPieces[k + 1], o),
               Filled(place, k + 1)', Finding(place, k + 1)'
        PROVE  First(place)'
    <3>0. o # NULL
      BY PoolConstants
    <3>1. /\ \A v \in Owners : v # StartPieces[k + 1] => ptr'[v] = ptr[v]
          /\ ptr'[StartPieces[k + 1]] = o /\ call' = NoCall
      BY <1>0, <2>3, <2>6, ReturnOthers
    <3>2. Ahead(k + 1)'
      BY <1>0, <2>1, <2>2, <3>1 DEF Ahead, Asked, Until
    <3>3. \A v \in Program : Calling(v) \/ ptr[v] # NULL => ptr'[v] # NULL
      BY <1>0, <2>2, <3>0, <3>1
    <3>4. "mbox" \in Program /\ Range(LwipMemory) \subseteq Program
      BY MemoryFacts
    <3> QED
      BY <1>0, <1>4, <2>3, <2>4, <2>6, <3>2, <3>3, <3>4 DEF First
  <2> QED
    BY <2>2, <2>5, <2>6
<1> QED
  BY <1>1, <1>2, <1>3, <1>4 DEF RoomInv

(* A call that begins is for the first of the pieces ahead. *)
LEMMA MallocAhead ==
    ASSUME NEW place, LaidOut(place), NEW k \in 0 .. Last, k < Last, Filled(place, k),
           Malloc(StartPieces[k + 1])
    PROVE  /\ Filled(place, k)' /\ Finding(place, k)'
           /\ Asked(k) = k /\ Asked(k)' = k + 1
           /\ owned' = owned /\ ptr' = ptr /\ leaked' = leaked
           /\ \A v : ~Calling(v) /\ (Calling(v)' <=> v = StartPieces[k + 1])
<1>1. PICK w \in Program : w = StartPieces[k + 1]
  BY PlaceFacts
<1>2. call = NoCall /\ call' = ScanCall(w, Blocks - 1, 0)
      /\ UNCHANGED <<memmap, ptr, owned, leaked, raced>>
  BY <1>1, MallocDoes
<1>3. /\ call'.op = "scan" /\ call'.who = w /\ call'.at = Blocks - 1 /\ call'.n = 0
      /\ call.op = "none" /\ call' # NoCall
  BY <1>2, CallFields
<1>4. place[k] \in 0 .. Blocks /\ Blocks \in Nat /\ 0 < Size[w]
  BY PlaceFacts, PoolConstants
<1>5. (Blocks - 1) + 1 + 0 = place[k] \/ (0 = 0 /\ place[k] <= Blocks - 1)
  BY <1>4
<1>6. Filled(place, k)'
  BY <1>2, <1>3 DEF Filled
<1>7. Finding(place, k)'
  BY <1>1, <1>3, <1>4, <1>5 DEF Finding
<1> QED
  BY <1>1, <1>2, <1>3, <1>6, <1>7 DEF Asked, Calling

LEMMA RoomStart ==
    ASSUME NEW place, LaidOut(place), RoomInv(place), StartInv, DriverInv, Start
    PROVE  RoomInv(place)'
<1> SUFFICES ASSUME Clean' PROVE First(place)' \/ Again' \/ Started'
  BY DEF RoomInv
<1>0. /\ PoolTypes /\ todo \in Seq(Program)
      /\ \A w \in Program : w \in Owners /\ w \notin Console
  BY PoolConstants DEF StartInv, PoolInv, StartTypes
<1>1. Clean
  <2>1. conFreed' = conFreed /\ leaked' = leaked
    BY DEF Start, Allocate, EthAllocated, LwipAllocated, FreeLwip, PhyReset, PhyInit, TcpipInit,
           MboxNew, Malloc, FreeCall, poolVars
  <2>2. Console \cap owned \subseteq owned'
    <3>1. CASE FreeLwip
      <4>1. todo # <<>> => Head(todo) \in Program
        BY <1>0, TailOfTodo
      <4> QED
        BY <1>0, <3>1, <4>1 DEF FreeLwip, FreeCall, poolVars
    <3> QED
      BY <3>1 DEF Start, Allocate, EthAllocated, LwipAllocated, PhyReset, PhyInit, TcpipInit,
                  MboxNew, Malloc, poolVars
  <2> QED
    BY <2>1, <2>2 DEF Clean
<1>2. /\ First(place) \/ Again \/ Started
      /\ Searched /\ Callers /\ Supplied
      /\ pc # "free"
  BY <1>1 DEF RoomInv, DriverInv, Clean, First, Again, Started
<1>3. CASE Allocate
  <2>1. /\ pc \in {"eth", "lwip"} /\ todo # <<>> /\ Malloc(Head(todo))
        /\ pc' = pc /\ todo' = Tail(todo)
    BY <1>3 DEF Allocate, Go
  <2>2. PICK h \in Program : h = Head(todo)
    BY <1>0, <2>1, TailOfTodo
  <2>3. \A x : x \in Range(todo) <=> x = h \/ x \in Range(todo')
    BY <1>0, <2>1, <2>2, TailOfTodo
  <2>4. CASE First(place)
    <3>1. PICK k \in 0 .. Last : Filled(place, k) /\ Finding(place, k) /\ Ahead(k)
      BY <2>4 DEF First
    <3>2. call = NoCall
      BY <2>1 DEF Malloc
    <3>3. /\ Len(todo) \in Nat /\ Len(todo) # 0 /\ h = todo[1] /\ Len(todo') = Len(todo) - 1
          /\ \A i \in 1 .. Len(todo') : todo'[i] = todo[i + 1]
      BY <1>0, <2>1, <2>2
    <3>4. k + Len(todo) = Until /\ \A i \in 1 .. Len(todo) : todo[i] = StartPieces[k + i]
      BY <3>1, <3>2 DEF Ahead, Asked
    <3>5. Until <= Last /\ Until \in Nat /\ Until' = Until
      BY <2>1, PieceFacts DEF Until
    <3>6. k < Last /\ k \in Nat /\ h = StartPieces[k + 1]
      BY <3>3, <3>4, <3>5, PieceFacts
    <3>7. /\ Filled(place, k)' /\ Finding(place, k)' /\ Asked(k)' = k + 1
          /\ owned' = owned /\ ptr' = ptr
          /\ \A v : ~Calling(v) /\ (Calling(v)' <=> v = h)
      BY <2>1, <2>2, <3>1, <3>6, MallocAhead
    <3>8. (k + 1) + Len(todo') = Until
      <4>1. \A u \in Nat, v \in Nat : u + v = (u + 1) + (v - 1)
        OBVIOUS
      <4>2. k + Len(todo) = (k + 1) + (Len(todo) - 1)
        BY <3>3, <3>6, <4>1
      <4> QED
        BY <3>3, <3>4, <4>2
    <3>9. \A i \in 1 .. Len(todo') : todo'[i] = StartPieces[(k + 1) + i]
      <4> TAKE i \in 1 .. Len(todo')
      <4>1. i + 1 \in 1 .. Len(todo) /\ k + (i + 1) = (k + 1) + i
        BY <3>3, <3>6
      <4> QED
        BY <3>3, <3>4, <4>1
    <3>10. Ahead(k)'
      BY <3>5, <3>7, <3>8, <3>9 DEF Ahead
    <3> QED
      BY <2>1, <2>3, <2>4, <3>1, <3>7, <3>10 DEF First
  <2>5. CASE Again
    <3>1. /\ \A v : (Calling(v)' <=> v = h) /\ ~Calling(v)
          /\ call'.op = "scan" /\ owned' = owned
      BY <2>1, <2>2, DriverMalloc
    <3> QED
      BY <2>1, <2>3, <2>5, <3>1 DEF Again
  <2> QED
    BY <1>2, <2>1, <2>4, <2>5 DEF Started
<1>4. CASE EthAllocated
  <2>1. pc = "eth" /\ todo = <<>> /\ call = NoCall /\ pc' = "lwip" /\ todo' = LwipMemory
        /\ UNCHANGED poolVars
    BY <1>4 DEF EthAllocated, Go
  <2>2. call.op = "none" /\ \A v : ~Calling(v) /\ ~Calling(v)'
    BY <2>1, CallFields, DriverStays DEF Calling
  <2>3. CASE First(place)
    <3>1. PICK k \in 0 .. Last : Filled(place, k) /\ Finding(place, k) /\ Ahead(k)
      BY <2>3 DEF First
    <3>2. k = Len(EthMemory)
      BY <2>1, <3>1, PieceFacts DEF Ahead, Asked, Until
    <3>3. Ahead(k)'
      <4>1. Asked(k)' = k
        BY <2>1, DriverStays DEF Asked
      <4>2. Until' = Len(EthMemory) + Len(LwipMemory)
        BY <2>1 DEF Until
      <4> QED
        BY <2>1, <3>2, <4>1, <4>2, PieceFacts DEF Ahead
    <3>4. Filled(place, k)' /\ Finding(place, k)'
      BY <2>1, <3>1 DEF poolVars, Filled, Finding
    <3> QED
      BY <2>1, <3>1, <3>3, <3>4 DEF First
  <2>4. CASE Again
    BY <2>1, <2>2, <2>4, DriverStays, PieceFacts DEF Again
  <2> QED
    BY <1>2, <2>1, <2>3, <2>4 DEF Started
<1>5. CASE LwipAllocated
  <2>1. /\ pc = "lwip" /\ todo = <<>> /\ call = NoCall /\ UNCHANGED poolVars
        /\ \/ \E i \in DOMAIN LwipMemory : ptr[LwipMemory[i]] = NULL
           \/ pc' = "reset" /\ todo' = <<>>
    BY <1>5 DEF LwipAllocated, Go
  <2>2. call.op = "none" /\ Range(todo) = {} /\ \A v : ~Calling(v)
    BY <2>1, CallFields DEF Calling, Range
  <2>3. First(place)
    BY <1>2, <2>1, <2>2 DEF Again, Started
  <2>4. \A w \in Range(LwipMemory) : ptr[w] # NULL /\ w \in owned
    BY <2>1, <2>2, <2>3 DEF First, StartInv, StartOwners, Fresh
  <2>5. pc' = "reset" /\ todo' = <<>>
    BY <2>1, <2>4 DEF Range
  <2>6. PICK k \in 0 .. Last : Filled(place, k) /\ Finding(place, k) /\ Ahead(k)
    BY <2>3 DEF First
  <2>7. Filled(place, k)' /\ Finding(place, k)' /\ Ahead(k)'
    BY <2>1, <2>5, <2>6 DEF poolVars, Filled, Finding, Ahead, Asked, Until
  <2> QED
    BY <2>1, <2>4, <2>5, <2>7, DriverStays DEF First
<1>6. CASE PhyReset
  <2>1. pc = "reset" /\ pc' = "link" /\ todo' = <<>> /\ UNCHANGED poolVars
    BY <1>6 DEF PhyReset, Go
  <2>2. First(place) /\ todo = <<>>
    BY <1>2, <2>1 DEF First, Again, Started
  <2>3. PICK k \in 0 .. Last : Filled(place, k) /\ Finding(place, k) /\ Ahead(k)
    BY <2>2 DEF First
  <2>4. Filled(place, k)' /\ Finding(place, k)' /\ Ahead(k)'
    BY <2>1, <2>2, <2>3 DEF poolVars, Filled, Finding, Ahead, Asked, Until
  <2> QED
    BY <2>1, <2>2, <2>4, DriverStays DEF First
<1>7. CASE PhyInit
  <2>1. pc = "link" /\ UNCHANGED poolVars
        /\ \/ pc' \in {"tcpip", "reset"} /\ todo' = <<>>
           \/ pc' = "eth" /\ todo' = EthMemory
    BY <1>7 DEF PhyInit, Go
  <2>2. First(place) /\ todo = <<>> /\ call = NoCall /\ DriverMemory \subseteq owned
    BY <1>2, <2>1 DEF First, Again, Started, Callers, Supplied, Phy
  <2>3. CASE pc' \in {"tcpip", "reset"} /\ todo' = <<>>
    <3>1. PICK k \in 0 .. Last : Filled(place, k) /\ Finding(place, k) /\ Ahead(k)
      BY <2>2 DEF First
    <3>2. Filled(place, k)' /\ Finding(place, k)' /\ Ahead(k)'
      BY <2>1, <2>2, <2>3, <3>1 DEF poolVars, Filled, Finding, Ahead, Asked, Until
    <3> QED
      BY <2>1, <2>2, <2>3, <3>2, DriverStays DEF First
  <2>4. CASE pc' = "eth" /\ todo' = EthMemory
    <3>1. call.op = "none" /\ \A v : ~Calling(v)'
      BY <2>1, <2>2, CallFields, DriverStays DEF Calling
    <3>2. Range(LwipMemory) \subseteq owned
      BY <2>1, <2>2 DEF First
    <3> QED
      BY <2>1, <2>2, <2>4, <3>1, <3>2, DriverStays DEF Again, DriverMemory
  <2> QED
    BY <2>1, <2>3, <2>4
<1>8. CASE TcpipInit
  <2>1. pc = "tcpip" /\ Malloc("mbox") /\ pc' = "mbox_new" /\ todo' = <<>>
    BY <1>8 DEF TcpipInit, Go
  <2>2. First(place) /\ todo = <<>> /\ call = NoCall
    BY <1>2, <2>1 DEF First, Again, Started, Callers
  <2>3. PICK k \in 0 .. Last : Filled(place, k) /\ Finding(place, k) /\ Ahead(k)
    BY <2>2 DEF First
  <2>4. k = Len(EthMemory) + Len(LwipMemory)
    BY <2>1, <2>2, <2>3, PieceFacts DEF Ahead, Asked, Until
  <2>5. k < Last /\ k + 1 = Last /\ StartPieces[k + 1] = "mbox"
    BY <2>4, PieceFacts
  <2>6. /\ Filled(place, k)' /\ Finding(place, k)' /\ Asked(k)' = k + 1 /\ Calling("mbox")'
    BY <2>1, <2>3, <2>5, MallocAhead
  <2>7. Until' = Last
    BY <2>1 DEF Until
  <2>8. Ahead(k)'
    BY <2>1, <2>5, <2>6, <2>7, PieceFacts DEF Ahead
  <2> QED
    BY <2>1, <2>3, <2>6, <2>8 DEF First
<1>9. CASE MboxNew
  BY <1>9 DEF MboxNew, Go, Started
<1>10. ~FreeLwip
  BY <1>2 DEF FreeLwip
<1> QED
  BY <1>3, <1>4, <1>5, <1>6, <1>7, <1>8, <1>9, <1>10 DEF Start

(* The console: when it gets memory or loses a block, nothing is said. *)
LEMMA RoomConsole ==
    ASSUME NEW place, RoomInv(place), StartInv, UNCHANGED <<pc, todo, conFreed>>,
           NEW c \in Console, ConsoleMalloc(c)
    PROVE  RoomInv(place)'
<1> SUFFICES ASSUME Clean' PROVE First(place)' \/ Again' \/ Started'
  BY DEF RoomInv
<1>0. PoolTypes /\ c \in Owners /\ c \notin Program /\ Size[c] \in Nat /\ Size[c] # 0
  BY PoolConstants DEF StartInv, PoolInv
<1>1. c \notin owned
  <2> SUFFICES ASSUME c \in owned PROVE FALSE
    OBVIOUS
  <2>1. leaked' = leaked \cup Held(c)
    BY <1>0, ConsoleMallocDoes
  <2>2. ptr[c] \in Int /\ ptr[c] \in Held(c)
    BY <1>0, PoolConstants DEF PoolTypes, Held, Run
  <2> QED
    BY <2>1, <2>2 DEF Clean
<1>2. c \notin owned'
  BY DEF Clean
<1>3. /\ memmap' = memmap /\ call' = call /\ leaked' = leaked /\ owned' = owned
      /\ ptr' = [ptr EXCEPT ![c] = NULL]
  <2>1. /\ leaked' = IF c \in owned THEN leaked \cup Held(c) ELSE leaked
        /\ call' = call
    BY <1>0, ConsoleMallocDoes
  <2>2. \/ ptr' = [ptr EXCEPT ![c] = NULL] /\ owned' = owned \ {c} /\ memmap' = memmap
        \/ owned' = owned \cup {c}
    BY <1>0, ConsoleMallocDoes
  <2> QED
    BY <1>1, <1>2, <2>1, <2>2, Zenon
<1>4. \A v \in Program : ptr'[v] = ptr[v]
  BY <1>0, <1>3 DEF PoolTypes
<1>5. Clean
  BY <1>3 DEF Clean
<1>6. CASE First(place)
  <2>1. PICK k \in 0 .. Last : Filled(place, k) /\ Finding(place, k) /\ Ahead(k)
    BY <1>6 DEF First
  <2>2. Filled(place, k)' /\ Finding(place, k)' /\ Ahead(k)'
    BY <1>3, <2>1 DEF Filled, Finding, Ahead, Asked, Until
  <2>3. "mbox" \in Program /\ Range(LwipMemory) \subseteq Program
    BY MemoryFacts
  <2> QED
    BY <1>3, <1>4, <1>6, <2>2, <2>3 DEF First, Calling
<1>7. CASE Again
  BY <1>3, <1>7 DEF Again, Calling
<1>8. CASE Started
  BY <1>8 DEF Started
<1> QED
  BY <1>5, <1>6, <1>7, <1>8 DEF RoomInv

LEMMA RoomQuiet ==
    ASSUME NEW place, RoomInv(place), UNCHANGED <<poolVars, pc, todo, conFreed>>
    PROVE  RoomInv(place)'
BY DEF RoomInv, Clean, First, Filled, Finding, Ahead, Asked, Until, Again, Started, Calling, poolVars

(* sys_mbox_new clears what mymalloc returned before it tests it (sys_arch.c:61-63).  In a
   pool with room for the pieces of one start and the mailbox, one below the other, it was
   given something: unless failed starts or the console have taken the room.  The other half
   of NullNeverUsed is DriverGetsMemory, which needs no such room. *)
THEOREM NullNotUsed ==
    ASSUME NEW place, LaidOut(place)
    PROVE  Spec => []NullNeverUsed
<1>1. Init => RoomInv(place)
  <2> SUFFICES ASSUME Init PROVE First(place)
    BY DEF RoomInv
  <2>1. pc = "eth" /\ todo = EthMemory /\ call = NoCall /\ \A b \in Table : memmap[b] = 0
    BY DEF Init, PoolInit
  <2>2. 0 \in 0 .. Last /\ place[0] = Blocks
    BY PieceFacts DEF LaidOut
  <2>3. call.op = "none" /\ \A b \in Table : ~(Blocks <= b)
    BY <2>1, CallFields, PoolConstants
  <2>4. Filled(place, 0) /\ Finding(place, 0)
    BY <2>1, <2>2, <2>3 DEF Filled, Finding
  <2>5. Ahead(0)
    BY <2>1, PieceFacts DEF Ahead, Asked, Until
  <2> QED
    BY <2>1, <2>2, <2>4, <2>5 DEF First
<1>2. RoomInv(place) /\ DriverInv /\ StartInv /\ [Next]_vars => RoomInv(place)'
  <2> SUFFICES ASSUME RoomInv(place), DriverInv, StartInv, [Next]_vars PROVE RoomInv(place)'
    OBVIOUS
  <2>1. CASE Start
    BY <2>1, RoomStart
  <2>2. CASE Mailboxes
    <3>1. Started'
      BY <2>2 DEF Mailboxes, RecvmboxNew, RecvmboxMade, RecvmboxFree, Go, Started, startVars
    <3> QED
      BY <3>1 DEF RoomInv
  <2>3. CASE PoolStep /\ UNCHANGED startVars
    BY <2>3, RoomTurn
  <2>4. CASE UsmartScan
    <3>1. UNCHANGED <<pc, todo>>
      BY <2>4 DEF UsmartScan
    <3>2. \/ \E k \in Console : ConsoleMalloc(k) /\ UNCHANGED conFreed
          \/ conFreed' = TRUE
          \/ UNCHANGED <<poolVars, conFreed>>
      BY <2>4 DEF UsmartScan
    <3>3. CASE conFreed' = TRUE
      BY <3>3 DEF RoomInv, Clean
    <3> QED
      BY <3>1, <3>2, <3>3, RoomConsole, RoomQuiet
  <2>5. CASE UNCHANGED <<poolVars, pc, todo, conFreed>>
    BY <2>5, RoomQuiet
  <2> QED
    BY <2>1, <2>2, <2>3, <2>4, <2>5
       DEF Next, Task, Interrupt, Operator, LinkUp, vars, startVars
<1>3. RoomInv(place) => MailboxGiven
  <2> SUFFICES ASSUME RoomInv(place), Clean, pc = "mbox_new", call = NoCall PROVE ptr["mbox"] # NULL
    BY DEF MailboxGiven, Clean
  <2>1. First(place)
    BY DEF RoomInv, Again, Started
  <2> QED
    BY <2>1, CallFields DEF First, Calling
<1> QED
  BY <1>1, <1>2, <1>3, StartInvariance, DriverInvariance, DriverGetsMemory, PTL
     DEF Spec, NullNeverUsed
=============================================================================
