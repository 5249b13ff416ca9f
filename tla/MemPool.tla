------------------------------ MODULE MemPool ------------------------------
(***************************************************************************)
(* The internal pool of malloc.c: a table with an entry per 64-byte block.  *)
(* A run of n blocks that belongs to somebody has n in each of its entries, *)
(* a free block has 0.  mymalloc counts free blocks from the top of the     *)
(* table downwards and marks the first run that is long enough; myfree reads *)
(* the length from the first entry of the run and clears as many.           *)
(*                                                                          *)
(* Nothing locks the table.  The calls of the program are taken block by    *)
(* block; the debug console calls the same functions from a timer interrupt, *)
(* in one step, between any two of those.                                   *)
(***************************************************************************)
EXTENDS Integers, FiniteSets

CONSTANTS
    Blocks,         \* memtblsize: entries of the table
    Program,        \* the pointers of the program
    Console,        \* the addresses the operator of the debug console has noted
    Size            \* blocks asked for on behalf of each

ASSUME BlocksAssumption == Blocks \in Nat \ {0}
ASSUME OwnersAssumption == Program \cap Console = {}
ASSUME SizeAssumption == Size \in [Program \cup Console -> Nat \ {0}]

Owners == Program \cup Console
Table == 0 .. Blocks - 1
NULL == -1

VARIABLES
    memmap,         \* mallco_dev.memmap[SRAMIN]
    ptr,            \* what the last mymalloc of each returned
    owned,          \* whose pointer is to a block not freed since
    leaked,         \* ghost: blocks whose only pointer was overwritten
    call,           \* the call of the program under way
    raced           \* ghost: the console took a block that call had found free

poolVars == <<memmap, ptr, owned, leaked, call, raced>>

NoCall == [op |-> "none"]

Run(o, n) == o .. o + n - 1
Held(w) == Run(ptr[w], Size[w])
Marked == {b \in Table : memmap[b] # 0}

PoolInit ==
    /\ memmap = [b \in Table |-> 0]
    /\ ptr = [w \in Owners |-> NULL]
    /\ owned = {}
    /\ leaked = {}
    /\ call = NoCall
    /\ raced = FALSE

-----------------------------------------------------------------------------
(* mymalloc and myfree, called by the program.                               *)

Malloc(w) ==
    /\ call = NoCall
    /\ call' = [op |-> "scan", who |-> w, at |-> Blocks - 1, n |-> 0]
    /\ UNCHANGED <<memmap, ptr, owned, leaked, raced>>

(* The pointer is overwritten; a block it pointed to has no pointer any more. *)
Return(w, o) ==
    /\ ptr' = [ptr EXCEPT ![w] = o]
    /\ leaked' = IF w \in owned THEN leaked \cup Held(w) ELSE leaked
    /\ owned' = IF o = NULL THEN owned \ {w} ELSE owned \cup {w}
    /\ call' = NoCall
    /\ UNCHANGED <<memmap, raced>>

\* Mutant: the count is not started again at a block in use.
Scan_KeepsCount ==
    /\ call.op = "scan"
    /\ IF call.at = NULL THEN Return(call.who, NULL)
       ELSE LET n == IF memmap[call.at] = 0 THEN call.n + 1 ELSE call.n
            IN /\ call' = IF n = Size[call.who]
                            THEN [call EXCEPT !.op = "mark", !.n = 0]
                            ELSE [call EXCEPT !.at = @ - 1, !.n = n]
               /\ UNCHANGED <<memmap, ptr, owned, leaked, raced>>

(* One turn of the search: cmemb counts the free blocks met in a row. *)
Scan ==
    /\ call.op = "scan"
    /\ IF call.at = NULL THEN Return(call.who, NULL)
       ELSE LET n == IF memmap[call.at] = 0 THEN call.n + 1 ELSE 0
            IN /\ call' = IF n = Size[call.who]
                            THEN [call EXCEPT !.op = "mark", !.n = 0]
                            ELSE [call EXCEPT !.at = @ - 1, !.n = n]
               /\ UNCHANGED <<memmap, ptr, owned, leaked, raced>>

(* One turn of the marking, and the return after the last one. *)
Mark ==
    /\ call.op = "mark"
    /\ IF call.n = Size[call.who] THEN Return(call.who, call.at)
       ELSE /\ memmap' = [memmap EXCEPT ![call.at + call.n] = Size[call.who]]
            /\ call' = [call EXCEPT !.n = @ + 1]
            /\ UNCHANGED <<ptr, owned, leaked, raced>>

(* myfree of a pointer that is not NULL, up to the reading of the length. *)
FreeCall(w) ==
    /\ call = NoCall
    /\ IF ptr[w] = NULL THEN UNCHANGED <<owned, call>>
       ELSE /\ owned' = owned \ {w}
            /\ call' = [op |-> "clear", who |-> w, at |-> ptr[w], n |-> 0,
                        len |-> memmap[ptr[w]]]
    /\ UNCHANGED <<memmap, ptr, leaked, raced>>

(* One turn of the clearing. *)
Clear ==
    /\ call.op = "clear"
    /\ IF call.n = call.len
         THEN call' = NoCall /\ UNCHANGED memmap
         ELSE /\ memmap' = [b \in Table |-> IF b = call.at + call.n THEN 0 ELSE memmap[b]]
              /\ call' = [call EXCEPT !.n = @ + 1]
    /\ UNCHANGED <<ptr, owned, leaked, raced>>

PoolStep == Scan \/ Mark \/ Clear

-----------------------------------------------------------------------------
(* The same functions called by the console, in one step.                    *)

IsFree(o, n) == \A b \in Run(o, n) : memmap[b] = 0
Fits(n) == {o \in 0 .. Blocks - n : IsFree(o, n)}

(* The blocks a call of the program has found free and not marked yet. *)
Counted ==
    CASE call.op = "scan" -> Run(call.at + 1, call.n)
      [] call.op = "mark" -> Run(call.at + call.n, Size[call.who] - call.n)
      [] OTHER -> {}

(* The operator notes the address for k; an older note is lost, and its block. *)
ConsoleMalloc(k) ==
    /\ leaked' = IF k \in owned THEN leaked \cup Held(k) ELSE leaked
    /\ IF Fits(Size[k]) = {}
         THEN /\ ptr' = [ptr EXCEPT ![k] = NULL]
              /\ owned' = owned \ {k}
              /\ UNCHANGED <<memmap, raced>>
         ELSE \E o \in Fits(Size[k]) :
                /\ \A p \in Fits(Size[k]) : p <= o
                /\ memmap' = [b \in Table |-> IF b \in Run(o, Size[k]) THEN Size[k]
                                              ELSE memmap[b]]
                /\ ptr' = [ptr EXCEPT ![k] = o]
                /\ owned' = owned \cup {k}
                /\ raced' = (raced \/ Counted \cap Run(o, Size[k]) # {})
    /\ UNCHANGED call

ConsoleFree(k) ==
    /\ k \in owned
    /\ memmap' = [b \in Table |-> IF b \in Run(ptr[k], memmap[ptr[k]])
                                    THEN 0 ELSE memmap[b]]
    /\ owned' = owned \ {k}
    /\ UNCHANGED <<ptr, leaked, call, raced>>

-----------------------------------------------------------------------------
PoolTypeOK ==
    /\ memmap \in [Table -> Nat]
    /\ ptr \in [Owners -> Table \cup {NULL}]
    /\ owned \subseteq Owners
    /\ leaked \subseteq Table
    /\ call \in {NoCall}
            \cup [op : {"scan"}, who : Program, at : Table \cup {NULL}, n : Nat]
            \cup [op : {"mark"}, who : Program, at : Table, n : Nat]
            \cup [op : {"clear"}, who : Program, at : Table, n : Nat, len : Nat]
    /\ raced \in BOOLEAN

(* Two owners never have a block in common, and none has a block that leaked. *)
Disjoint ==
    /\ \A v, w \in owned : v # w => Held(v) \cap Held(w) = {}
    /\ \A w \in owned : Held(w) \cap leaked = {}

(* The table has what myfree will read: every block of an owner is marked with the
   length of the run. *)
OwnedMarked ==
    \A w \in owned : /\ ptr[w] # NULL
                     /\ \A b \in Held(w) : b \in Table /\ memmap[b] = Size[w]

(* Between two calls nothing else is marked: what was freed can be had again. *)
OthersFree ==
    call = NoCall => Marked = leaked \cup UNION {Held(w) : w \in owned}
=============================================================================
