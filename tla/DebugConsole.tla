---------------------------- MODULE DebugConsole ----------------------------
(***************************************************************************)
(* The debug console: the receive interrupt of the UART collects a line in  *)
(* USART_RX_BUF and USART_RX_STA, a timer interrupt every 10 ms executes a  *)
(* complete one (USMART).  Both have the same priority, so neither           *)
(* interrupts the other; both wait while the program has masked interrupts.  *)
(*                                                                          *)
(* A byte is a letter, "CR" or "LF".  Which function a line calls is not    *)
(* decided here.                                                            *)
(***************************************************************************)
EXTENDS Integers, Sequences

CONSTANTS
    RecLen,         \* USART_REC_LEN
    Lines,          \* what the operator may send as a line, CR and LF left out
    MaxLines        \* bound: lines sent

ASSUME LinesAssumption ==
    /\ RecLen \in Nat \ {0, 1} /\ MaxLines \in Nat
    /\ Lines \subseteq Seq(STRING)
    /\ \A l \in Lines : Len(l) < RecLen /\ \A i \in DOMAIN l : l[i] \notin {"CR", "LF"}

VARIABLES
    wire,           \* bytes of the line being sent that have not arrived
    rdr,            \* the data register of the UART
    sta,            \* USART_RX_STA: bits 15 (done) and 14 (cr); its count is Len(buf)
    buf,            \* USART_RX_BUF up to the count
    patient,        \* the operator waits for the answer to a line
    typed,          \* lines sent (bound)
    due,            \* ghost: the lines sent since one was executed
    lost            \* ghost: a byte was lost in the UART

consoleVars == <<wire, rdr, sta, buf, patient, typed, due, lost>>

Empty == [done |-> FALSE, cr |-> FALSE]

ConsoleInit ==
    /\ wire = <<>> /\ rdr = <<>> /\ buf = <<>>
    /\ sta = Empty
    /\ patient \in BOOLEAN
    /\ typed = 0 /\ due = <<>>
    /\ lost = FALSE

(* The operator sends another line. *)
Type(l) ==
    /\ wire = <<>>
    /\ typed < MaxLines
    /\ patient => due = <<>>
    /\ wire' = l \o <<"CR", "LF">>
    /\ typed' = typed + 1
    /\ due' = Append(due, l)
    /\ UNCHANGED <<rdr, sta, buf, patient, lost>>

(* A byte arrives; an overrun loses it. *)
Arrive ==
    /\ wire # <<>>
    /\ wire' = Tail(wire)
    /\ rdr' = IF rdr = <<>> THEN <<Head(wire)>> ELSE rdr
    /\ lost' = (lost \/ rdr # <<>>)
    /\ UNCHANGED <<sta, buf, patient, typed, due>>

\* Mutant: the limit is one too small.
Collect_Short(b) ==
    IF sta.cr
      THEN IF b = "LF" THEN sta' = [sta EXCEPT !.done = TRUE] /\ UNCHANGED buf
           ELSE sta' = Empty /\ buf' = <<>>
      ELSE IF b = "CR" THEN sta' = [sta EXCEPT !.cr = TRUE] /\ UNCHANGED buf
           ELSE /\ buf' = IF Len(buf) + 1 > RecLen - 2 THEN <<>> ELSE Append(buf, b)
                /\ UNCHANGED sta

(* HAL_UART_RxCpltCallback on a byte of a line not complete. *)
Collect(b) ==
    IF sta.cr
      THEN IF b = "LF" THEN sta' = [sta EXCEPT !.done = TRUE] /\ UNCHANGED buf
           ELSE sta' = Empty /\ buf' = <<>>
      ELSE IF b = "CR" THEN sta' = [sta EXCEPT !.cr = TRUE] /\ UNCHANGED buf
           ELSE /\ buf' = IF Len(buf) + 1 > RecLen - 1 THEN <<>> ELSE Append(buf, b)
                /\ UNCHANGED sta

(* USART1_IRQHandler: while a line waits to be executed, bytes are dropped. *)
UartIsr ==
    /\ rdr # <<>>
    /\ rdr' = <<>>
    /\ IF sta.done THEN UNCHANGED <<sta, buf>> ELSE Collect(Head(rdr))
    /\ UNCHANGED <<wire, patient, typed, due, lost>>

(* usmart_scan, after the line has been executed. *)
Scanned ==
    /\ sta.done
    /\ sta' = Empty /\ buf' = <<>>
    /\ due' = <<>>
    /\ UNCHANGED <<wire, rdr, patient, typed, lost>>

ConsoleTypeOK ==
    /\ Len(wire) < RecLen + 2 /\ Len(rdr) <= 1 /\ Len(buf) < RecLen
    /\ sta \in [done : BOOLEAN, cr : BOOLEAN]
    /\ Len(due) <= typed /\ typed <= MaxLines
    /\ patient \in BOOLEAN /\ lost \in BOOLEAN

(* To an operator who waits for the answer to a line before he sends another, every
   line is executed as it was sent and once, unless the UART lost a byte (as it does
   while interrupts are masked, lan8720.c:23-28).  Of a second line sent at once,
   usart.c:101 drops the beginning and collects the rest. *)
ExecutedAsSent ==
    [][sta.done /\ ~sta'.done /\ patient /\ ~lost => due = <<buf>>]_consoleVars
=============================================================================
