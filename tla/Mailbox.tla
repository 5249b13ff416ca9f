------------------------------ MODULE Mailbox ------------------------------
(***************************************************************************)
(* What lwIP expects of a mailbox with one reader (sys_arch.h's contract):   *)
(* messages are taken in the order in which they were put, each once, and a  *)
(* fetch runs out of time only when no message is there.                     *)
(***************************************************************************)
EXTENDS Naturals, Sequences

CONSTANTS Capacity, Msg, None, Timeout

VARIABLES
    box,            \* messages put and not taken
    got             \* what the last fetch returned, None once it has been dealt with

Init == box = <<>> /\ got = None

Put(m) == Len(box) < Capacity /\ box' = Append(box, m) /\ UNCHANGED got
Get    == got = None /\ box # <<>> /\ got' = Head(box) /\ box' = Tail(box)
Expire == got = None /\ box = <<>> /\ got' = Timeout /\ UNCHANGED box
Done   == got # None /\ got' = None /\ UNCHANGED box

Next == Get \/ Expire \/ Done \/ \E m \in Msg : Put(m)

Fifo == Init /\ [][Next]_<<box, got>>
=============================================================================
