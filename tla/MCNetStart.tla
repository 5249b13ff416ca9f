----------------------------- MODULE MCNetStart -----------------------------
(* A small instance of NetStart: two pieces for the driver and three for lwIP, in a
   pool with room for one start and a half. *)
EXTENDS NetStart

Driver == <<"Rx_Buff", "Tx_Buff">>
Stack == <<"memp_memory", "ram_heap", "TCPIP_STK">>
Pointers == Range(Driver) \cup Range(Stack) \cup {"mbox", "recvmbox"}
Notes == {"note"}
Pieces == [w \in Pointers \cup Notes |->
              CASE w \in {"Rx_Buff", "Tx_Buff", "ram_heap"} -> 2
                [] w = "note" -> 6
                [] OTHER -> 1]
TypedLines == {<<"malloc">>, <<"free">>, <<"my", "malloc">>}
=============================================================================
