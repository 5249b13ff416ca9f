---------------------------- MODULE ClientService ----------------------------
(***************************************************************************)
(* What the camera promises its clients: they are served one at a time, in   *)
(* the order in which they connected; a command is obeyed while its client   *)
(* is served, in the order sent and at most once; none is skipped unless one *)
(* of that client was lost; only a restart sends everybody away.             *)
(***************************************************************************)
EXTENDS Naturals, Sequences

CONSTANTS Conns

VARIABLES
    line,       \* connections that wait to be served
    served,     \* the one that is served
    client      \* of each: commands sent, the last one obeyed, whether one was lost

New == [sent |-> 0, obeyed |-> 0, lost |-> FALSE]
Present == {line[i] : i \in DOMAIN line} \cup served

Init == line = <<>> /\ served = {} /\ client = [c \in Conns |-> New]

Join(c) ==
    /\ c \notin Present /\ client[c] = New
    /\ line' = Append(line, c)
    /\ UNCHANGED <<served, client>>

Serve ==
    /\ served = {} /\ line # <<>>
    /\ served' = {Head(line)} /\ line' = Tail(line)
    /\ UNCHANGED client

Command(c) ==
    /\ c \in Present
    /\ \E lost \in BOOLEAN :
          client' = [client EXCEPT ![c].sent = @ + 1, ![c].lost = @ \/ lost]
    /\ UNCHANGED <<line, served>>

Obey(c) ==
    /\ served = {c}
    /\ \E n \in client[c].obeyed + 1 .. client[c].sent :
          /\ client[c].lost \/ n = client[c].obeyed + 1
          /\ client' = [client EXCEPT ![c].obeyed = n]
    /\ UNCHANGED <<line, served>>

Leave(c) ==
    /\ served = {c}
    /\ served' = {} /\ client' = [client EXCEPT ![c] = New]
    /\ UNCHANGED line

Restart == line' = <<>> /\ served' = {} /\ client' = [c \in Conns |-> New]

Next == Serve \/ Restart \/ \E c \in Conns : Join(c) \/ Command(c) \/ Obey(c) \/ Leave(c)

Spec == Init /\ [][Next]_<<line, served, client>>
=============================================================================
