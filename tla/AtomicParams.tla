---------------------------- MODULE AtomicParams ----------------------------
(***************************************************************************)
(* What the saved parameters promise one client that waits for its answers:  *)
(* a set command changes its own fields and no other, a long press puts      *)
(* every field back to its default, a blank block is replaced by the         *)
(* defaults, resets lose nothing, and a power cut can only harm the block    *)
(* that is being written.                                                    *)
(***************************************************************************)
CONSTANTS Fields, Values, Erased, Garbage, Default, Commands

VARIABLES
    stored,     \* the parameters a reset would find, or the ones on their way there
    writing     \* they are on their way

Blocks == [Fields -> Values \cup {Erased, Garbage}]

Init == stored \in Blocks /\ writing = FALSE

Set(c, v) == /\ ~writing
             /\ stored' = [f \in Fields |-> IF f \in c THEN v ELSE stored[f]]
             /\ writing' = TRUE

Defaults == /\ ~writing
            /\ stored' = Default
            /\ writing' = TRUE

Finish == writing /\ writing' = FALSE /\ UNCHANGED stored

Cut == writing /\ writing' = FALSE /\ stored' \in Blocks

Next == (\E c \in Commands, v \in Values : Set(c, v)) \/ Defaults \/ Finish \/ Cut

Spec == Init /\ [][Next]_<<stored, writing>>
=============================================================================
