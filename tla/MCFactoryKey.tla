---------------------------- MODULE MCFactoryKey ----------------------------
(* FactoryKey with a clock that wraps within one press. *)
EXTENDS FactoryKey
=============================================================================
