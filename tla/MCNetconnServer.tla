-------------------------- MODULE MCNetconnServer --------------------------
(* Small instances of NetconnServer: the netconns are model values. *)
EXTENDS NetconnServer
=============================================================================
