-------------------------- MODULE MCFramePipeline --------------------------
(* Small instances of FramePipeline. *)
EXTENDS FramePipeline

=============================================================================
