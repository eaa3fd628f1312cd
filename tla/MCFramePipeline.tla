--------------------------- MODULE MCFramePipeline ---------------------------
(* Model checking of FramePipeline. *)
EXTENDS FramePipeline
=============================================================================
