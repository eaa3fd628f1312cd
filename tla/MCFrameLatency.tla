--------------------------- MODULE MCFrameLatency ---------------------------
(* Model checking of FrameLatency: a ring that wraps, two latencies. *)
EXTENDS FrameLatency
=============================================================================
