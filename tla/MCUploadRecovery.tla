-------------------------- MODULE MCUploadRecovery --------------------------
(* Model checking of UploadRecovery; its keys and ranges are interchangeable. *)
EXTENDS UploadRecovery

Symmetry == Permutations(Keys) \cup Permutations(Ranges)
=============================================================================
