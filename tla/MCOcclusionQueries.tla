------------------------ MODULE MCOcclusionQueries ------------------------
(* Buffers of one slot that grow to two and then spill. *)
EXTENDS OcclusionQueries, TLC

Symmetry == Permutations(Queries)
===========================================================================
