--------------------------- MODULE MCProcessImage ---------------------------
(* Instances of ProcessImage for TLC. *)
EXTENDS ProcessImage, TLC

(* The properties of proc_images say nothing of a state that is stale.     *)
NotStale == ~ stale

Symmetry == Permutations(Proc \ {Root})
=============================================================================
