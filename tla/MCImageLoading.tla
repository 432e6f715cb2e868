--------------------------- MODULE MCImageLoading ---------------------------
(* ImageLoading with interchangeable images. *)
EXTENDS ImageLoading, TLC

Symmetry == Permutations(Images)
=============================================================================
