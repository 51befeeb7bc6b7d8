--------------------------- MODULE MCTokenRotation ---------------------------
(* Model values and symmetry for the run of TokenRotation. *)
EXTENDS TokenRotation, TLC

Symmetry == Permutations(Requests) \cup Permutations(Jtis)
=============================================================================
