-------------------------- MODULE MCEventListener --------------------------
(* Model values and symmetry for the runs of EventListener. *)
EXTENDS EventListener, TLC

\* The workers of a group are interchangeable (used where no liveness is checked).
Symmetry == Permutations(Workers)
=============================================================================
