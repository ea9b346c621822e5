------------------------------ MODULE MCExports ------------------------------
(* Symmetric sets of Exports for TLC, where no liveness is checked. *)
EXTENDS Exports, TLC

Symmetry == Permutations(Clients) \cup Permutations(Jobs)
=============================================================================
