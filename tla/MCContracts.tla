----------------------------- MODULE MCContracts -----------------------------
(* Contracts for TLC: symmetric sets, where no liveness is checked. *)
EXTENDS Contracts, TLC

Symmetry == Permutations(Clients) \cup Permutations(Jobs)
=============================================================================
