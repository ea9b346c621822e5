----------------------------- MODULE MCJobQueue -----------------------------
(* Model values for JobQueue; the .cfg files choose how many of each. *)
EXTENDS JobQueue, TLC

Symmetry == Permutations(Clients) \cup Permutations(Jobs) \cup Permutations(Workers)
=============================================================================
