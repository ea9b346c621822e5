------------------------------ MODULE MCUploads ------------------------------
(* Uploads for TLC: symmetric sets, where no liveness is checked, and a bound *)
(* on what is combined.                                                       *)
EXTENDS Uploads, TLC

Symmetry == Permutations(Clients) \cup Permutations(Runs)

\* A job is run again only while it is the only one: repeated runs of one job,
\* and runs of two jobs, but not both at once.
RepeatsAlone ==
  \A r, q \in Runs :
    r # q /\ job[r].tries + job[r].stalls > 0 => runs[q].status = "none"
=============================================================================
