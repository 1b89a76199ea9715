------------------------------ MODULE MCJobs ------------------------------
(* Jobs on small instances: two requests under way, one id to draw. *)
EXTENDS Jobs, TLC

RequestSymmetry == Permutations(Requests)
=============================================================================
