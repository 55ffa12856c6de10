--------------------------- MODULE MCPublicDispatch ---------------------------
(* Two overlapping passes, two workers, three tasks.  Tasks and job rows are alike. *)
EXTENDS PublicDispatch, TLC

MCAlike == Permutations(Task) \cup Permutations(Job)
================================================================================
