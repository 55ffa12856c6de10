---------------------------- MODULE MCPublicFrontier ----------------------------
(* A listing that names two documents, one of which may be deadly. *)
EXTENDS PublicFrontier, TLC

CONSTANTS l1, d1, d2

MCLinks == [s \in {l1} |-> {d1, d2}]

\* A court's site, a legislature's in the default mode, and one with a drain of its own.
MCSites ==
  {[mode |-> "backfill", tireless |-> FALSE, statutes |-> {}],
   [mode |-> "updates", tireless |-> FALSE, statutes |-> {d1}],
   [mode |-> "updates", tireless |-> TRUE, statutes |-> {d1}]}
================================================================================
