----------------------------- MODULE MCSessionLock -----------------------------
(* Three worker processes on two hosts, as the two login workers run them; or two on one
host, each with several lock objects in its life. *)
EXTENDS SessionLock, TLC

CONSTANTS h1, h2, p1, p2, p3

MCProc == {p1, p2, p3}
MCTwo == {p1, p2}
MCHost == {h1, h2}
MCOneHost == {h1}
MCOneHostOf == [p \in MCTwo |-> h1]
MCHostOf == (p1 :> h1) @@ (p2 :> h1) @@ (p3 :> h2)
================================================================================
