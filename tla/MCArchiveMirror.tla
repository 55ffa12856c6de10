---------------------------- MODULE MCArchiveMirror ----------------------------
(* A promotion run, two workers, a local disk and a batched Drive folder. *)
EXTENDS ArchiveMirror, TLC

CONSTANTS q1, w1, w2

MCWorker == {w1, w2}
MCProc   == {q1} \cup MCWorker
================================================================================
