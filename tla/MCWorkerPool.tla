---------------------------- MODULE MCWorkerPool ----------------------------
(***************************************************************************)
(* WorkerPool for TLC: two clients, so that scans interleave with posts.   *)
(***************************************************************************)
EXTENDS WorkerPool

CONSTANTS c1, c2

TwoClients == {c1, c2}
=============================================================================
