---------------------------- MODULE MCThreadPool ----------------------------
(***************************************************************************)
(* ThreadPool for TLC: three clients that contend for two slots.           *)
(***************************************************************************)
EXTENDS ThreadPool

CONSTANTS c1, c2, c3

ThreeClients == {c1, c2, c3}
=============================================================================
