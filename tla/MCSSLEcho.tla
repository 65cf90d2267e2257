------------------------------ MODULE MCSSLEcho ------------------------------
(***************************************************************************)
(* SSLEcho for TLC: more connections than descriptors, so that descriptors *)
(* are reused and run out.                                                 *)
(***************************************************************************)
EXTENDS SSLEcho
=============================================================================
