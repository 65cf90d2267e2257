----------------------------- MODULE MCPPReceive -----------------------------
(***************************************************************************)
(* PPReceive for TLC: all four applications, so that both transports and   *)
(* both applications of each can mix.                                      *)
(***************************************************************************)
EXTENDS PPReceive

FourApps == AppProtos
=============================================================================
