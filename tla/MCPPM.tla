-------------------------------- MODULE MCPPM --------------------------------
(***************************************************************************)
(* PPM for TLC: one application of each transport, fewer slots than        *)
(* datagrams.                                                              *)
(***************************************************************************)
EXTENDS PPM

SomeApps == {Telnet, DNSC}
=============================================================================
