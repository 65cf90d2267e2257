------------------------------ MODULE MCPPSend ------------------------------
(***************************************************************************)
(* PPSend for TLC: all four applications with one message each, or two     *)
(* applications with two.                                                  *)
(***************************************************************************)
EXTENDS PPSend

FourApps      == AppProtos
\* Two that meet only at lock3 and sendIPPipe.
TwoTransports == {FTP, RDP}
=============================================================================
