------------------------------ MODULE Protocols ------------------------------
(***************************************************************************)
(* The eight protocols of the network stack, shared by its modules: their  *)
(* ids, the sizes of their headers and which protocol carries which.       *)
(***************************************************************************)
EXTENDS Naturals

CONSTANT Apps    \* the application protocols that are in use

(* Protocol ids, as the comments on the header structures number them.     *)
Ethernet == 1
IP       == 2
TCP      == 3
UDP      == 4
FTP      == 5
Telnet   == 6
RDP      == 7
DNSC     == 8

Protos    == 1..8
AppProtos == {FTP, Telnet, RDP, DNSC}

ASSUME AppsAssumption == Apps \subseteq AppProtos

Transport(a) == IF a \in {FTP, Telnet} THEN TCP ELSE UDP

\* The protocol that carries p.
Below(p) == IF p \in AppProtos THEN Transport(p)
            ELSE IF p \in {TCP, UDP} THEN IP ELSE Ethernet

\* sizeof of each header structure.
SizeOf(p) == IF p \in {IP, RDP} THEN 20
             ELSE IF p \in {TCP, UDP} THEN 12 ELSE 16
=============================================================================
