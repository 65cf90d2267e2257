--------------------------- MODULE MCEventScheduler ---------------------------
(***************************************************************************)
(* EventScheduler for TLC: two clients and one event more than places.     *)
(***************************************************************************)
EXTENDS EventScheduler

CONSTANTS c1, c2

TwoClients == {c1, c2}
Quota      == [c \in TwoClients |-> IF c = c1 THEN 2 ELSE 1]
=============================================================================
