---------------------------- MODULE MCChatSession ----------------------------
(***************************************************************************)
(* ChatSession for TLC: a table of two rows, one of them taken at first, so *)
(* that it is soon full; "1" is a session name like another.               *)
(***************************************************************************)
EXTENDS ChatSession

TwoRows == {0, 1}
OneSession == [r \in TwoRows |-> IF r = 0 THEN "abc" ELSE Empty]
=============================================================================
