------------------------------ MODULE MCMessage ------------------------------
(***************************************************************************)
(* Message for TLC: three objects, so that what a split leaves can be      *)
(* joined to another, and two buffers.  The longer buffer reversed is      *)
(* not a buffer, so that a header in the wrong order shows.  Two bytes let  *)
(* a Message of one byte be joined to itself.  The objects are alike, and   *)
(* no property is about liveness, so they may be permuted.                  *)
(***************************************************************************)
EXTENDS Message, TLC

CONSTANTS m, m1, m2, b, h

Objects == {m, m1, m2}
Symmetry == Permutations(Objects)
Values  == {b, h}
Strings == {<< >>, <<b>>, <<h, b>>}
=============================================================================
