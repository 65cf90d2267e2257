---------------------------- MODULE SerialExecutor ----------------------------
(***************************************************************************)
(* What the worker pool amounts to: an executor that accepts a task only   *)
(* when the one before it has been run to its end, and runs each task once. *)
(***************************************************************************)
EXTENDS Naturals, Sequences

CONSTANT Tasks      \* what can be submitted

VARIABLES accepted, \* the tasks accepted so far, oldest first
          finished  \* how many of them have been run

execVars == <<accepted, finished>>

Init == accepted = << >> /\ finished = 0

Accept == /\ finished = Len(accepted)
          /\ \E t \in Tasks : accepted' = Append(accepted, t)
          /\ UNCHANGED finished

Finish == /\ finished < Len(accepted)
          /\ finished' = finished + 1
          /\ UNCHANGED accepted

Next == Accept \/ Finish

Spec == Init /\ [][Next]_execVars
=============================================================================
