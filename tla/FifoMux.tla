------------------------------- MODULE FifoMux -------------------------------
(***************************************************************************)
(* What the sending half of the protocol stack promises to its             *)
(* applications, without its threads, pipes and locks: a multiplexer that  *)
(* accepts messages from each application and puts every accepted message  *)
(* on the wire at most once, the messages of one application in the order  *)
(* they were accepted.  The streams of different applications interleave   *)
(* freely.  Once it stops it neither accepts nor emits.                    *)
(***************************************************************************)
EXTENDS Naturals, Sequences

CONSTANTS Apps,      \* the applications
          N          \* messages an application submits

VARIABLES submitted, \* submitted[a]: how many messages a has submitted
          out,       \* the messages emitted so far, oldest first
          open       \* FALSE once the multiplexer has stopped

muxVars == <<submitted, out, open>>

Emitted(a, i) == \E k \in DOMAIN out : out[k] = <<a, i>>

Init == /\ submitted = [a \in Apps |-> 0]
        /\ out = << >>
        /\ open = TRUE

Submit(a) == /\ open
             /\ submitted[a] < N
             /\ submitted' = [submitted EXCEPT ![a] = @ + 1]
             /\ UNCHANGED <<out, open>>

\* The oldest message of a that is not on the wire yet goes out.
Emit(a) == /\ open
           /\ \E i \in 1..submitted[a] :
                 /\ ~ Emitted(a, i)
                 /\ \A j \in 1..(i - 1) : Emitted(a, j)
                 /\ out' = Append(out, <<a, i>>)
           /\ UNCHANGED <<submitted, open>>

Stop == /\ open
        /\ open' = FALSE
        /\ UNCHANGED <<submitted, out>>

Next == (\E a \in Apps : Submit(a) \/ Emit(a)) \/ Stop

Spec == Init /\ [][Next]_muxVars
=============================================================================
