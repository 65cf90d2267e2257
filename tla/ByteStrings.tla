----------------------------- MODULE ByteStrings -----------------------------
(***************************************************************************)
(* What a Message is meant to be: a named byte string.  Each operation is  *)
(* given by its result, not by the loop that computes it.  A name whose     *)
(* object has been misused stands for no string in particular: Unknown.    *)
(***************************************************************************)
EXTENDS Integers, Sequences

CONSTANTS Names,    \* what an object is reached by
          Strings,  \* the strings a caller passes in
          Lens,     \* the lengths a caller passes in
          Absent,   \* the value of a name with no object
          Unknown   \* the value of a name whose object has been misused

VARIABLES str,      \* str[o]: o's string, Absent or Unknown
          result    \* what the last StripHdr returned; << >> for NULL

stringVars == <<str, result>>

Init == str = [o \in Names |-> Absent] /\ result = << >>

Present(o)  == str[o] # Absent
Known(o)    == str[o] \notin {Absent, Unknown}
Front(s, n) == SubSeq(s, 1, n)
Back(s, n)  == SubSeq(s, n + 1, Len(s))

Create(o, s) == /\ ~ Present(o)
                /\ str' = [str EXCEPT ![o] = s]
                /\ UNCHANGED result

Delete(o) == /\ Present(o)
             /\ str' = [str EXCEPT ![o] = Absent]
             /\ UNCHANGED result

AddHdr(o, h) == /\ Known(o)
                /\ str' = [str EXCEPT ![o] = h \o @]
                /\ UNCHANGED result

\* The first n bytes, or nothing and no change where there are not so many.
StripHdr(o, n) == /\ Known(o)
                  /\ IF n \in 1..Len(str[o])
                       THEN /\ result' = Front(str[o], n)
                            /\ str' = [str EXCEPT ![o] = Back(@, n)]
                       ELSE result' = << >> /\ UNCHANGED str

\* An empty p takes what lies past n in o; any other p is misused.
Split(o, p, n) == /\ o # p /\ Known(o) /\ Present(p)
                  /\ n \in 0..Len(str[o])
                  /\ str' = [str EXCEPT ![o] = Front(@, n),
                                        ![p] = IF @ = << >> THEN Back(str[o], n) ELSE Unknown]
                  /\ UNCHANGED result

\* o takes all of p, and p must not be used again unless it was empty.
Join(o, p) == /\ o # p /\ Known(o) /\ Known(p)
              /\ str' = [str EXCEPT ![o] = @ \o str[p],
                                    ![p] = IF @ = << >> THEN @ ELSE Unknown]
              /\ UNCHANGED result

\* A misused object spoils those it is joined with or split into.
Spoil(o, p) == /\ o # p /\ Present(o) /\ Present(p)
               /\ ~ (Known(o) /\ Known(p))
               /\ str' = [str EXCEPT ![o] = Unknown, ![p] = Unknown]
               /\ UNCHANGED result

\* Joined to itself, or split into itself, o stands for no string any more.
GiveToItself(o) == /\ Known(o) /\ str[o] # << >>
                   /\ str' = [str EXCEPT ![o] = Unknown]
                   /\ UNCHANGED result

\* A misused object returns something.
StripUnknown(o) == str[o] = Unknown /\ UNCHANGED str

Next == \/ \E o \in Names : \/ \E s \in Strings \cup {<< >>} : Create(o, s)
                            \/ \E h \in Strings : AddHdr(o, h)
                            \/ \E n \in Lens : StripHdr(o, n)
                            \/ GiveToItself(o)
                            \/ StripUnknown(o)
                            \/ Delete(o)
        \/ \E o, p \in Names : \/ \E n \in Lens : Split(o, p, n)
                               \/ Join(o, p)
                               \/ Spoil(o, p)

Spec == Init /\ [][Next]_stringVars
=============================================================================
