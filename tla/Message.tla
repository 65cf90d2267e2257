------------------------------- MODULE Message -------------------------------
(***************************************************************************)
(* The Message class of message.h: a list of pointers to bytes the caller  *)
(* owns, and a length kept apart from the list.  The length is what the    *)
(* operations go by; the list is what they move.                           *)
(*                                                                         *)
(* A pointer is modelled as the byte it points to: the buffers the caller  *)
(* passes in do not change here.  (PPReceive models a caller whose buffer  *)
(* does.)  A pop from an empty list is undefined; the program goes no      *)
(* further in this model.  msgSplit and msgJoin take another object or the *)
(* object itself: they do not check.                                       *)
(*                                                                         *)
(* The names every module has are prefixed here, so that LibraryProofs can *)
(* extend this module together with another.                               *)
(***************************************************************************)
EXTENDS Integers, Sequences

CONSTANTS Objs,     \* Message objects
          Bytes,
          Buffers,  \* the buffers a caller passes in, as strings of bytes
          MaxLen,   \* bytes in a Message (bound)
          Null,     \* the msgs pointer of an object that does not exist
          Unknown   \* stands for the contents of a misused object

ASSUME BuffersAssumption == Buffers \subseteq Seq(Bytes)
ASSUME MaxLenAssumption  == MaxLen \in Nat
ASSUME NullAssumption    == Null \notin Seq(Bytes) /\ Unknown \notin Seq(Bytes) \cup {Null}

Sizes == -1..(MaxLen + 1)   \* the lengths a caller passes in

VARIABLES msg_length, \* msg_length[o]
          msgs,       \* msgs[o]: the list, or Null
          stripped,   \* what the last msgStripHdr returned; << >> for NULL
          undefined,  \* a pop from an empty list has happened
          misused     \* history: objects whose contents nobody can rely on

msgVars == <<msg_length, msgs, stripped, undefined, misused>>

MsgInit == /\ msg_length = [o \in Objs |-> 0]
           /\ msgs = [o \in Objs |-> Null]
           /\ stripped = << >>
           /\ undefined = FALSE
           /\ misused = {}

Alive(o) == msgs[o] # Null

\* An operation on o that the program gets to.
Called(o) == ~ undefined /\ Alive(o)

-----------------------------------------------------------------------------
(* The loops, as what they leave after i rounds.                           *)

\* Mutation: the header's bytes pushed to the front from the first one on.
PushedForwards(list, hdr) ==
  LET after[i \in 0..Len(hdr)] ==
        IF i = 0 THEN list ELSE <<hdr[i]>> \o after[i - 1]
  IN after[Len(hdr)]

\* msgAddHdr pushes the header's bytes to the front, from the last one on.
Pushed(list, hdr) ==
  LET after[i \in 0..Len(hdr)] ==
        IF i = 0 THEN list ELSE <<hdr[Len(hdr) - i + 1]>> \o after[i - 1]
  IN after[Len(hdr)]

\* msgSplit moves the last byte of one list to the front of the other, n times.
MovedBack(from, to, n) ==
  LET after[i \in 0..n] ==
        IF i = 0 THEN [from |-> from, to |-> to]
        ELSE LET s == after[i - 1].from
             IN [from |-> SubSeq(s, 1, Len(s) - 1),
                 to   |-> <<s[Len(s)]>> \o after[i - 1].to]
  IN after[n]

\* msgJoin moves the first byte of one list to the end of the other, n times;
\* msgStripHdr moves it to the array it returns.
MovedFront(from, to, n) ==
  LET after[i \in 0..n] ==
        IF i = 0 THEN [from |-> from, to |-> to]
        ELSE [from |-> Tail(after[i - 1].from),
              to   |-> Append(after[i - 1].to, Head(after[i - 1].from))]
  IN after[n]

\* The same two loops over one list, where a Message is given to itself.
RotatedBack(list, n) ==
  LET after[i \in 0..n] ==
        IF i = 0 THEN list
        ELSE LET s == after[i - 1]
             IN <<s[Len(s)]>> \o SubSeq(s, 1, Len(s) - 1)
  IN after[n]

RotatedFront(list, n) ==
  LET after[i \in 0..n] ==
        IF i = 0 THEN list ELSE Append(Tail(after[i - 1]), Head(after[i - 1]))
  IN after[n]

\* A loop of n pops from a shorter list.
Underflow(list, n) == /\ n > Len(list)
                      /\ undefined' = TRUE
                      /\ UNCHANGED <<msg_length, msgs, stripped, misused>>

-----------------------------------------------------------------------------
\* Message()
EmptyMessage(o) ==
  /\ ~ undefined /\ ~ Alive(o)
  /\ msg_length' = [msg_length EXCEPT ![o] = 0]
  /\ msgs' = [msgs EXCEPT ![o] = << >>]
  /\ UNCHANGED <<stripped, undefined, misused>>

\* Message(msg, len)
NewMessage(o, msg) ==
  /\ ~ undefined /\ ~ Alive(o)
  /\ Len(msg) <= MaxLen
  /\ msg_length' = [msg_length EXCEPT ![o] = Len(msg)]
  /\ msgs' = [msgs EXCEPT ![o] = msg]
  /\ UNCHANGED <<stripped, undefined, misused>>

\* ~Message()
DeleteMessage(o) ==
  /\ Called(o)
  /\ msgs' = [msgs EXCEPT ![o] = Null]
  /\ msg_length' = [msg_length EXCEPT ![o] = 0]
  /\ misused' = misused \ {o}
  /\ UNCHANGED <<stripped, undefined>>

msgAddHdr(o, hdr) ==
  /\ Called(o)
  /\ Len(msgs[o]) + Len(hdr) <= MaxLen
  /\ msg_length[o] + Len(hdr) <= MaxLen
  /\ msgs' = [msgs EXCEPT ![o] = Pushed(@, hdr)]
  /\ msg_length' = [msg_length EXCEPT ![o] = @ + Len(hdr)]
  /\ UNCHANGED <<stripped, undefined, misused>>

\* Mutation: the length checked against one byte less than is popped.
RefusesOneLess(o, len) == len = 0 \/ msg_length[o] < len - 1 \/ len < 0

\* The test compares with an unsigned length, so that a negative len is large.
Refuses(o, len) == len = 0 \/ msg_length[o] < len \/ len < 0

msgStripHdr(o, len) ==
  /\ Called(o)
  /\ \/ /\ Refuses(o, len)
        /\ stripped' = << >>
        /\ UNCHANGED <<msg_length, msgs, undefined, misused>>
     \/ /\ ~ Refuses(o, len)
        /\ Underflow(msgs[o], len)
     \/ /\ ~ Refuses(o, len)
        /\ len <= Len(msgs[o])
        /\ LET moved == MovedFront(msgs[o], << >>, len)
           IN /\ stripped' = moved.to
              /\ msgs' = [msgs EXCEPT ![o] = moved.from]
        /\ msg_length' = [msg_length EXCEPT ![o] = @ - len]
        /\ UNCHANGED <<undefined, misused>>

\* Mutation: second's length computed from o's when that is already set.
SplitLengthsLate(o, second, len) == [msg_length EXCEPT ![o] = len, ![second] = len - len]

\* second's length is set to the number of bytes moved, whatever it held.
SplitLengths(o, second, len) == [msg_length EXCEPT ![o] = len, ![second] = msg_length[o] - len]

\* Bytes past len go to the front of second.
SplitApart(o, second, len) ==
  LET moving == msg_length[o] - len IN
  /\ o # second
  /\ \/ Underflow(msgs[o], moving)
     \/ /\ moving <= Len(msgs[o])
        /\ Len(msgs[second]) + moving <= MaxLen
        /\ LET moved == MovedBack(msgs[o], msgs[second], moving)
           IN msgs' = [msgs EXCEPT ![o] = moved.from, ![second] = moved.to]
        /\ msg_length' = SplitLengths(o, second, len)
        /\ misused' = IF o \in misused \/ msgs[second] # << >>
                        THEN misused \cup {second} ELSE misused
        /\ UNCHANGED <<stripped, undefined>>

\* o is second: all bytes stay in the one list, whose length is set twice.
SplitIntoItself(o, len) ==
  LET moving == msg_length[o] - len IN
  \/ msgs[o] = << >> /\ Underflow(msgs[o], moving)
  \/ /\ msgs[o] # << >> \/ moving = 0
     /\ msgs' = [msgs EXCEPT ![o] = RotatedBack(@, moving)]
     /\ msg_length' = SplitLengths(o, o, len)
     /\ misused' = IF len > 0 THEN misused \cup {o} ELSE misused
     /\ UNCHANGED <<stripped, undefined>>

\* len is unsigned: none is negative.
msgSplit(o, second, len) ==
  /\ Called(o) /\ Alive(second)
  /\ len \in 0..msg_length[o]
  /\ \/ SplitApart(o, second, len)
     \/ o = second /\ SplitIntoItself(o, len)

\* second's bytes go to the end of o; second's length stays as it was.
JoinOther(o, second) ==
  LET len == msg_length[second] IN
  /\ o # second
  /\ \/ Underflow(msgs[second], len)
     \/ /\ len <= Len(msgs[second])
        /\ Len(msgs[o]) + len <= MaxLen
        /\ msg_length[o] + len <= MaxLen
        /\ LET moved == MovedFront(msgs[second], msgs[o], len)
           IN msgs' = [msgs EXCEPT ![o] = moved.to, ![second] = moved.from]
        /\ msg_length' = [msg_length EXCEPT ![o] = @ + len]
        /\ misused' = IF {o, second} \cap misused # {} THEN misused \cup {o, second}
                      ELSE IF len > 0 THEN misused \cup {second} ELSE misused
        /\ UNCHANGED <<stripped, undefined>>

\* o is second: its bytes go round, and its length is added to itself.
JoinToItself(o) ==
  LET len == msg_length[o] IN
  \/ msgs[o] = << >> /\ Underflow(msgs[o], len)
  \/ /\ msgs[o] # << >> \/ len = 0
     /\ len + len <= MaxLen
     /\ msgs' = [msgs EXCEPT ![o] = RotatedFront(@, len)]
     /\ msg_length' = [msg_length EXCEPT ![o] = @ + len]
     /\ misused' = IF len > 0 THEN misused \cup {o} ELSE misused
     /\ UNCHANGED <<stripped, undefined>>

msgJoin(o, second) ==
  /\ Called(o) /\ Alive(second)
  /\ \/ JoinOther(o, second)
     \/ o = second /\ JoinToItself(o)

Undefined == undefined /\ UNCHANGED msgVars

MsgNext == \/ \E o \in Objs : \/ EmptyMessage(o)
                              \/ \E msg \in Buffers : NewMessage(o, msg)
                              \/ DeleteMessage(o)
                              \/ \E hdr \in Buffers : msgAddHdr(o, hdr)
                              \/ \E len \in Sizes : msgStripHdr(o, len)
           \/ \E o, second \in Objs : \/ \E len \in Sizes : msgSplit(o, second, len)
                                      \/ msgJoin(o, second)
           \/ Undefined

MsgSpec == MsgInit /\ [][MsgNext]_msgVars
-----------------------------------------------------------------------------
MsgTypeOK == /\ msg_length \in [Objs -> 0..MaxLen]
             /\ msgs \in [Objs -> Seq(Bytes) \cup {Null}]
             /\ stripped \in Seq(Bytes)
             /\ undefined \in BOOLEAN
             /\ misused \subseteq {o \in Objs : Alive(o)}

\* The length kept apart from the list is the list's, through every sequence
\* of headers added and stripped, splits and joins, unless the Message was
\* split into while it held bytes, used after it was joined to another, joined
\* to itself, or split into itself after some byte; and unless some Message
\* was misused so, no operation pops an empty list.
LengthExact == /\ \A o \in Objs \ misused : Alive(o) => msg_length[o] = Len(msgs[o])
               /\ undefined => misused # {}

(* A Message is a byte string.                                             *)
Str == INSTANCE ByteStrings WITH
         Names <- Objs, Strings <- Buffers, Lens <- Sizes,
         Absent <- Null,
         str <- [o \in Objs |-> IF o \in misused THEN Unknown ELSE msgs[o]],
         result <- stripped

\* The loops over the list compute concatenation, prefix and suffix, and a
\* header is returned as it was added; Messages that are not misused never
\* see one another's bytes.
ImplementsStrings == Str!Spec
=============================================================================
