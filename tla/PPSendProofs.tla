---------------------------- MODULE PPSendProofs ----------------------------
(***************************************************************************)
(* Theorems about PPSend, for any set of applications, any number of       *)
(* messages and any pipe capacity.                                         *)
(***************************************************************************)
EXTENDS PPSend, SequenceTheorems, TLAPS

-----------------------------------------------------------------------------
(* Facts about the operators of the model.                                 *)

\* The layer below, the mutex and the header size of a layer are of their types.
LEMMA LayerTypes ==
  ASSUME NEW p \in Protos
  PROVE  /\ Below(p) \in Protos
         /\ Mutex(p) \in Mutexes
         /\ SizeOf(p) \in Nat
  BY DEF Protos, Below, Transport, Mutex, Mutexes, SizeOf, AppProtos,
         Ethernet, IP, TCP, UDP, FTP, Telnet, RDP, DNSC

\* An application's pipe is one of the pipes, and 1 is a protocol.
LEMMA AppsAreProtos == Apps \subseteq Protos /\ Ethernet \in Protos /\ IP \in Protos
  BY AppsAssumption DEF Protos, AppProtos, Ethernet, IP, FTP, Telnet, RDP, DNSC

-----------------------------------------------------------------------------
(* The steps of the system: Next is a disjunction over the named threads;  *)
(* every step of one is one of the parameterised actions below.            *)
StepKinds ==
  \/ \E a \in Apps : BuildMessage(a) \/ WriteMessage(a)
  \/ \E p \in Protos : ReadUnit(p) \/ AddHdr(p) \/ WriteUnit(p) \/ Unlock(p)
  \/ SendTo
  \/ SendToFails
  \/ OverwriteRemaddr
  \/ MainReturns

\* Each step of a named thread is one of the parameterised actions.
LEMMA StepCases == Step => StepKinds
  BY DEF Step, StepKinds, AppFTPFunc, AppTelnetFunc, AppRDPFunc, AppDNSCFunc,
         AppThread, SendThread, DNSCSendFunc, RDPSendFunc, TelnetSendFunc,
         FTPSendFunc, UDPSendFunc, TCPSendFunc, IPSendFunc, EthernetSendFunc,
         Protos, Ethernet, IP, TCP, UDP, FTP, Telnet, RDP, DNSC
-----------------------------------------------------------------------------
(* Type correctness.  TypeOK alone is not inductive: the Message a thread  *)
(* works on must be a real one, so a thread past its read must hold a unit *)
(* and an application about to write must have built a message.            *)
HandOK  == \A p \in Protos : stage[p] \in {"got", "write"} => hand[p] \in Unit
BuiltOK == \A a \in Apps : apc[a] = "write" => count[a] >= 1

TypeInv == TypeOK /\ HandOK /\ BuiltOK

\* The initial state has the right types.
LEMMA InitTypeInv == Init => TypeInv
<1> SUFFICES ASSUME Init PROVE TypeInv
  OBVIOUS
<1> USE DEF Init
<1>1. \A p \in Protos : Len(sendPipe[p]) <= PipeCap
  BY PipeCapAssumption
<1>2. count \in [Apps -> 0..N] /\ apc \in [Apps -> {"build", "write"}]
  BY NAssumption
<1>3. sendPipe \in [Protos -> Seq(Unit)] /\ wire \in Seq(Datagram)
  OBVIOUS
<1>4. msg \in [Msgs -> [len : Nat, hdrs : Seq(Header)]]
  OBVIOUS
<1>5. TypeOK
  BY <1>1, <1>2, <1>3, <1>4 DEF TypeOK, Ports
<1>6. HandOK /\ BuiltOK
  BY DEF HandOK, BuiltOK
<1> QED  BY <1>5, <1>6 DEF TypeInv

\* Every step keeps the types: the case of one application's step.
LEMMA AppTypeInv ==
  ASSUME TypeInv, NEW a \in Apps, BuildMessage(a) \/ WriteMessage(a)
  PROVE  TypeInv'
<1> USE NAssumption, AppsAreProtos DEF TypeInv, TypeOK, HandOK, BuiltOK, Msgs
<1>1. CASE BuildMessage(a)
  <2> USE <1>1 DEF BuildMessage, netVars
  <2>1. count' \in [Apps -> 0..N] /\ count'[a] >= 1
    OBVIOUS
  <2>2. <<a, count[a] + 1>> \in Msgs
    OBVIOUS
  <2>3. msg' \in [Msgs -> [len : Nat, hdrs : Seq(Header)]]
    BY <2>2 DEF DataLen
  <2> QED  BY <2>1, <2>3
<1>2. CASE WriteMessage(a)
  <2> USE <1>2 DEF WriteMessage, heapVars, netVars
  <2>1. [proto_id |-> a, mp |-> <<a, count[a]>>] \in Unit
    BY DEF Unit
  <2>2. sendPipe' \in [Protos -> Seq(Unit)]
    BY <2>1
  <2>3. \A p \in Protos : Len(sendPipe'[p]) <= PipeCap
    BY <2>1, PipeCapAssumption
  <2> QED  BY <2>2, <2>3
<1> QED  BY <1>1, <1>2

\* Every step keeps the types: the case of one protocol thread's step.
LEMMA ThreadTypeInv ==
  ASSUME TypeInv, NEW p \in Protos,
         ReadUnit(p) \/ AddHdr(p) \/ WriteUnit(p) \/ Unlock(p)
  PROVE  TypeInv'
<1> USE LayerTypes DEF TypeInv, TypeOK, HandOK, BuiltOK
<1>1. CASE ReadUnit(p)
  <2> USE <1>1 DEF ReadUnit, appVars, heapVars, netVars
  <2>1. Head(sendPipe[p]) \in Unit /\ Tail(sendPipe[p]) \in Seq(Unit)
        /\ Len(Tail(sendPipe[p])) <= PipeCap
    BY PipeCapAssumption
  <2> QED  BY <2>1
<1>2. CASE AddHdr(p)
  <2> DEFINE m == hand[p].mp
             h == [layer |-> p, hlp |-> Hlp(p), msglen |-> msg[m].len]
  <2> USE <1>2 DEF AddHdr, appVars, netVars
  <2>1. hand[p] \in Unit /\ m \in Msgs
    BY DEF Unit
  <2>2. h \in Header
    <3>1. Hlp(p) \in Protos
      BY <2>1, AppsAreProtos DEF Hlp, Unit, Ethernet
    <3>2. msg[m].len \in Nat
      BY <2>1
    <3> QED  BY <3>1, <3>2 DEF Header
  <2>3. msg' \in [Msgs -> [len : Nat, hdrs : Seq(Header)]]
    BY <2>1, <2>2
  <2>4. [proto_id |-> p, mp |-> m] \in Unit
    BY <2>1 DEF Unit
  <2>5. lock' \in [Mutexes -> Protos \cup {Free}]
    OBVIOUS
  <2> QED  BY <2>3, <2>4, <2>5
<1>3. CASE WriteUnit(p)
  <2> USE <1>3 DEF WriteUnit, appVars, heapVars, netVars
  <2>1. sendPipe' \in [Protos -> Seq(Unit)]
        /\ \A q \in Protos : Len(sendPipe'[q]) <= PipeCap
    BY PipeCapAssumption
  <2> QED  BY <2>1
<1>4. CASE Unlock(p)
  BY <1>4 DEF Unlock, appVars, heapVars, netVars
<1> QED  BY <1>1, <1>2, <1>3, <1>4

\* TypeInv is inductive.
LEMMA NextTypeInv == TypeInv /\ [Next]_vars => TypeInv'
<1> SUFFICES ASSUME TypeInv, [Next]_vars PROVE TypeInv'
  OBVIOUS
<1> USE DEF TypeInv, TypeOK, HandOK, BuiltOK
<1>1. CASE UNCHANGED vars
  BY <1>1 DEF vars
<1>2. CASE StepKinds
  <2>1. CASE \E a \in Apps : BuildMessage(a) \/ WriteMessage(a)
    BY <2>1, AppTypeInv
  <2>2. CASE \E p \in Protos : ReadUnit(p) \/ AddHdr(p) \/ WriteUnit(p) \/ Unlock(p)
    BY <2>2, ThreadTypeInv
  <2>3. CASE SendTo
    <3>1. wire' \in Seq(Datagram)
      BY <2>3, AppsAreProtos DEF SendTo, Datagram, Unit
    <3> QED  BY <2>3, <3>1 DEF SendTo, appVars, heapVars
  <2>4. CASE SendToFails
    BY <2>4 DEF SendToFails, appVars, heapVars, netVars
  <2>5. CASE OverwriteRemaddr
    BY <2>5 DEF OverwriteRemaddr, appVars, heapVars, Ports
  <2>6. CASE MainReturns
    BY <2>6 DEF MainReturns, appVars, heapVars, netVars
  <2> QED  BY <1>2, <2>1, <2>2, <2>3, <2>4, <2>5, <2>6 DEF StepKinds
<1> QED  BY <1>1, <1>2, StepCases DEF Next, Ended

\* The state always has the right types, and no pipe ever holds more units
\* than its capacity.
THEOREM TypeCorrect == Spec => []TypeOK
<1>1. TypeInv => TypeOK
  BY DEF TypeInv
<1> QED  BY <1>1, InitTypeInv, NextTypeInv, PTL DEF Spec
-----------------------------------------------------------------------------
(* Mutual exclusion.  Only a layer with a mutex ever waits to release one. *)
LockInv == /\ TypeInv
           /\ LockDiscipline
           /\ \A p \in Protos : stage[p] = "unlock" => p \in Locking

\* Nobody holds a mutex at the start.
LEMMA InitLockInv == Init => LockInv
<1> SUFFICES ASSUME Init PROVE LockInv
  OBVIOUS
<1>1. \A x \in Mutexes : \A p \in Protos : lock[x] # p
  BY DEF Init, Free, Protos
<1>2. \A p \in Protos : stage[p] = "read"
  BY DEF Init
<1> QED  BY <1>1, <1>2, InitTypeInv DEF LockInv, LockDiscipline

\* LockInv is inductive: only taking and releasing a mutex disturb it.
LEMMA NextLockInv == LockInv /\ [Next]_vars => LockInv'
<1> SUFFICES ASSUME LockInv, [Next]_vars PROVE LockInv'
  OBVIOUS
<1>0. TypeInv'
  BY NextTypeInv DEF LockInv
<1> USE DEF LockInv, LockDiscipline
<1>1. CASE UNCHANGED vars
  BY <1>0, <1>1 DEF vars
<1>2. CASE StepKinds
  <2>1. ASSUME NEW p \in Protos, ReadUnit(p) PROVE LockInv'
    BY <1>0, <2>1 DEF ReadUnit, TypeInv, TypeOK
  <2>2. ASSUME NEW p \in Protos, AddHdr(p) PROVE LockInv'
    <3>1. stage' = [stage EXCEPT ![p] = "write"] /\ stage[p] = "got"
      BY <2>2 DEF AddHdr
    <3>2. p \in Locking => lock[Mutex(p)] = Free
      BY <2>2 DEF AddHdr
    <3>3. lock' = IF p \in Locking THEN [lock EXCEPT ![Mutex(p)] = p] ELSE lock
      BY <2>2 DEF AddHdr
    <3>4. \A q \in Protos : q # Free
      BY DEF Protos, Free
    <3> QED  BY <1>0, <3>1, <3>2, <3>3, <3>4, LayerTypes DEF TypeInv, TypeOK
  <2>3. ASSUME NEW p \in Protos, WriteUnit(p) PROVE LockInv'
    BY <1>0, <2>3 DEF WriteUnit, TypeInv, TypeOK
  <2>4. ASSUME NEW p \in Protos, Unlock(p) PROVE LockInv'
    <3>1. stage' = [stage EXCEPT ![p] = "read"] /\ stage[p] = "unlock"
      BY <2>4 DEF Unlock
    <3>2. lock' = [lock EXCEPT ![Mutex(p)] = Free]
      BY <2>4 DEF Unlock
    <3>3. \A q \in Protos : q # Free
      BY DEF Protos, Free
    <3>4. lock[Mutex(p)] = p
      BY <3>1, LayerTypes
    <3> QED  BY <1>0, <3>1, <3>2, <3>3, <3>4, LayerTypes DEF TypeInv, TypeOK
  <2>5. CASE SendTo
    <3>1. Ethernet \notin Locking
      BY DEF Locking, Ethernet, TCP, UDP, AppProtos, FTP, Telnet, RDP, DNSC
    <3> QED  BY <1>0, <2>5, <3>1, AppsAreProtos DEF SendTo, TypeInv, TypeOK
  <2>6. ASSUME NEW a \in Apps, BuildMessage(a) \/ WriteMessage(a) PROVE LockInv'
    BY <1>0, <2>6 DEF BuildMessage, WriteMessage
  <2>7. CASE SendToFails \/ OverwriteRemaddr \/ MainReturns
    BY <1>0, <2>7 DEF SendToFails, OverwriteRemaddr, MainReturns
  <2> QED  BY <1>2, <2>1, <2>2, <2>3, <2>4, <2>5, <2>6, <2>7 DEF StepKinds
<1> QED  BY <1>1, <1>2, StepCases DEF Next, Ended

\* A mutex is held exactly by the one thread between its lock and its unlock,
\* so two threads that share a mutex are never both in that section.
THEOREM LocksExclude == Spec => []LockDiscipline
<1>1. LockInv => LockDiscipline
  BY DEF LockInv
<1> QED  BY <1>1, InitLockInv, NextLockInv, PTL DEF Spec
-----------------------------------------------------------------------------
(* Ownership.  OneOwner in terms of the four kinds of place: no message is *)
(* in two of them, and the messages that are somewhere are those counted.  *)
Apart(m) ==
  /\ \A a \in Apps : AtApp(a, m) =>
        /\ \A q \in Protos : \A l \in Nat : ~ InPipe(q, l, m)
        /\ \A q \in Protos : ~ InHand(q, m)
        /\ \A l \in Nat : ~ OnWire(l, m)
  /\ \A p \in Protos : \A k \in Nat : InPipe(p, k, m) =>
        /\ \A q \in Protos : \A l \in Nat : InPipe(q, l, m) => p = q /\ k = l
        /\ \A q \in Protos : ~ InHand(q, m)
        /\ \A l \in Nat : ~ OnWire(l, m)
  /\ \A p \in Protos : InHand(p, m) =>
        /\ \A q \in Protos : InHand(q, m) => p = q
        /\ \A l \in Nat : ~ OnWire(l, m)
  /\ \A k, l \in Nat : OnWire(k, m) /\ OnWire(l, m) => k = l

Somewhere(m) == \/ \E a \in Apps : AtApp(a, m)
                \/ \E p \in Protos : \E k \in Nat : InPipe(p, k, m)
                \/ \E p \in Protos : InHand(p, m)
                \/ \E k \in Nat : OnWire(k, m)

Owned == \A m \in Msgs : Apart(m) /\ (m[2] <= count[m[1]] <=> Somewhere(m))

OwnInv == TypeInv /\ Owned

\* At the start no message is anywhere.
LEMMA InitOwned == Init => OwnInv
<1> SUFFICES ASSUME Init PROVE Owned
  BY InitTypeInv DEF OwnInv
<1> SUFFICES ASSUME NEW m \in Msgs
             PROVE  Apart(m) /\ (m[2] <= count[m[1]] <=> Somewhere(m))
  BY DEF Owned
<1>1. \A a \in Apps : ~ AtApp(a, m)
  BY DEF Init, AtApp
<1>2. \A p \in Protos : \A k \in Nat : ~ InPipe(p, k, m)
  BY DEF Init, InPipe
<1>3. \A p \in Protos : ~ InHand(p, m)
  BY DEF Init, InHand
<1>4. \A k \in Nat : ~ OnWire(k, m)
  BY DEF Init, OnWire
<1>5. ~ (m[2] <= count[m[1]])
  BY NAssumption DEF Init, Msgs
<1> QED  BY <1>1, <1>2, <1>3, <1>4, <1>5 DEF Apart, Somewhere

(* How each step moves the messages.                                       *)

\* Building puts one new message at its application and moves no other.
LEMMA BuildMoves ==
  ASSUME OwnInv, NEW a \in Apps, BuildMessage(a)
  PROVE  Owned'
<1> DEFINE new == <<a, count[a] + 1>>
<1>1. /\ apc[a] = "build" /\ apc' = [apc EXCEPT ![a] = "write"]
      /\ count[a] < N /\ count' = [count EXCEPT ![a] = @ + 1]
      /\ UNCHANGED <<sendPipe, stage, hand, wire>>
  BY DEF BuildMessage, netVars
<1>2. count \in [Apps -> 0..N] /\ apc \in [Apps -> {"build", "write"}]
  BY DEF OwnInv, TypeInv, TypeOK
<1>3. new \in Msgs /\ ~ Somewhere(new)
  BY <1>1, <1>2, NAssumption DEF OwnInv, Owned, Msgs
<1> SUFFICES ASSUME NEW m \in Msgs
             PROVE  (Apart(m) /\ (m[2] <= count[m[1]] <=> Somewhere(m)))'
  BY DEF Owned
<1>4. \A b \in Apps : AtApp(b, m)' <=> (AtApp(b, m) \/ (b = a /\ m = new))
  BY <1>1, <1>2 DEF AtApp
<1>5. /\ \A p \in Protos : \A k \in Nat : InPipe(p, k, m)' <=> InPipe(p, k, m)
      /\ \A p \in Protos : InHand(p, m)' <=> InHand(p, m)
      /\ \A k \in Nat : OnWire(k, m)' <=> OnWire(k, m)
  BY <1>1 DEF InPipe, InHand, OnWire
<1>6. m[2] <= count'[m[1]] <=> (m[2] <= count[m[1]] \/ m = new)
  BY <1>1, <1>2, NAssumption DEF Msgs
<1>7. Apart(m) /\ (m[2] <= count[m[1]] <=> Somewhere(m))
  BY DEF OwnInv, Owned
<1> QED  BY <1>3, <1>4, <1>5, <1>6, <1>7 DEF Apart, Somewhere

\* Writing moves an application's message to the end of its pipe.
LEMMA WriteMoves ==
  ASSUME OwnInv, NEW a \in Apps, WriteMessage(a)
  PROVE  Owned'
<1>1. /\ apc[a] = "write" /\ apc' = [apc EXCEPT ![a] = "build"]
      /\ sendPipe' = [sendPipe EXCEPT ![a] =
                        Append(@, [proto_id |-> a, mp |-> <<a, count[a]>>])]
      /\ UNCHANGED <<count, stage, hand, wire>>
  BY DEF WriteMessage, netVars
<1>2. /\ count \in [Apps -> 0..N] /\ apc \in [Apps -> {"build", "write"}]
      /\ sendPipe \in [Protos -> Seq(Unit)]
  BY DEF OwnInv, TypeInv, TypeOK
<1>3. a \in Protos /\ Len(sendPipe[a]) \in Nat
  BY <1>2, AppsAreProtos
<1>4. [proto_id |-> a, mp |-> <<a, count[a]>>] \in Unit
  BY <1>1, <1>2, <1>3, NAssumption DEF Unit, Msgs, OwnInv, TypeInv, BuiltOK
<1> SUFFICES ASSUME NEW m \in Msgs
             PROVE  (Apart(m) /\ (m[2] <= count[m[1]] <=> Somewhere(m)))'
  BY DEF Owned
<1>5. \A b \in Apps : AtApp(b, m)' <=> (b # a /\ AtApp(b, m))
  BY <1>1, <1>2 DEF AtApp
<1>6. \A p \in Protos : \A k \in Nat :
         InPipe(p, k, m)' <=> \/ InPipe(p, k, m)
                              \/ p = a /\ k = Len(sendPipe[a]) + 1 /\ AtApp(a, m)
  BY <1>1, <1>2, <1>3, <1>4 DEF InPipe, AtApp
<1>7. /\ \A p \in Protos : InHand(p, m)' <=> InHand(p, m)
      /\ \A k \in Nat : OnWire(k, m)' <=> OnWire(k, m)
  BY <1>1 DEF InHand, OnWire
<1>8. Apart(m) /\ (m[2] <= count[m[1]] <=> Somewhere(m))
  BY DEF OwnInv, Owned
<1>9. \A b, c \in Apps : AtApp(b, m) /\ AtApp(c, m) => b = c
  BY DEF AtApp
<1>10. Apart(m)'
  BY <1>3, <1>5, <1>6, <1>7, <1>8, <1>9 DEF Apart
<1>11. Somewhere(m)' <=> Somewhere(m)
  BY <1>3, <1>5, <1>6, <1>7 DEF Somewhere
<1> QED  BY <1>1, <1>8, <1>10, <1>11

\* Reading moves the head of a pipe to the thread that reads it, and every
\* other message of the pipe one place on.
LEMMA ReadMoves ==
  ASSUME OwnInv, NEW p \in Protos, ReadUnit(p)
  PROVE  Owned'
<1>1. /\ stage[p] = "read" /\ stage' = [stage EXCEPT ![p] = "got"]
      /\ sendPipe[p] # << >>
      /\ sendPipe' = [sendPipe EXCEPT ![p] = Tail(@)]
      /\ hand' = [hand EXCEPT ![p] = Head(sendPipe[p])]
      /\ UNCHANGED <<count, apc, wire>>
  BY DEF ReadUnit, appVars, netVars
<1>2. /\ sendPipe \in [Protos -> Seq(Unit)]
      /\ stage \in [Protos -> {"read", "got", "write", "unlock"}]
      /\ hand \in [Protos -> Unit \cup {NoUnit}]
  BY DEF OwnInv, TypeInv, TypeOK
<1> SUFFICES ASSUME NEW m \in Msgs
             PROVE  (Apart(m) /\ (m[2] <= count[m[1]] <=> Somewhere(m)))'
  BY DEF Owned
<1>3. \A q \in Protos : \A k \in Nat :
         InPipe(q, k, m)' <=> IF q = p THEN k # 0 /\ InPipe(p, k + 1, m)
                                       ELSE InPipe(q, k, m)
  BY <1>1, <1>2 DEF InPipe
<1>4. \A q \in Protos :
         InHand(q, m)' <=> IF q = p THEN InPipe(p, 1, m) ELSE InHand(q, m)
  BY <1>1, <1>2 DEF InPipe, InHand
<1>5. /\ \A a \in Apps : AtApp(a, m)' <=> AtApp(a, m)
      /\ \A k \in Nat : OnWire(k, m)' <=> OnWire(k, m)
  BY <1>1 DEF AtApp, OnWire
<1>6. ~ InHand(p, m) /\ ~ InPipe(p, 0, m)
  BY <1>1, <1>2 DEF InHand, InPipe
<1>7. Apart(m) /\ (m[2] <= count[m[1]] <=> Somewhere(m))
  BY DEF OwnInv, Owned
<1>8. Apart(m)'
  BY <1>3, <1>4, <1>5, <1>7 DEF Apart
<1>9. Somewhere(m)' <=> Somewhere(m)
  <2>1. ASSUME NEW k \in Nat, InPipe(p, k, m) PROVE Somewhere(m)'
    <3>1. k = 1 \/ (k - 1 \in Nat /\ k - 1 # 0 /\ InPipe(p, (k - 1) + 1, m))
      BY <1>6, <2>1
    <3> QED  BY <1>3, <1>4, <2>1, <3>1 DEF Somewhere
  <2>2. Somewhere(m) => Somewhere(m)'
    BY <1>3, <1>4, <1>5, <1>6, <2>1 DEF Somewhere
  <2>3. Somewhere(m)' => Somewhere(m)
    BY <1>3, <1>4, <1>5 DEF Somewhere
  <2> QED  BY <2>2, <2>3
<1> QED  BY <1>1, <1>7, <1>8, <1>9

\* Writing moves a thread's message to the end of the pipe below.
LEMMA WriteUnitMoves ==
  ASSUME OwnInv, NEW p \in Protos, WriteUnit(p)
  PROVE  Owned'
<1> DEFINE b == Below(p)
<1>1. /\ stage[p] = "write"
      /\ stage' = [stage EXCEPT ![p] = IF p \in Locking THEN "unlock" ELSE "read"]
      /\ sendPipe' = [sendPipe EXCEPT ![b] = Append(@, hand[p])]
      /\ hand' = [hand EXCEPT ![p] = NoUnit]
      /\ UNCHANGED <<count, apc, wire>>
  BY DEF WriteUnit, appVars, netVars
<1>2. /\ sendPipe \in [Protos -> Seq(Unit)]
      /\ stage \in [Protos -> {"read", "got", "write", "unlock"}]
      /\ hand \in [Protos -> Unit \cup {NoUnit}]
      /\ hand[p] \in Unit
  BY <1>1 DEF OwnInv, TypeInv, TypeOK, HandOK
<1>3. b \in Protos /\ Len(sendPipe[b]) \in Nat
  BY <1>2, LayerTypes
<1> SUFFICES ASSUME NEW m \in Msgs
             PROVE  (Apart(m) /\ (m[2] <= count[m[1]] <=> Somewhere(m)))'
  BY DEF Owned
<1> HIDE DEF b
<1>4. \A q \in Protos : \A k \in Nat :
         InPipe(q, k, m)' <=> \/ InPipe(q, k, m)
                              \/ q = b /\ k = Len(sendPipe[b]) + 1 /\ InHand(p, m)
  BY <1>1, <1>2, <1>3 DEF InPipe, InHand
<1>5. \A q \in Protos : InHand(q, m)' <=> (q # p /\ InHand(q, m))
  BY <1>1, <1>2 DEF InHand
<1>6. /\ \A a \in Apps : AtApp(a, m)' <=> AtApp(a, m)
      /\ \A k \in Nat : OnWire(k, m)' <=> OnWire(k, m)
  BY <1>1 DEF AtApp, OnWire
<1>7. Apart(m) /\ (m[2] <= count[m[1]] <=> Somewhere(m))
  BY DEF OwnInv, Owned
<1>8. Apart(m)'
  BY <1>3, <1>4, <1>5, <1>6, <1>7 DEF Apart
<1>9. Somewhere(m)' <=> Somewhere(m)
  BY <1>3, <1>4, <1>5, <1>6 DEF Somewhere
<1> QED  BY <1>1, <1>7, <1>8, <1>9

\* sendto moves the Ethernet thread's message to the end of the wire.
LEMMA SendToMoves ==
  ASSUME OwnInv, SendTo
  PROVE  Owned'
<1> DEFINE e == Ethernet
           g == [mp |-> hand[e].mp, frame |-> msg[hand[e].mp].hdrs, dst |-> remaddr]
<1>1. /\ stage[e] = "write" /\ stage' = [stage EXCEPT ![e] = "read"]
      /\ wire' = Append(wire, g)
      /\ hand' = [hand EXCEPT ![e] = NoUnit]
      /\ UNCHANGED <<count, apc, sendPipe>>
  BY DEF SendTo, appVars
<1>2. /\ wire \in Seq(Datagram)
      /\ stage \in [Protos -> {"read", "got", "write", "unlock"}]
      /\ hand \in [Protos -> Unit \cup {NoUnit}]
      /\ e \in Protos /\ Len(wire) \in Nat
  BY AppsAreProtos DEF OwnInv, TypeInv, TypeOK
<1>3. g.mp = hand[e].mp
  OBVIOUS
<1> HIDE DEF e, g
<1> SUFFICES ASSUME NEW m \in Msgs
             PROVE  (Apart(m) /\ (m[2] <= count[m[1]] <=> Somewhere(m)))'
  BY DEF Owned
<1>4. \A k \in Nat : OnWire(k, m)' <=> \/ OnWire(k, m)
                                       \/ k = Len(wire) + 1 /\ InHand(e, m)
  BY <1>1, <1>2, <1>3 DEF OnWire, InHand
<1>5. \A q \in Protos : InHand(q, m)' <=> (q # e /\ InHand(q, m))
  BY <1>1, <1>2 DEF InHand
<1>6. /\ \A a \in Apps : AtApp(a, m)' <=> AtApp(a, m)
      /\ \A q \in Protos : \A k \in Nat : InPipe(q, k, m)' <=> InPipe(q, k, m)
  BY <1>1 DEF AtApp, InPipe
<1>7. Apart(m) /\ (m[2] <= count[m[1]] <=> Somewhere(m))
  BY DEF OwnInv, Owned
<1>8. Apart(m)'
  BY <1>2, <1>4, <1>5, <1>6, <1>7 DEF Apart
<1>9. Somewhere(m)' <=> Somewhere(m)
  BY <1>2, <1>4, <1>5, <1>6 DEF Somewhere
<1> QED  BY <1>1, <1>7, <1>8, <1>9

\* A step that leaves every message where it is: AddHdr, Unlock, the end of
\* the process and the overwriting of remaddr.
LEMMA StillOwned ==
  ASSUME OwnInv, UNCHANGED <<count, apc, sendPipe, wire>>,
         \A p \in Protos : \A m \in Msgs : InHand(p, m)' <=> InHand(p, m)
  PROVE  Owned'
<1> SUFFICES ASSUME NEW m \in Msgs
             PROVE  (Apart(m) /\ (m[2] <= count[m[1]] <=> Somewhere(m)))'
  BY DEF Owned
<1>1. /\ \A a \in Apps : AtApp(a, m)' <=> AtApp(a, m)
      /\ \A q \in Protos : \A k \in Nat : InPipe(q, k, m)' <=> InPipe(q, k, m)
      /\ \A q \in Protos : InHand(q, m)' <=> InHand(q, m)
      /\ \A k \in Nat : OnWire(k, m)' <=> OnWire(k, m)
  BY DEF AtApp, InPipe, OnWire
<1>2. Apart(m) /\ (m[2] <= count[m[1]] <=> Somewhere(m))
  BY DEF OwnInv, Owned
<1>3. Apart(m)'
  BY <1>1, <1>2 DEF Apart
<1>4. Somewhere(m)' <=> Somewhere(m)
  BY <1>1 DEF Somewhere
<1>5. count' = count
  OBVIOUS
<1> QED  BY <1>2, <1>3, <1>4, <1>5
\* OwnInv is inductive: one step per action.
LEMMA NextOwned == OwnInv /\ [Next]_vars => OwnInv'
<1> SUFFICES ASSUME OwnInv, [Next]_vars PROVE Owned'
  BY NextTypeInv DEF OwnInv
<1>1. CASE UNCHANGED vars
  BY <1>1, StillOwned DEF vars, InHand
<1>2. CASE StepKinds
  <2>1. ASSUME NEW a \in Apps, BuildMessage(a) PROVE Owned'
    BY <2>1, BuildMoves
  <2>2. ASSUME NEW a \in Apps, WriteMessage(a) PROVE Owned'
    BY <2>2, WriteMoves
  <2>3. ASSUME NEW p \in Protos, ReadUnit(p) PROVE Owned'
    BY <2>3, ReadMoves
  <2>4. ASSUME NEW p \in Protos, AddHdr(p) PROVE Owned'
    <3>1. /\ stage[p] = "got" /\ stage' = [stage EXCEPT ![p] = "write"]
          /\ hand' = [hand EXCEPT ![p] = [proto_id |-> p, mp |-> hand[p].mp]]
          /\ UNCHANGED <<count, apc, sendPipe, wire>>
      BY <2>4 DEF AddHdr, appVars, netVars
    <3>2. stage \in [Protos -> {"read", "got", "write", "unlock"}]
          /\ hand \in [Protos -> Unit \cup {NoUnit}]
      BY DEF OwnInv, TypeInv, TypeOK
    <3>3. \A q \in Protos : \A m \in Msgs : InHand(q, m)' <=> InHand(q, m)
      BY <3>1, <3>2 DEF InHand
    <3> QED  BY <3>1, <3>3, StillOwned
  <2>5. ASSUME NEW p \in Protos, WriteUnit(p) PROVE Owned'
    BY <2>5, WriteUnitMoves
  <2>6. ASSUME NEW p \in Protos, Unlock(p) PROVE Owned'
    <3>1. /\ stage[p] = "unlock" /\ stage' = [stage EXCEPT ![p] = "read"]
          /\ UNCHANGED <<count, apc, sendPipe, hand, wire>>
      BY <2>6 DEF Unlock, appVars, netVars
    <3>2. stage \in [Protos -> {"read", "got", "write", "unlock"}]
      BY DEF OwnInv, TypeInv, TypeOK
    <3>3. \A q \in Protos : \A m \in Msgs : InHand(q, m)' <=> InHand(q, m)
      BY <3>1, <3>2 DEF InHand
    <3> QED  BY <3>1, <3>3, StillOwned
  <2>7. CASE SendTo
    BY <2>7, SendToMoves
  <2>8. CASE SendToFails \/ OverwriteRemaddr \/ MainReturns
    <3>1. UNCHANGED <<count, apc, sendPipe, wire, stage, hand>>
      BY <2>8 DEF SendToFails, OverwriteRemaddr, MainReturns, appVars, netVars
    <3> QED  BY <3>1, StillOwned DEF InHand
  <2> QED  BY <1>2, <2>1, <2>2, <2>3, <2>4, <2>5, <2>6, <2>7, <2>8 DEF StepKinds
<1> QED  BY <1>1, <1>2, StepCases DEF Next, Ended

\* The set of places of a message, in terms of the four predicates.
LEMMA PlacesAre ==
  ASSUME TypeInv, NEW m \in Msgs, NEW x
  PROVE  x \in Places(m) <=>
           \/ \E a \in Apps : x = <<"app", a, 0>> /\ AtApp(a, m)
           \/ \E p \in Protos : x = <<"hand", p, 0>> /\ InHand(p, m)
           \/ \E p \in Protos : \E k \in Nat : x = <<"pipe", p, k>> /\ InPipe(p, k, m)
           \/ \E k \in Nat : x = <<"wire", 0, k>> /\ OnWire(k, m)
<1>1. \A p \in Protos : DOMAIN sendPipe[p] \subseteq Nat
  BY DEF TypeInv, TypeOK
<1>2. DOMAIN wire \subseteq Nat
  BY DEF TypeInv, TypeOK
<1> DEFINE A == {<<"app", a, 0>>  : a \in {a \in Apps : AtApp(a, m)}}
           B == {<<"hand", p, 0>> : p \in {p \in Protos : InHand(p, m)}}
           C(p) == {<<"pipe", p, k>> : k \in {k \in DOMAIN sendPipe[p] : InPipe(p, k, m)}}
           U == UNION {C(p) : p \in Protos}
           D == {<<"wire", 0, k>> : k \in {k \in DOMAIN wire : OnWire(k, m)}}
<1>3. Places(m) = A \cup B \cup U \cup D
  BY DEF Places
<1>4. x \in A <=> \E a \in Apps : x = <<"app", a, 0>> /\ AtApp(a, m)
  OBVIOUS
<1>5. x \in B <=> \E p \in Protos : x = <<"hand", p, 0>> /\ InHand(p, m)
  OBVIOUS
<1>6. x \in U <=>
        \E p \in Protos : \E k \in Nat : x = <<"pipe", p, k>> /\ InPipe(p, k, m)
  <2>1. \A p \in Protos : x \in C(p) <=>
          \E k \in Nat : x = <<"pipe", p, k>> /\ InPipe(p, k, m)
    BY <1>1 DEF InPipe
  <2> HIDE DEF C
  <2> QED  BY <2>1
<1>7. x \in D <=> \E k \in Nat : x = <<"wire", 0, k>> /\ OnWire(k, m)
  BY <1>2 DEF OnWire
<1> HIDE DEF A, B, U, D
<1> QED  BY <1>3, <1>4, <1>5, <1>6, <1>7

\* A message that is somewhere, and in no two of the four kinds of place, is
\* in exactly one place.
LEMMA OwnedIsOneOwner == OwnInv => OneOwner
<1> SUFFICES ASSUME OwnInv, NEW m \in Msgs
             PROVE  IF m[2] <= count[m[1]] THEN \E x \in Places(m) : Places(m) = {x}
                                           ELSE Places(m) = {}
  BY DEF OneOwner
<1> USE DEF OwnInv
<1>1. Apart(m) /\ (m[2] <= count[m[1]] <=> Somewhere(m))
  BY DEF Owned
<1>2. \A a, b \in Apps : AtApp(a, m) /\ AtApp(b, m) => a = b
  BY DEF AtApp
<1>3. ASSUME NEW x \in Places(m), NEW y \in Places(m) PROVE x = y
  <2> DEFINE App(z)  == \E a \in Apps : z = <<"app", a, 0>> /\ AtApp(a, m)
             Hand(z) == \E p \in Protos : z = <<"hand", p, 0>> /\ InHand(p, m)
             Pipe(z) == \E p \in Protos : \E k \in Nat : z = <<"pipe", p, k>> /\ InPipe(p, k, m)
             Wire(z) == \E k \in Nat : z = <<"wire", 0, k>> /\ OnWire(k, m)
  <2>1. App(x) \/ Hand(x) \/ Pipe(x) \/ Wire(x)
    BY PlacesAre
  <2>2. App(y) \/ Hand(y) \/ Pipe(y) \/ Wire(y)
    BY PlacesAre
  <2>3. CASE App(x)
    BY <1>1, <1>2, <2>2, <2>3 DEF Apart
  <2>4. CASE Hand(x)
    BY <1>1, <2>2, <2>4 DEF Apart
  <2>5. CASE Pipe(x)
    BY <1>1, <2>2, <2>5 DEF Apart
  <2>6. CASE Wire(x)
    BY <1>1, <2>2, <2>6 DEF Apart
  <2> QED  BY <2>1, <2>3, <2>4, <2>5, <2>6
<1>4. Somewhere(m) <=> \E x : x \in Places(m)
  BY PlacesAre DEF Somewhere
<1>5. CASE Somewhere(m)
  <2>1. PICK x : x \in Places(m)
    BY <1>4, <1>5
  <2>2. Places(m) = {x}
    BY <1>3, <2>1
  <2> QED  BY <1>1, <1>5, <2>1, <2>2
<1>6. CASE ~ Somewhere(m)
  BY <1>1, <1>4, <1>6
<1> QED  BY <1>5, <1>6

\* No step of any thread duplicates, loses or shares a message: every counted
\* message is in exactly one place, whatever the interleaving, the number of
\* applications and messages and the capacity of the pipes.
THEOREM MessagesHaveOneOwner == Spec => []OneOwner
BY InitOwned, NextOwned, OwnedIsOneOwner, PTL DEF Spec
-----------------------------------------------------------------------------
(* Deadlock.  When a thread is not kept waiting, by an empty pipe, a full   *)
(* one or a mutex: the guards of its actions.                              *)
AppCanRun(a) == \/ apc[a] = "build" /\ count[a] < N
                \/ apc[a] = "write" /\ Len(sendPipe[a]) < PipeCap

CanRun(p) == \/ stage[p] = "read" /\ sendPipe[p] # << >>
             \/ stage[p] = "got" /\ (p \in Locking => lock[Mutex(p)] = Free)
             \/ stage[p] = "write" /\ (p # Ethernet => Len(sendPipe[Below(p)]) < PipeCap)
             \/ stage[p] = "unlock"

AllWaiting == /\ \A a \in Apps : ~ AppCanRun(a)
              /\ \A p \in Protos : ~ CanRun(p)

AllSent == \A m \in Msgs : \E k \in DOMAIN wire : OnWire(k, m)

\* A layer above one that has an empty pipe can only wait for a unit: what it
\* would write has room, and nobody who shares its mutex holds it.
LEMMA WaitsToRead ==
  ASSUME LockInv, AllWaiting, NEW p \in Protos,
         \A q \in Protos : Mutex(q) = Mutex(p) /\ p \in Locking /\ q \in Locking =>
            sendPipe[Below(q)] = << >>,
         p # Ethernet => sendPipe[Below(p)] = << >>
  PROVE  stage[p] = "read" /\ sendPipe[p] = << >>
<1> USE PipeCapAssumption DEF LockInv, TypeInv, TypeOK
<1>1. ~ CanRun(p) /\ stage[p] \in {"read", "got", "write", "unlock"}
  BY DEF AllWaiting
<1>2. Len(<< >>) = 0
  OBVIOUS
<1>3. stage[p] \notin {"write", "unlock"}
  BY <1>1, <1>2 DEF CanRun
<1>4. ASSUME stage[p] = "got" PROVE FALSE
  <2>1. p \in Locking /\ lock[Mutex(p)] # Free
    BY <1>1, <1>4 DEF CanRun
  <2>2. PICK q \in Protos : lock[Mutex(p)] = q
    BY <2>1, LayerTypes
  <2>3. q \in Locking /\ Mutex(q) = Mutex(p) /\ stage[q] \in {"write", "unlock"}
    BY <2>2, LayerTypes DEF LockDiscipline
  <2>4. sendPipe[Below(q)] = << >> /\ ~ CanRun(q)
    BY <2>1, <2>3 DEF AllWaiting
  <2> QED  BY <1>2, <2>3, <2>4 DEF CanRun
<1> QED  BY <1>1, <1>3, <1>4 DEF CanRun

\* The threads never all wait for each other: whatever the capacity of the
\* pipes, writing to a full one with a mutex held only delays, and while the
\* process runs some thread can go on until everything is sent.
THEOREM NeverAllWaiting == Spec => [](AllWaiting => AllSent)
<1> DEFINE IInv == LockInv /\ OwnInv
<1>1. IInv => (AllWaiting => AllSent)
  <2> SUFFICES ASSUME IInv, AllWaiting PROVE AllSent
    OBVIOUS
  <2> USE DEF Protos, Below, Transport, Mutex, Locking, AppProtos,
              Ethernet, IP, TCP, UDP, FTP, Telnet, RDP, DNSC
  <2>1. stage[1] = "read" /\ sendPipe[1] = << >>
    BY WaitsToRead
  <2>2. stage[2] = "read" /\ sendPipe[2] = << >>
    BY <2>1, WaitsToRead
  <2>3. \A p \in {3, 4} : stage[p] = "read" /\ sendPipe[p] = << >>
    BY <2>2, WaitsToRead
  <2>4. \A p \in 5..8 : stage[p] = "read" /\ sendPipe[p] = << >>
    BY <2>3, WaitsToRead
  <2>5. \A p \in Protos : stage[p] = "read" /\ sendPipe[p] = << >>
    BY <2>1, <2>2, <2>3, <2>4
  <2>6. \A a \in Apps : apc[a] = "build" /\ count[a] = N
    <3> SUFFICES ASSUME NEW a \in Apps PROVE apc[a] = "build" /\ count[a] = N
      OBVIOUS
    <3>1. sendPipe[a] = << >> /\ ~ AppCanRun(a)
      BY <2>5, AppsAreProtos DEF AllWaiting
    <3>2. apc[a] \in {"build", "write"} /\ count[a] \in 0..N
      BY DEF OwnInv, TypeInv, TypeOK
    <3> QED  BY <3>1, <3>2, NAssumption, PipeCapAssumption DEF AppCanRun
  <2>7. ASSUME NEW m \in Msgs PROVE \E k \in DOMAIN wire : OnWire(k, m)
    <3>1. Somewhere(m)
      BY <2>6, NAssumption DEF OwnInv, Owned, Msgs
    <3>2. \A a \in Apps : ~ AtApp(a, m)
      BY <2>6 DEF AtApp
    <3>3. \A p \in Protos : ~ InHand(p, m) /\ \A k \in Nat : ~ InPipe(p, k, m)
      BY <2>5 DEF InHand, InPipe
    <3> QED  BY <3>1, <3>2, <3>3 DEF Somewhere, OnWire
  <2> QED  BY <2>7 DEF AllSent
<1> QED  BY <1>1, InitLockInv, NextLockInv, InitOwned, NextOwned, PTL DEF Spec
-----------------------------------------------------------------------------
(* Framing.  How a Message looks before and after each layer's header, and *)
(* the applications whose messages a layer carries.                        *)
Carried(p) == IF p \in AppProtos THEN {p} \cap Apps
              ELSE IF p \in {TCP, UDP} THEN {a \in Apps : Below(a) = p} ELSE Apps

\* The id in the units layer p reads, for a message of application a.
Above(p, a) == IF p \in AppProtos \cup {TCP, UDP} THEN a ELSE IF p = IP THEN Below(a) ELSE IP

LenT(a) == DataLen + SizeOf(a)
LenI(a) == LenT(a) + SizeOf(Below(a))
LenE(a) == LenI(a) + SizeOf(IP)

Built(p, a) ==
  IF p \in AppProtos THEN [len |-> DataLen, hdrs |-> << >>]
  ELSE IF p \in {TCP, UDP} THEN [len |-> LenT(a), hdrs |-> <<H(a, a, DataLen)>>]
  ELSE IF p = IP THEN [len |-> LenI(a), hdrs |-> <<H(Below(a), a, LenT(a)), H(a, a, DataLen)>>]
  ELSE [len |-> LenE(a), hdrs |-> <<H(IP, Below(a), LenI(a)), H(Below(a), a, LenT(a)), H(a, a, DataLen)>>]

Done(p, a) == IF p = Ethernet THEN [len |-> LenE(a) + SizeOf(Ethernet), hdrs |-> FrameOf(a)]
                              ELSE Built(Below(p), a)

\* The kinds of layer, and what lies below each.
LEMMA LayerFacts ==
  /\ AppProtos \subseteq Protos /\ Apps \subseteq AppProtos /\ {TCP, UDP, IP, Ethernet} \subseteq Protos
  /\ \A p \in Protos : p \in AppProtos \/ p \in {TCP, UDP} \/ p = IP \/ p = Ethernet
  /\ AppProtos \cap {TCP, UDP, IP, Ethernet} = {} /\ {TCP, UDP} \cap {IP, Ethernet} = {} /\ IP # Ethernet
  /\ \A a \in AppProtos : Below(a) \in {TCP, UDP}
  /\ Below(TCP) = IP /\ Below(UDP) = IP /\ Below(IP) = Ethernet
  BY AppsAssumption DEF AppProtos, Protos, Below, Transport, Ethernet, IP, TCP, UDP, FTP, Telnet, RDP, DNSC

\* A header in front of one, two or three others, or of none.
LEMMA PrependOne == ASSUME NEW h, NEW i PROVE <<h>> \o <<i>> = <<h, i>>
<1> DEFINE S == {h, i}
           c == <<h>> \o <<i>>
<1>1. <<h>> \in Seq(S) /\ <<i>> \in Seq(S) /\ <<h, i>> \in Seq(S)
  OBVIOUS
<1>2. Len(<<h>>) = 1 /\ Len(<<i>>) = 1 /\ Len(<<h, i>>) = 2
  OBVIOUS
<1>3. c \in Seq(S) /\ Len(c) = 2
  BY <1>1, <1>2
<1>4. c[1] = h /\ c[2] = i
  BY <1>1, <1>2
<1> HIDE DEF c, S
<1>5. \A n \in 1..2 : c[n] = <<h, i>>[n]
  BY <1>4
<1>6. c = <<h, i>>
  BY <1>1, <1>2, <1>3, <1>5, SeqEqual
<1> QED  BY <1>6 DEF c

\* A header before two others.
LEMMA PrependTwo == ASSUME NEW h, NEW i, NEW j PROVE <<h>> \o <<i, j>> = <<h, i, j>>
<1> DEFINE S == {h, i, j}
           c == <<h>> \o <<i, j>>
<1>1. <<h>> \in Seq(S) /\ <<i, j>> \in Seq(S) /\ <<h, i, j>> \in Seq(S)
  OBVIOUS
<1>2. Len(<<h>>) = 1 /\ Len(<<i, j>>) = 2 /\ Len(<<h, i, j>>) = 3
  OBVIOUS
<1>3. c \in Seq(S) /\ Len(c) = 3
  BY <1>1, <1>2
<1>4. c[1] = h /\ c[2] = i /\ c[3] = j
  BY <1>1, <1>2
<1> HIDE DEF c, S
<1>5. \A n \in 1..3 : c[n] = <<h, i, j>>[n]
  BY <1>4
<1>6. c = <<h, i, j>>
  BY <1>1, <1>2, <1>3, <1>5, SeqEqual
<1> QED  BY <1>6 DEF c

\* A header before three others.
LEMMA PrependThree == ASSUME NEW h, NEW i, NEW j, NEW k PROVE <<h>> \o <<i, j, k>> = <<h, i, j, k>>
<1> DEFINE S == {h, i, j, k}
           c == <<h>> \o <<i, j, k>>
<1>1. <<h>> \in Seq(S) /\ <<i, j, k>> \in Seq(S) /\ <<h, i, j, k>> \in Seq(S)
  OBVIOUS
<1>2. Len(<<h>>) = 1 /\ Len(<<i, j, k>>) = 3 /\ Len(<<h, i, j, k>>) = 4
  OBVIOUS
<1>3. c \in Seq(S) /\ Len(c) = 4
  BY <1>1, <1>2
<1>4. c[1] = h /\ c[2] = i /\ c[3] = j /\ c[4] = k
  BY <1>1, <1>2
<1> HIDE DEF c, S
<1>5. \A n \in 1..4 : c[n] = <<h, i, j, k>>[n]
  BY <1>4
<1>6. c = <<h, i, j, k>>
  BY <1>1, <1>2, <1>3, <1>5, SeqEqual
<1> QED  BY <1>6 DEF c

\* A frame has at most four headers: what AddHdr builds, written out.
LEMMA Prepend == /\ \A h : <<h>> \o << >> = <<h>>
                 /\ \A h, i : <<h>> \o <<i>> = <<h, i>>
                 /\ \A h, i, j : <<h>> \o <<i, j>> = <<h, i, j>>
                 /\ \A h, i, j, k : <<h>> \o <<i, j, k>> = <<h, i, j, k>>
<1>1. ASSUME NEW h PROVE <<h>> \o << >> = <<h>>
  <2>1. <<h>> \in Seq({h})
    OBVIOUS
  <2> QED  BY <2>1, ConcatEmptySeq
<1> QED  BY <1>1, PrependOne, PrependTwo, PrependThree

\* What layer p does to a Message it carries, and to whom it gives it.
LEMMA LayerDone ==
  ASSUME NEW p \in Protos, NEW a \in Carried(p)
  PROVE  /\ a \in Apps
         /\ Done(p, a) = [len  |-> Built(p, a).len + SizeOf(p),
                          hdrs |-> <<H(p, IF p = Ethernet THEN 1 ELSE Above(p, a), Built(p, a).len)>>
                                   \o Built(p, a).hdrs]
         /\ p # Ethernet => /\ a \in Carried(Below(p)) /\ Above(Below(p), a) = p
                            /\ Done(p, a) = Built(Below(p), a)
<1>1. CASE p \in AppProtos
  <2>1. p = a /\ a \in Apps /\ Below(p) \in {TCP, UDP} /\ p # Ethernet
    BY <1>1, LayerFacts DEF Carried
  <2>2. Built(p, a) = [len |-> DataLen, hdrs |-> << >>] /\ Above(p, a) = a
    BY <1>1 DEF Built, Above
  <2>3. Done(p, a) = [len |-> LenT(a), hdrs |-> <<H(a, a, DataLen)>>] /\ Done(p, a) = Built(Below(p), a)
    BY <2>1, LayerFacts DEF Done, Built
  <2>4. a \in Carried(Below(p)) /\ Above(Below(p), a) = p
    BY <2>1, LayerFacts DEF Carried, Above
  <2> QED  BY <2>1, <2>2, <2>3, <2>4, Prepend DEF LenT
<1>2. CASE p \in {TCP, UDP}
  <2>1. a \in Apps /\ Below(a) = p /\ Below(p) = IP /\ p \notin AppProtos /\ p # Ethernet
    BY <1>2, LayerFacts DEF Carried
  <2>2. Built(p, a) = [len |-> LenT(a), hdrs |-> <<H(a, a, DataLen)>>] /\ Above(p, a) = a
    BY <1>2, <2>1 DEF Built, Above
  <2>3. /\ Done(p, a) = [len |-> LenI(a), hdrs |-> <<H(p, a, LenT(a)), H(a, a, DataLen)>>]
        /\ Done(p, a) = Built(Below(p), a)
    BY <2>1, LayerFacts DEF Done, Built
  <2>4. a \in Carried(Below(p)) /\ Above(Below(p), a) = p
    BY <2>1, LayerFacts DEF Carried, Above
  <2> QED  BY <2>1, <2>2, <2>3, <2>4, Prepend DEF LenI
<1>3. CASE p = IP
  <2>1. a \in Apps /\ Below(p) = Ethernet /\ p \notin AppProtos \cup {TCP, UDP, Ethernet}
    BY <1>3, LayerFacts DEF Carried
  <2>2. /\ Built(p, a) = [len |-> LenI(a), hdrs |-> <<H(Below(a), a, LenT(a)), H(a, a, DataLen)>>]
        /\ Above(p, a) = Below(a)
    BY <1>3, <2>1 DEF Built, Above
  <2>3. /\ Done(p, a) = [len |-> LenE(a), hdrs |-> <<H(IP, Below(a), LenI(a)), H(Below(a), a, LenT(a)), H(a, a, DataLen)>>]
        /\ Done(p, a) = Built(Below(p), a)
    BY <2>1, LayerFacts DEF Done, Built
  <2>4. a \in Carried(Below(p)) /\ Above(Below(p), a) = p
    BY <1>3, <2>1, LayerFacts DEF Carried, Above
  <2> QED  BY <1>3, <2>1, <2>2, <2>3, <2>4, Prepend DEF LenE
<1>4. CASE p = Ethernet
  <2>1. a \in Apps /\ p \notin AppProtos \cup {TCP, UDP, IP}
    BY <1>4, LayerFacts DEF Carried
  <2>2. Built(p, a) = [len |-> LenE(a), hdrs |-> <<H(IP, Below(a), LenI(a)), H(Below(a), a, LenT(a)), H(a, a, DataLen)>>]
    BY <1>4, <2>1 DEF Built
  <2>3. FrameOf(a) = <<H(Ethernet, 1, LenE(a)), H(IP, Below(a), LenI(a)), H(Below(a), a, LenT(a)), H(a, a, DataLen)>>
    BY DEF FrameOf, LenT, LenI, LenE
  <2>4. Done(p, a) = [len |-> LenE(a) + SizeOf(Ethernet), hdrs |-> FrameOf(a)]
    BY <1>4 DEF Done
  <2> QED  BY <1>4, <2>1, <2>2, <2>3, <2>4, Prepend
<1> QED  BY <1>1, <1>2, <1>3, <1>4, LayerFacts

\* A unit that layer p reads names a Message it carries, framed so far.
UnitAt(p, u) == /\ u.mp[1] \in Carried(p)
                /\ u.proto_id = Above(p, u.mp[1])
                /\ msg[u.mp] = Built(p, u.mp[1])

\* A unit that layer p writes.
UnitDone(p, u) == /\ u.mp[1] \in Carried(p)
                  /\ u.proto_id = p
                  /\ msg[u.mp] = Done(p, u.mp[1])

FrameInv ==
  /\ \A a \in Apps : apc[a] = "write" => msg[<<a, count[a]>>] = Built(a, a)
  /\ \A p \in Protos : \A k \in DOMAIN sendPipe[p] : UnitAt(p, sendPipe[p][k])
  /\ \A p \in Protos :
       /\ stage[p] = "got" => UnitAt(p, hand[p])
       /\ stage[p] = "write" => UnitDone(p, hand[p])
  /\ \A k \in DOMAIN wire :
       /\ wire[k].frame = FrameOf(wire[k].mp[1])
       /\ msg[wire[k].mp] = Done(Ethernet, wire[k].mp[1])

SendInv == OwnInv /\ FrameInv

\* Building a Message touches none that is anywhere.
LEMMA BuildFrames ==
  ASSUME SendInv, NEW a \in Apps, BuildMessage(a)
  PROVE  FrameInv'
<1> DEFINE new == <<a, count[a] + 1>>
<1>1. /\ apc[a] = "build" /\ apc' = [apc EXCEPT ![a] = "write"]
      /\ count[a] < N /\ count' = [count EXCEPT ![a] = count[a] + 1]
      /\ msg' = [msg EXCEPT ![new] = [len |-> DataLen, hdrs |-> << >>]]
      /\ UNCHANGED <<sendPipe, stage, hand, wire>>
  BY DEF BuildMessage, netVars
<1>2. /\ count \in [Apps -> 0..N] /\ apc \in [Apps -> {"build", "write"}]
      /\ msg \in [Msgs -> [len : Nat, hdrs : Seq(Header)]]
      /\ sendPipe \in [Protos -> Seq(Unit)] /\ wire \in Seq(Datagram)
  BY DEF SendInv, OwnInv, TypeInv, TypeOK
<1>3. new \in Msgs /\ ~ Somewhere(new)
  <2>1. new \in Msgs /\ ~ (count[a] + 1 <= count[a])
    BY <1>1, <1>2, NAssumption DEF Msgs
  <2> QED  BY <2>1 DEF SendInv, OwnInv, Owned
<1>4. msg'[new] = Built(a, a) /\ \A m \in Msgs : m # new => msg'[m] = msg[m]
  BY <1>1, <1>2, <1>3, LayerFacts DEF Built
<1> HIDE DEF new
<1>5. /\ \A p \in Protos : \A k \in DOMAIN sendPipe[p] :
           sendPipe[p][k].mp \in Msgs /\ sendPipe[p][k].mp # new
      /\ \A p \in Protos : stage[p] \in {"got", "write"} => hand[p].mp \in Msgs /\ hand[p].mp # new
      /\ \A k \in DOMAIN wire : wire[k].mp \in Msgs /\ wire[k].mp # new
  <2>1. ASSUME NEW p \in Protos, NEW k \in DOMAIN sendPipe[p]
        PROVE  sendPipe[p][k].mp \in Msgs /\ sendPipe[p][k].mp # new
    <3>1. sendPipe[p][k] \in Unit /\ k \in Nat /\ InPipe(p, k, sendPipe[p][k].mp)
      BY <1>2, <2>1 DEF InPipe
    <3> QED  BY <1>3, <3>1 DEF Somewhere, Unit
  <2>2. ASSUME NEW p \in Protos, stage[p] \in {"got", "write"} PROVE hand[p].mp \in Msgs /\ hand[p].mp # new
    <3>1. hand[p] \in Unit /\ InHand(p, hand[p].mp)
      BY <2>2 DEF InHand, SendInv, OwnInv, TypeInv, HandOK
    <3> QED  BY <1>3, <3>1 DEF Somewhere, Unit
  <2>3. ASSUME NEW k \in DOMAIN wire PROVE wire[k].mp \in Msgs /\ wire[k].mp # new
    <3>1. wire[k] \in Datagram /\ k \in Nat /\ OnWire(k, wire[k].mp)
      BY <1>2, <2>3 DEF OnWire
    <3> QED  BY <1>3, <3>1 DEF Somewhere, Datagram
  <2> QED  BY <2>1, <2>2, <2>3
<1>6. \A b \in Apps : apc'[b] = "write" => msg'[<<b, count'[b]>>] = Built(b, b)
  <2>1. ASSUME NEW b \in Apps, b # a, apc[b] = "write" PROVE msg'[<<b, count[b]>>] = Built(b, b)
    <3>1. <<b, count[b]>> # new
      BY <2>1 DEF new
    <3>2. <<b, count[b]>> \in Msgs
      BY <1>2, <2>1 DEF Msgs, SendInv, OwnInv, TypeInv, BuiltOK
    <3>3. msg[<<b, count[b]>>] = Built(b, b)
      BY <2>1 DEF SendInv, FrameInv
    <3> QED  BY <1>4, <3>1, <3>2, <3>3
  <2>2. <<a, count'[a]>> = new
    BY <1>1, <1>2 DEF new
  <2> QED  BY <1>1, <1>2, <1>4, <2>1, <2>2
<1>7. ASSUME NEW p \in Protos, NEW k \in DOMAIN sendPipe[p] PROVE UnitAt(p, sendPipe[p][k])'
  <2>1. UnitAt(p, sendPipe[p][k])
    BY DEF SendInv, FrameInv
  <2> QED  BY <1>1, <1>4, <1>5, <2>1 DEF UnitAt
<1>8. ASSUME NEW p \in Protos
      PROVE  /\ stage[p] = "got" => UnitAt(p, hand[p])'
             /\ stage[p] = "write" => UnitDone(p, hand[p])'
  <2>1. /\ stage[p] = "got" => UnitAt(p, hand[p])
        /\ stage[p] = "write" => UnitDone(p, hand[p])
    BY DEF SendInv, FrameInv
  <2> QED  BY <1>1, <1>4, <1>5, <2>1 DEF UnitAt, UnitDone
<1>9. \A k \in DOMAIN wire :
        /\ wire[k].frame = FrameOf(wire[k].mp[1])
        /\ msg'[wire[k].mp] = Done(Ethernet, wire[k].mp[1])
  BY <1>4, <1>5 DEF SendInv, FrameInv
<1> QED  BY <1>1, <1>6, <1>7, <1>8, <1>9 DEF FrameInv

\* Adding a header touches the Message in the thread's hands alone.
LEMMA AddHdrFrames ==
  ASSUME SendInv, NEW p \in Protos, AddHdr(p)
  PROVE  FrameInv'
<1> DEFINE m == hand[p].mp
           h == [layer |-> p, hlp |-> Hlp(p), msglen |-> msg[m].len]
<1>1. /\ stage[p] = "got" /\ stage' = [stage EXCEPT ![p] = "write"]
      /\ hand' = [hand EXCEPT ![p] = [proto_id |-> p, mp |-> m]]
      /\ msg' = [msg EXCEPT ![m] = [len |-> msg[m].len + SizeOf(p), hdrs |-> <<h>> \o msg[m].hdrs]]
      /\ UNCHANGED <<count, apc, sendPipe, wire>>
  BY DEF AddHdr, appVars, netVars
<1>2. /\ count \in [Apps -> 0..N] /\ msg \in [Msgs -> [len : Nat, hdrs : Seq(Header)]]
      /\ stage \in [Protos -> {"read", "got", "write", "unlock"}]
      /\ hand \in [Protos -> Unit \cup {NoUnit}]
      /\ sendPipe \in [Protos -> Seq(Unit)] /\ wire \in Seq(Datagram)
  BY DEF SendInv, OwnInv, TypeInv, TypeOK
<1>3. m \in Msgs /\ InHand(p, m) /\ UnitAt(p, hand[p])
  BY <1>1 DEF SendInv, OwnInv, TypeInv, HandOK, InHand, Unit, FrameInv
<1>4. Apart(m)
  BY <1>3 DEF SendInv, OwnInv, Owned
<1>5. msg'[m] = Done(p, m[1]) /\ \A n \in Msgs : n # m => msg'[n] = msg[n]
  <2>1. h = H(p, IF p = Ethernet THEN 1 ELSE Above(p, m[1]), Built(p, m[1]).len) /\ msg[m] = Built(p, m[1])
    BY <1>3 DEF UnitAt, Hlp, H
  <2>2. m[1] \in Carried(p)
    BY <1>3 DEF UnitAt
  <2>3. Done(p, m[1]) = [len |-> msg[m].len + SizeOf(p), hdrs |-> <<h>> \o msg[m].hdrs]
    BY <2>1, <2>2, LayerDone
  <2> QED  BY <1>1, <1>2, <1>3, <2>3
<1> HIDE DEF m, h
<1>6. /\ \A q \in Protos : \A k \in DOMAIN sendPipe[q] :
           sendPipe[q][k].mp \in Msgs /\ sendPipe[q][k].mp # m
      /\ \A q \in Protos \ {p} : stage[q] \in {"got", "write"} => hand[q].mp \in Msgs /\ hand[q].mp # m
      /\ \A k \in DOMAIN wire : wire[k].mp \in Msgs /\ wire[k].mp # m
  <2>1. ASSUME NEW q \in Protos, NEW k \in DOMAIN sendPipe[q]
        PROVE  sendPipe[q][k].mp \in Msgs /\ sendPipe[q][k].mp # m
    <3>1. sendPipe[q][k] \in Unit /\ k \in Nat /\ InPipe(q, k, sendPipe[q][k].mp)
      BY <1>2, <2>1 DEF InPipe
    <3> QED  BY <1>3, <1>4, <3>1 DEF Apart, Unit
  <2>2. ASSUME NEW q \in Protos \ {p}, stage[q] \in {"got", "write"} PROVE hand[q].mp \in Msgs /\ hand[q].mp # m
    <3>1. hand[q] \in Unit /\ InHand(q, hand[q].mp)
      BY <2>2 DEF InHand, SendInv, OwnInv, TypeInv, HandOK
    <3> QED  BY <1>3, <1>4, <3>1 DEF Apart, Unit
  <2>3. ASSUME NEW k \in DOMAIN wire PROVE wire[k].mp \in Msgs /\ wire[k].mp # m
    <3>1. wire[k] \in Datagram /\ k \in Nat /\ OnWire(k, wire[k].mp)
      BY <1>2, <2>3 DEF OnWire
    <3> QED  BY <1>3, <1>4, <3>1 DEF Apart, Datagram
  <2> QED  BY <2>1, <2>2, <2>3
<1>7. \A b \in Apps : apc'[b] = "write" => msg'[<<b, count'[b]>>] = Built(b, b)
  <2>1. ASSUME NEW b \in Apps, apc[b] = "write" PROVE msg'[<<b, count[b]>>] = Built(b, b)
    <3>1. AtApp(b, <<b, count[b]>>)
      BY <2>1 DEF AtApp
    <3>2. <<b, count[b]>> # m
      BY <1>3, <1>4, <3>1 DEF Apart
    <3>3. <<b, count[b]>> \in Msgs
      BY <1>2, <2>1 DEF Msgs, SendInv, OwnInv, TypeInv, BuiltOK
    <3>4. msg[<<b, count[b]>>] = Built(b, b)
      BY <2>1 DEF SendInv, FrameInv
    <3> QED  BY <1>5, <3>2, <3>3, <3>4
  <2> QED  BY <1>1, <2>1
<1>8. ASSUME NEW q \in Protos, NEW k \in DOMAIN sendPipe[q] PROVE UnitAt(q, sendPipe[q][k])'
  <2>1. UnitAt(q, sendPipe[q][k])
    BY DEF SendInv, FrameInv
  <2> QED  BY <1>1, <1>5, <1>6, <2>1 DEF UnitAt
<1>9. ASSUME NEW q \in Protos
      PROVE  /\ stage'[q] = "got" => UnitAt(q, hand[q])'
             /\ stage'[q] = "write" => UnitDone(q, hand[q])'
  <2>1. CASE q = p
    <3>1. stage'[p] = "write" /\ hand'[p].proto_id = p /\ hand'[p].mp = m
      BY <1>1, <1>2 DEF m
    <3> QED  BY <1>3, <1>5, <2>1, <3>1 DEF UnitDone, UnitAt, m
  <2>2. CASE q # p
    <3>1. stage'[q] = stage[q] /\ hand'[q] = hand[q]
      BY <1>1, <1>2, <2>2
    <3>2. /\ stage[q] = "got" => UnitAt(q, hand[q])
          /\ stage[q] = "write" => UnitDone(q, hand[q])
      BY DEF SendInv, FrameInv
    <3> QED  BY <1>5, <1>6, <2>2, <3>1, <3>2 DEF UnitAt, UnitDone
  <2> QED  BY <2>1, <2>2
<1>10. \A k \in DOMAIN wire :
         /\ wire[k].frame = FrameOf(wire[k].mp[1])
         /\ msg'[wire[k].mp] = Done(Ethernet, wire[k].mp[1])
  BY <1>5, <1>6 DEF SendInv, FrameInv
<1> QED  BY <1>1, <1>7, <1>8, <1>9, <1>10 DEF FrameInv

\* Writing puts an application's unit, framed not at all, on its pipe.
LEMMA WriteFrames ==
  ASSUME SendInv, NEW a \in Apps, WriteMessage(a)
  PROVE  FrameInv'
<1> DEFINE u == [proto_id |-> a, mp |-> <<a, count[a]>>]
<1>1. /\ apc[a] = "write" /\ apc' = [apc EXCEPT ![a] = "build"]
      /\ sendPipe' = [sendPipe EXCEPT ![a] = Append(sendPipe[a], u)]
      /\ UNCHANGED <<count, stage, hand, wire, msg>>
  BY DEF WriteMessage, netVars, heapVars
<1>2. apc \in [Apps -> {"build", "write"}] /\ sendPipe \in [Protos -> Seq(Unit)] /\ count \in [Apps -> 0..N]
  BY DEF SendInv, OwnInv, TypeInv, TypeOK
<1>3. u \in Unit /\ a \in Protos
  BY <1>1, <1>2, AppsAreProtos, NAssumption DEF Unit, Msgs, SendInv, OwnInv, TypeInv, BuiltOK
<1>4. UnitAt(a, u)
  <2>1. msg[<<a, count[a]>>] = Built(a, a)
    BY <1>1 DEF SendInv, FrameInv
  <2>2. a \in Carried(a) /\ Above(a, a) = a
    BY LayerFacts DEF Carried, Above
  <2> QED  BY <2>1, <2>2 DEF UnitAt
<1> HIDE DEF u
<1>5. ASSUME NEW q \in Protos, NEW k \in DOMAIN sendPipe'[q] PROVE UnitAt(q, sendPipe[q][k])'
  <2>1. UnitAt(q, sendPipe'[q][k])
    <3>1. CASE q # a
      <4>1. sendPipe'[q] = sendPipe[q]
        BY <1>1, <1>2, <3>1
      <4> QED  BY <1>5, <4>1 DEF SendInv, FrameInv
    <3>2. CASE q = a
      <4>1. sendPipe'[a] = Append(sendPipe[a], u) /\ sendPipe[a] \in Seq(Unit)
        BY <1>1, <1>2, <1>3
      <4>2. \/ k \in DOMAIN sendPipe[a] /\ sendPipe'[a][k] = sendPipe[a][k]
            \/ sendPipe'[a][k] = u
        BY <1>3, <1>5, <3>2, <4>1
      <4> QED  BY <1>3, <1>4, <3>2, <4>2 DEF SendInv, FrameInv
    <3> QED  BY <3>1, <3>2
  <2> QED  BY <1>1, <2>1 DEF UnitAt
<1>6. \A b \in Apps : apc'[b] = "write" => msg'[<<b, count'[b]>>] = Built(b, b)
  BY <1>1, <1>2 DEF SendInv, FrameInv
<1>7. ASSUME NEW q \in Protos
      PROVE  /\ stage'[q] = "got" => UnitAt(q, hand[q])'
             /\ stage'[q] = "write" => UnitDone(q, hand[q])'
  BY <1>1 DEF SendInv, FrameInv, UnitAt, UnitDone
<1>8. \A k \in DOMAIN wire :
        /\ wire[k].frame = FrameOf(wire[k].mp[1])
        /\ msg'[wire[k].mp] = Done(Ethernet, wire[k].mp[1])
  BY <1>1 DEF SendInv, FrameInv
<1> QED  BY <1>1, <1>5, <1>6, <1>7, <1>8 DEF FrameInv

\* The unit a thread reads is one whose Message it can frame.
LEMMA ReadFrames ==
  ASSUME SendInv, NEW p \in Protos, ReadUnit(p)
  PROVE  FrameInv'
<1>1. /\ stage[p] = "read" /\ stage' = [stage EXCEPT ![p] = "got"] /\ sendPipe[p] # << >>
      /\ sendPipe' = [sendPipe EXCEPT ![p] = Tail(sendPipe[p])]
      /\ hand' = [hand EXCEPT ![p] = Head(sendPipe[p])]
      /\ UNCHANGED <<count, apc, wire, msg>>
  BY DEF ReadUnit, appVars, netVars, heapVars
<1>2. /\ sendPipe \in [Protos -> Seq(Unit)]
      /\ stage \in [Protos -> {"read", "got", "write", "unlock"}]
      /\ hand \in [Protos -> Unit \cup {NoUnit}]
  BY DEF SendInv, OwnInv, TypeInv, TypeOK
<1>3. /\ sendPipe'[p] = Tail(sendPipe[p]) /\ 1 \in DOMAIN sendPipe[p] /\ Head(sendPipe[p]) = sendPipe[p][1]
      /\ \A k \in DOMAIN sendPipe'[p] : k + 1 \in DOMAIN sendPipe[p] /\ sendPipe'[p][k] = sendPipe[p][k + 1]
      /\ \A q \in Protos \ {p} : sendPipe'[q] = sendPipe[q]
  BY <1>1, <1>2
<1>4. ASSUME NEW q \in Protos, NEW k \in DOMAIN sendPipe'[q] PROVE UnitAt(q, sendPipe[q][k])'
  <2>1. UnitAt(q, sendPipe'[q][k])
    BY <1>3, <1>4 DEF SendInv, FrameInv
  <2> QED  BY <1>1, <2>1 DEF UnitAt
<1>5. ASSUME NEW q \in Protos
      PROVE  /\ stage'[q] = "got" => UnitAt(q, hand[q])'
             /\ stage'[q] = "write" => UnitDone(q, hand[q])'
  <2>1. CASE q = p
    <3>1. stage'[p] = "got" /\ hand'[p] = sendPipe[p][1]
      BY <1>1, <1>2, <1>3
    <3>2. UnitAt(p, sendPipe[p][1])
      BY <1>3 DEF SendInv, FrameInv
    <3> QED  BY <1>1, <2>1, <3>1, <3>2 DEF UnitAt
  <2>2. CASE q # p
    <3>1. stage'[q] = stage[q] /\ hand'[q] = hand[q]
      BY <1>1, <1>2, <2>2
    <3> QED  BY <1>1, <3>1 DEF SendInv, FrameInv, UnitAt, UnitDone
  <2> QED  BY <2>1, <2>2
<1>6. /\ \A b \in Apps : apc'[b] = "write" => msg'[<<b, count'[b]>>] = Built(b, b)
      /\ \A k \in DOMAIN wire : /\ wire[k].frame = FrameOf(wire[k].mp[1])
                                 /\ msg'[wire[k].mp] = Done(Ethernet, wire[k].mp[1])
  BY <1>1 DEF SendInv, FrameInv
<1> QED  BY <1>1, <1>4, <1>5, <1>6 DEF FrameInv

\* The unit a layer writes is one the layer below can read.
LEMMA WriteUnitFrames ==
  ASSUME SendInv, NEW p \in Protos, WriteUnit(p)
  PROVE  FrameInv'
<1> DEFINE b == Below(p)
<1>1. /\ stage[p] = "write" /\ p # Ethernet
      /\ stage' = [stage EXCEPT ![p] = IF p \in Locking THEN "unlock" ELSE "read"]
      /\ sendPipe' = [sendPipe EXCEPT ![b] = Append(sendPipe[b], hand[p])]
      /\ hand' = [hand EXCEPT ![p] = NoUnit]
      /\ UNCHANGED <<count, apc, wire, msg>>
  BY DEF WriteUnit, appVars, netVars, heapVars
<1>2. /\ sendPipe \in [Protos -> Seq(Unit)]
      /\ stage \in [Protos -> {"read", "got", "write", "unlock"}]
      /\ hand \in [Protos -> Unit \cup {NoUnit}] /\ hand[p] \in Unit
  BY <1>1 DEF SendInv, OwnInv, TypeInv, TypeOK, HandOK
<1>3. b \in Protos
  BY LayerTypes
<1>4. UnitAt(b, hand[p])
  <2>1. UnitDone(p, hand[p])
    BY <1>1 DEF SendInv, FrameInv
  <2> QED  BY <1>1, <2>1, LayerDone DEF UnitAt, UnitDone
<1> HIDE DEF b
<1>5. ASSUME NEW q \in Protos, NEW k \in DOMAIN sendPipe'[q] PROVE UnitAt(q, sendPipe[q][k])'
  <2>1. UnitAt(q, sendPipe'[q][k])
    <3>1. CASE q # b
      <4>1. sendPipe'[q] = sendPipe[q]
        BY <1>1, <1>2, <3>1
      <4> QED  BY <1>5, <4>1 DEF SendInv, FrameInv
    <3>2. CASE q = b
      <4>1. sendPipe'[b] = Append(sendPipe[b], hand[p]) /\ sendPipe[b] \in Seq(Unit)
        BY <1>1, <1>2, <1>3
      <4>2. \/ k \in DOMAIN sendPipe[b] /\ sendPipe'[b][k] = sendPipe[b][k]
            \/ sendPipe'[b][k] = hand[p]
        BY <1>2, <1>5, <3>2, <4>1
      <4> QED  BY <1>3, <1>4, <3>2, <4>2 DEF SendInv, FrameInv
    <3> QED  BY <3>1, <3>2
  <2> QED  BY <1>1, <2>1 DEF UnitAt
<1>6. ASSUME NEW q \in Protos
      PROVE  /\ stage'[q] = "got" => UnitAt(q, hand[q])'
             /\ stage'[q] = "write" => UnitDone(q, hand[q])'
  <2>1. CASE q = p
    BY <1>1, <1>2, <2>1
  <2>2. CASE q # p
    <3>1. stage'[q] = stage[q] /\ hand'[q] = hand[q]
      BY <1>1, <1>2, <2>2
    <3> QED  BY <1>1, <3>1 DEF SendInv, FrameInv, UnitAt, UnitDone
  <2> QED  BY <2>1, <2>2
<1>7. /\ \A c \in Apps : apc'[c] = "write" => msg'[<<c, count'[c]>>] = Built(c, c)
      /\ \A k \in DOMAIN wire : /\ wire[k].frame = FrameOf(wire[k].mp[1])
                                 /\ msg'[wire[k].mp] = Done(Ethernet, wire[k].mp[1])
  BY <1>1 DEF SendInv, FrameInv
<1> QED  BY <1>1, <1>5, <1>6, <1>7 DEF FrameInv

\* The datagram sendto is given is a whole frame.
LEMMA SendToFrames ==
  ASSUME SendInv, SendTo
  PROVE  FrameInv'
<1> DEFINE m == hand[Ethernet].mp
           g == [mp |-> m, frame |-> msg[m].hdrs, dst |-> remaddr]
<1>1. /\ stage[Ethernet] = "write" /\ stage' = [stage EXCEPT ![Ethernet] = "read"]
      /\ wire' = Append(wire, g)
      /\ hand' = [hand EXCEPT ![Ethernet] = NoUnit]
      /\ UNCHANGED <<count, apc, sendPipe, msg>>
  BY DEF SendTo, appVars, heapVars
<1>2. /\ wire \in Seq(Datagram) /\ stage \in [Protos -> {"read", "got", "write", "unlock"}]
      /\ hand \in [Protos -> Unit \cup {NoUnit}] /\ Ethernet \in Protos
  BY LayerFacts DEF SendInv, OwnInv, TypeInv, TypeOK
<1>3. msg[m] = Done(Ethernet, m[1]) /\ msg[m].hdrs = FrameOf(m[1])
  <2>1. UnitDone(Ethernet, hand[Ethernet])
    BY <1>1, <1>2 DEF SendInv, FrameInv
  <2>2. msg[m] = Done(Ethernet, m[1])
    BY <2>1 DEF UnitDone
  <2> QED  BY <2>2 DEF Done
<1>4. g.mp = m /\ g.frame = FrameOf(m[1])
  BY <1>3
<1> HIDE DEF g, m
<1>5. \A k \in DOMAIN wire' : (k \in DOMAIN wire /\ wire'[k] = wire[k]) \/ wire'[k] = g
  BY <1>1, <1>2
<1>6. \A k \in DOMAIN wire' : /\ wire'[k].frame = FrameOf(wire'[k].mp[1])
                              /\ msg'[wire'[k].mp] = Done(Ethernet, wire'[k].mp[1])
  BY <1>1, <1>3, <1>4, <1>5 DEF SendInv, FrameInv
<1>7. ASSUME NEW q \in Protos
      PROVE  /\ stage'[q] = "got" => UnitAt(q, hand[q])'
             /\ stage'[q] = "write" => UnitDone(q, hand[q])'
  <2>1. CASE q = Ethernet
    BY <1>1, <1>2, <2>1
  <2>2. CASE q # Ethernet
    <3>1. stage'[q] = stage[q] /\ hand'[q] = hand[q]
      BY <1>1, <1>2, <2>2
    <3> QED  BY <1>1, <3>1 DEF SendInv, FrameInv, UnitAt, UnitDone
  <2> QED  BY <2>1, <2>2
<1>8. /\ \A c \in Apps : apc'[c] = "write" => msg'[<<c, count'[c]>>] = Built(c, c)
      /\ \A p \in Protos : \A k \in DOMAIN sendPipe'[p] : UnitAt(p, sendPipe[p][k])'
  BY <1>1 DEF SendInv, FrameInv, UnitAt
<1> QED  BY <1>6, <1>7, <1>8 DEF FrameInv

\* A step that changes neither Messages nor units.
LEMMA StillFrames ==
  ASSUME SendInv, UNCHANGED <<count, apc, sendPipe, hand, wire, msg>>,
         \A q \in Protos : stage'[q] \in {"got", "write"} => stage'[q] = stage[q]
  PROVE  FrameInv'
<1>1. ASSUME NEW q \in Protos
      PROVE  /\ stage'[q] = "got" => UnitAt(q, hand[q])'
             /\ stage'[q] = "write" => UnitDone(q, hand[q])'
  BY DEF SendInv, FrameInv, UnitAt, UnitDone
<1>2. \A p \in Protos : \A k \in DOMAIN sendPipe'[p] : UnitAt(p, sendPipe[p][k])'
  BY DEF SendInv, FrameInv, UnitAt
<1>3. /\ \A c \in Apps : apc'[c] = "write" => msg'[<<c, count'[c]>>] = Built(c, c)
      /\ \A k \in DOMAIN wire' : /\ wire'[k].frame = FrameOf(wire'[k].mp[1])
                                  /\ msg'[wire'[k].mp] = Done(Ethernet, wire'[k].mp[1])
  BY DEF SendInv, FrameInv
<1> QED  BY <1>1, <1>2, <1>3 DEF FrameInv

\* Every step keeps the framing.
LEMMA NextSendInv == SendInv /\ [Next]_vars => SendInv'
<1> SUFFICES ASSUME SendInv, [Next]_vars PROVE FrameInv'
  BY NextOwned DEF SendInv
<1>1. CASE UNCHANGED vars
  BY <1>1, StillFrames DEF vars
<1>2. CASE StepKinds
  <2>1. ASSUME NEW p \in Protos, Unlock(p) PROVE FrameInv'
    <3>1. /\ UNCHANGED <<count, apc, sendPipe, hand, wire, msg>>
          /\ \A q \in Protos : stage'[q] \in {"got", "write"} => stage'[q] = stage[q]
      BY <2>1 DEF Unlock, appVars, heapVars, netVars, SendInv, OwnInv, TypeInv, TypeOK
    <3> QED  BY <3>1, StillFrames
  <2>2. CASE SendToFails \/ OverwriteRemaddr \/ MainReturns
    <3>1. UNCHANGED <<count, apc, sendPipe, hand, wire, msg, stage>>
      BY <2>2 DEF SendToFails, OverwriteRemaddr, MainReturns, appVars, netVars, heapVars
    <3> QED  BY <3>1, StillFrames
  <2> QED  BY <1>2, <2>1, <2>2, BuildFrames, WriteFrames, ReadFrames, AddHdrFrames,
              WriteUnitFrames, SendToFrames DEF StepKinds
<1> QED  BY <1>1, <1>2, StepCases DEF Next, Ended

\* Nothing is framed at the start.
LEMMA InitSendInv == Init => SendInv
<1>1. Init => FrameInv
  BY DEF Init, FrameInv
<1> QED  BY <1>1, InitOwned DEF SendInv

\* Ownership and framing hold throughout.
LEMMA SendInvAlways == Spec => []SendInv
  BY InitSendInv, NextSendInv, PTL DEF Spec

\* Whatever the interleaving of the threads, each datagram is framed as the
\* receiving side strips it, and the frame fits the buffer it is flattened into.
THEOREM WireFramingCorrect == Spec => []WireFraming
<1>1. ASSUME SendInv PROVE WireFraming
  <2> SUFFICES ASSUME NEW k \in DOMAIN wire
               PROVE  /\ wire[k].frame = FrameOf(wire[k].mp[1])
                      /\ msg[wire[k].mp].len < 200
    BY DEF WireFraming
  <2>1. /\ wire[k].frame = FrameOf(wire[k].mp[1])
        /\ msg[wire[k].mp] = Done(Ethernet, wire[k].mp[1])
    BY <1>1 DEF SendInv, FrameInv
  <2>2. ASSUME NEW a PROVE Done(Ethernet, a).len < 200
    <3>1. \A p : SizeOf(p) \in {12, 16, 20}
      BY DEF SizeOf
    <3>2. Done(Ethernet, a).len = 100 + SizeOf(a) + SizeOf(Below(a)) + SizeOf(IP) + SizeOf(Ethernet)
      BY DEF Done, LenE, LenI, LenT, DataLen
    <3> QED  BY <3>1, <3>2
  <2> QED  BY <2>1, <2>2
<1> QED  BY <1>1, SendInvAlways, PTL

-----------------------------------------------------------------------------
(* Order.  How far from the wire a message is: its station, nine steps of  *)
(* them, and its index there.  An older message of the same application is *)
(* always nearer.  This is why the wire shows each application's messages  *)
(* in the order it built them.                                             *)
Level(p) == IF p \in AppProtos THEN 3 ELSE IF p \in {TCP, UDP} THEN 2 ELSE IF p = IP THEN 1 ELSE 0

At(m, s, k) ==
  \/ s = 0 /\ OnWire(k, m)
  \/ k = 0 /\ \E p \in Protos : s = 2 * Level(p) + 1 /\ InHand(p, m)
  \/ \E p \in Protos : s = 2 * Level(p) + 2 /\ InPipe(p, k, m)
  \/ s = 9 /\ k = 0 /\ \E a \in Apps : AtApp(a, m)

Nearer(s, k, t, l) == s < t \/ (s = t /\ k < l)

OrderInv ==
  \A m, n \in Msgs : m[1] = n[1] /\ m[2] < n[2] =>
     \A s, k, t, l \in Nat : At(m, s, k) /\ At(n, t, l) => Nearer(s, k, t, l)

MuxInv == SendInv /\ OrderInv

\* The levels of the layers.
LEMMA Levels ==
  ASSUME NEW p \in Protos
  PROVE  /\ Level(p) \in 0..3
         /\ p \in AppProtos <=> Level(p) = 3
         /\ p = Ethernet <=> Level(p) = 0
         /\ p # Ethernet => Below(p) \in Protos /\ Level(p) = Level(Below(p)) + 1
<1>1. CASE p \in AppProtos
  <2>1. Below(p) \in {TCP, UDP} /\ p \notin {TCP, UDP, IP, Ethernet}
    BY <1>1, LayerFacts
  <2>2. Level(p) = 3 /\ Level(Below(p)) = 2
    BY <1>1, <2>1, LayerFacts DEF Level
  <2> QED  BY <1>1, <2>1, <2>2, LayerFacts
<1>2. CASE p \in {TCP, UDP}
  <2>1. p \notin AppProtos /\ p # IP /\ p # Ethernet /\ Below(p) = IP
    BY <1>2, LayerFacts
  <2>2. Level(p) = 2 /\ Level(IP) = 1
    BY <1>2, <2>1, LayerFacts DEF Level
  <2> QED  BY <2>1, <2>2, LayerFacts
<1>3. CASE p = IP
  <2>1. p \notin AppProtos /\ p \notin {TCP, UDP} /\ p # Ethernet /\ Below(p) = Ethernet
    BY <1>3, LayerFacts
  <2>2. Level(p) = 1 /\ Level(Ethernet) = 0
    BY <1>3, <2>1, LayerFacts DEF Level
  <2> QED  BY <2>1, <2>2, LayerFacts
<1>4. CASE p = Ethernet
  <2>1. p \notin AppProtos /\ p \notin {TCP, UDP} /\ p # IP
    BY <1>4, LayerFacts
  <2>2. Level(p) = 0
    BY <2>1 DEF Level
  <2> QED  BY <1>4, <2>1, <2>2
<1> QED  BY <1>1, <1>2, <1>3, <1>4, LayerFacts

\* At one level, one layer carries an application's messages.
LEMMA OneLayer ==
  ASSUME NEW p \in Protos, NEW q \in Protos, NEW a \in Carried(p), a \in Carried(q), Level(p) = Level(q)
  PROVE  p = q
<1>1. CASE p \in AppProtos
  <2>1. q \in AppProtos
    BY <1>1, Levels
  <2> QED  BY <1>1, <2>1 DEF Carried
<1>2. CASE p \in {TCP, UDP}
  <2>1. q \in {TCP, UDP} /\ p \notin AppProtos /\ q \notin AppProtos
    BY <1>2, LayerFacts DEF Level
  <2> QED  BY <1>2, <2>1 DEF Carried
<1>3. CASE p = IP
  <2>1. Level(p) = 1 /\ q # Ethernet /\ q \notin AppProtos
    BY <1>3, Levels, LayerFacts DEF Level
  <2>2. q \notin {TCP, UDP}
    BY <2>1, LayerFacts DEF Level
  <2> QED  BY <1>3, <2>1, <2>2, LayerFacts
<1>4. CASE p = Ethernet
  BY <1>4, Levels
<1> QED  BY <1>1, <1>2, <1>3, <1>4, LayerFacts

\* A layer holds only messages it carries.
LEMMA HeldIsCarried ==
  ASSUME SendInv, NEW m \in Msgs, NEW p \in Protos
  PROVE  /\ \A k \in Nat : InPipe(p, k, m) => m[1] \in Carried(p) /\ k # 0
         /\ InHand(p, m) => m[1] \in Carried(p)
<1>1. ASSUME NEW k \in Nat, InPipe(p, k, m) PROVE m[1] \in Carried(p) /\ k # 0
  <2>1. k \in DOMAIN sendPipe[p] /\ sendPipe[p][k].mp = m /\ sendPipe[p] \in Seq(Unit)
    BY <1>1 DEF InPipe, SendInv, OwnInv, TypeInv, TypeOK
  <2>2. UnitAt(p, sendPipe[p][k])
    BY <2>1 DEF SendInv, FrameInv
  <2> QED  BY <2>1, <2>2 DEF UnitAt
<1>2. ASSUME InHand(p, m) PROVE m[1] \in Carried(p)
  BY <1>2 DEF InHand, SendInv, FrameInv, UnitAt, UnitDone
<1> QED  BY <1>1, <1>2

\* One message m moves nearer to the wire, from <<s0, k0>> to <<s1, k1>>, and
\* stays behind the older ones; no other message moves.
MovesNearer(m, s0, k0, s1, k1) ==
  /\ At(m, s0, k0) /\ Nearer(s1, k1, s0, k0)
  /\ \A s, k \in Nat : At(m, s, k)' => s = s1 /\ k = k1
  /\ \A n \in Msgs \ {m} : \A s, k \in Nat : At(n, s, k)' => At(n, s, k)
  /\ \A n \in Msgs : n[1] = m[1] /\ n[2] < m[2] =>
        \A s, k \in Nat : At(n, s, k) => Nearer(s, k, s1, k1)

\* Such a move keeps the order.
LEMMA MoveKeepsOrder ==
  ASSUME OrderInv, NEW m \in Msgs,
         NEW s0 \in Nat, NEW k0 \in Nat, NEW s1 \in Nat, NEW k1 \in Nat,
         MovesNearer(m, s0, k0, s1, k1)
  PROVE  OrderInv'
<1> USE DEF MovesNearer
<1> SUFFICES ASSUME NEW x \in Msgs, NEW y \in Msgs, x[1] = y[1], x[2] < y[2],
                    NEW s \in Nat, NEW k \in Nat, NEW t \in Nat, NEW l \in Nat,
                    At(x, s, k)', At(y, t, l)'
             PROVE  Nearer(s, k, t, l)
  BY DEF OrderInv, Nearer
<1>1. x # y
  BY DEF Msgs
<1>2. CASE x = m
  <2>1. s = s1 /\ k = k1 /\ At(y, t, l)
    BY <1>1, <1>2
  <2>2. Nearer(s0, k0, t, l)
    BY <1>2, <2>1 DEF OrderInv
  <2> QED  BY <2>1, <2>2 DEF Nearer
<1>3. CASE y = m
  <2>1. t = s1 /\ l = k1 /\ At(x, s, k)
    BY <1>1, <1>3
  <2> QED  BY <1>3, <2>1
<1>4. CASE x # m /\ y # m
  <2>1. At(x, s, k) /\ At(y, t, l)
    BY <1>4
  <2> QED  BY <2>1 DEF OrderInv
<1> QED  BY <1>2, <1>3, <1>4

\* The new message is the newest of its application and farthest from the wire.
LEMMA BuildKeepsOrder ==
  ASSUME MuxInv, NEW a \in Apps, BuildMessage(a)
  PROVE  OrderInv'
<1> DEFINE new == <<a, count[a] + 1>>
<1>1. /\ apc[a] = "build" /\ apc' = [apc EXCEPT ![a] = "write"]
      /\ count' = [count EXCEPT ![a] = @ + 1] /\ count[a] < N
      /\ UNCHANGED <<sendPipe, stage, hand, wire>>
  BY DEF BuildMessage, netVars
<1>2. count \in [Apps -> 0..N] /\ apc \in [Apps -> {"build", "write"}]
  BY DEF MuxInv, SendInv, OwnInv, TypeInv, TypeOK
<1>3. ASSUME NEW m \in Msgs, NEW s \in Nat, NEW k \in Nat, At(m, s, k)'
      PROVE  At(m, s, k) \/ (m = new /\ s = 9 /\ k = 0)
  <2>1. \A b \in Apps : AtApp(b, m)' <=> (AtApp(b, m) \/ (b = a /\ m = new))
    BY <1>1, <1>2 DEF AtApp
  <2>2. /\ \A p \in Protos : \A i \in Nat : InPipe(p, i, m)' <=> InPipe(p, i, m)
        /\ \A p \in Protos : InHand(p, m)' <=> InHand(p, m)
        /\ \A i \in Nat : OnWire(i, m)' <=> OnWire(i, m)
    BY <1>1 DEF InPipe, InHand, OnWire
  <2> QED  BY <1>3, <2>1, <2>2 DEF At
<1>4. ASSUME NEW m \in Msgs, m[1] = a, NEW s \in Nat, NEW k \in Nat, At(m, s, k)
      PROVE  s < 9 /\ m[2] <= count[a]
  <2>1. Somewhere(m)
    BY <1>4 DEF At, Somewhere
  <2>2. m[2] <= count[a]
    BY <1>4, <2>1 DEF MuxInv, SendInv, OwnInv, Owned
  <2>3. ~ \E b \in Apps : AtApp(b, m)
    BY <1>1, <1>4 DEF AtApp
  <2>4. s = 0 \/ \E p \in Protos : s = 2 * Level(p) + 1 \/ s = 2 * Level(p) + 2
    BY <1>4, <2>3 DEF At
  <2>5. \A p \in Protos : 2 * Level(p) + 1 < 9 /\ 2 * Level(p) + 2 < 9
    <3> TAKE p \in Protos
    <3>1. Level(p) \in 0..3
      BY Levels
    <3> QED  BY <3>1
  <2> QED  BY <2>2, <2>4, <2>5
<1> HIDE DEF new
<1> SUFFICES ASSUME NEW x \in Msgs, NEW y \in Msgs, x[1] = y[1], x[2] < y[2],
                    NEW s \in Nat, NEW k \in Nat, NEW t \in Nat, NEW l \in Nat,
                    At(x, s, k)', At(y, t, l)'
             PROVE  Nearer(s, k, t, l)
  BY DEF OrderInv, Nearer
<1>5. x \in Msgs /\ x[2] \in Nat /\ y[2] \in Nat /\ count[a] \in Nat
  BY <1>2 DEF Msgs
<1>6. CASE At(x, s, k) /\ At(y, t, l)
  BY <1>6 DEF MuxInv, OrderInv
<1>7. CASE y = new /\ t = 9 /\ At(x, s, k)
  BY <1>4, <1>7 DEF new, Nearer
<1>8. CASE x = new
  <2>1. y # new /\ y[1] = a /\ y[2] > count[a]
    BY <1>5, <1>8 DEF new
  <2>2. At(y, t, l)
    BY <1>3, <2>1
  <2> QED  BY <1>4, <1>5, <2>1, <2>2
<1> QED  BY <1>3, <1>6, <1>7, <1>8

\* What is nearer than a station a layer can be at, for an application it carries.
LEMMA BehindHand ==
  ASSUME SendInv, NEW p \in Protos, NEW n \in Msgs, n[1] \in Carried(p), ~ InHand(p, n),
         NEW s \in Nat, NEW k \in Nat, At(n, s, k), s <= 2 * Level(p) + 1
  PROVE  s <= 2 * Level(p)
<1> SUFFICES ASSUME s = 2 * Level(p) + 1 PROVE FALSE
  <2>1. Level(p) \in 0..3
    BY Levels
  <2> QED  BY <2>1
<1>1. Level(p) \in 0..3 /\ \A q \in Protos : Level(q) \in 0..3
  BY Levels
<1>2. PICK q \in Protos : s = 2 * Level(q) + 1 /\ InHand(q, n)
  BY <1>1 DEF At
<1>3. Level(p) = Level(q)
  BY <1>1, <1>2
<1>4. p = q
  BY <1>2, <1>3, OneLayer, HeldIsCarried
<1> QED  BY <1>2, <1>4

\* A Message at the level of a layer's pipe, and of an application whose Messages
\* pass through that layer, is in that pipe.
LEMMA AtPipe ==
  ASSUME SendInv, NEW p \in Protos, NEW n \in Msgs, n[1] \in Carried(p),
         NEW k \in Nat, At(n, 2 * Level(p) + 2, k)
  PROVE  InPipe(p, k, n)
<1>1. Level(p) \in 0..3 /\ \A q \in Protos : Level(q) \in 0..3
  BY Levels
<1>2. PICK q \in Protos : 2 * Level(p) + 2 = 2 * Level(q) + 2 /\ InPipe(q, k, n)
  BY <1>1 DEF At
<1>3. Level(p) = Level(q)
  BY <1>1, <1>2
<1>4. p = q
  BY <1>2, <1>3, OneLayer, HeldIsCarried
<1> QED  BY <1>2, <1>4

\* An application's message joins its pipe behind the older ones.
LEMMA WriteKeepsOrder ==
  ASSUME MuxInv, NEW a \in Apps, WriteMessage(a)
  PROVE  OrderInv'
<1>0. PICK m, z : m = <<a, count[a]>> /\ z = Len(sendPipe[a]) + 1
  OBVIOUS
<1>1. /\ apc[a] = "write" /\ apc' = [apc EXCEPT ![a] = "build"]
      /\ sendPipe' = [sendPipe EXCEPT ![a] = Append(@, [proto_id |-> a, mp |-> <<a, count[a]>>])]
      /\ UNCHANGED <<count, stage, hand, wire>>
  BY DEF WriteMessage, netVars
<1>2. /\ count \in [Apps -> 0..N] /\ apc \in [Apps -> {"build", "write"}]
      /\ sendPipe \in [Protos -> Seq(Unit)] /\ a \in Protos /\ a \in AppProtos
      /\ a \in Carried(a) /\ count[a] >= 1
  BY <1>1, LayerFacts, AppsAreProtos DEF MuxInv, SendInv, OwnInv, TypeInv, TypeOK, BuiltOK, Carried
<1>3. m \in Msgs /\ z \in Nat /\ [proto_id |-> a, mp |-> m] \in Unit /\ count[a] \in Nat
  BY <1>0, <1>2, NAssumption DEF Unit, Msgs
<1>4. Level(a) = 3 /\ 2 * Level(a) + 2 = 8
  BY <1>2, Levels
<1>5. AtApp(a, m) /\ At(m, 9, 0) /\ Nearer(8, z, 9, 0)
  BY <1>0, <1>1 DEF AtApp, At, Nearer
<1>6. ASSUME NEW n \in Msgs, NEW s \in Nat, NEW k \in Nat, At(n, s, k)'
      PROVE  \/ n # m /\ At(n, s, k)
             \/ n = m /\ s = 8 /\ k = z
  <2>1. \A b \in Apps : AtApp(b, n)' <=> (b # a /\ AtApp(b, n))
    BY <1>1, <1>2 DEF AtApp
  <2>2. \A p \in Protos : \A i \in Nat :
           InPipe(p, i, n)' <=> \/ InPipe(p, i, n)
                                \/ p = a /\ i = z /\ n = m
    BY <1>0, <1>1, <1>2, <1>3 DEF InPipe
  <2>3. /\ \A p \in Protos : InHand(p, n)' <=> InHand(p, n)
        /\ \A i \in Nat : OnWire(i, n)' <=> OnWire(i, n)
    BY <1>1 DEF InHand, OnWire
  <2>4. CASE n # m
    <3>1. \A b \in Apps : AtApp(b, n)' => AtApp(b, n)
      BY <2>1
    <3>2. \A p \in Protos : \A i \in Nat : InPipe(p, i, n)' => InPipe(p, i, n)
      BY <2>2, <2>4
    <3> QED  BY <1>6, <2>3, <2>4, <3>1, <3>2 DEF At
  <2>5. CASE n = m
    <3>1. Apart(m)
      BY <1>3 DEF MuxInv, SendInv, OwnInv, Owned
    <3>2. /\ \A p \in Protos : ~ InHand(p, m) /\ \A i \in Nat : ~ InPipe(p, i, m)
          /\ \A i \in Nat : ~ OnWire(i, m)
      BY <1>5, <3>1 DEF Apart
    <3>3. \A b \in Apps : ~ AtApp(b, m)'
      BY <1>0, <1>1, <1>2 DEF AtApp
    <3>4. /\ ~ OnWire(k, n)'
          /\ \A p \in Protos : ~ InHand(p, n)'
          /\ \A b \in Apps : ~ AtApp(b, n)'
          /\ \A p \in Protos : InPipe(p, k, n)' => p = a /\ k = z
      BY <1>6, <2>2, <2>3, <2>5, <3>2, <3>3
    <3>5. \E p \in Protos : s = 2 * Level(p) + 2 /\ p = a /\ k = z
      BY <1>6, <3>4 DEF At
    <3> QED  BY <1>4, <2>5, <3>5
  <2> QED  BY <2>4, <2>5
<1>7. ASSUME NEW n \in Msgs, NEW s \in Nat, NEW k \in Nat,
             n[1] = m[1], n[2] < m[2], At(n, s, k)
      PROVE  Nearer(s, k, 8, z)
  <2>1. s <= 8
    BY <1>0, <1>3, <1>5, <1>7 DEF MuxInv, OrderInv, Nearer
  <2>2. ASSUME s = 8 PROVE k < z
    <3>1. InPipe(a, k, n)
      BY <1>0, <1>2, <1>4, <1>7, <2>2, AtPipe DEF MuxInv
    <3> QED  BY <1>0, <1>2, <3>1 DEF InPipe
  <2> QED  BY <2>1, <2>2 DEF Nearer
<1>8. /\ \A s, k \in Nat : At(m, s, k)' => s = 8 /\ k = z
      /\ \A n \in Msgs \ {m} : \A s, k \in Nat : At(n, s, k)' => At(n, s, k)
  BY <1>3, <1>6
<1>9. OrderInv /\ m \in Msgs /\ 9 \in Nat /\ 0 \in Nat /\ 8 \in Nat /\ z \in Nat
  BY <1>3 DEF MuxInv
<1>10. MovesNearer(m, 9, 0, 8, z)
  BY <1>5, <1>7, <1>8 DEF MovesNearer
<1> QED  BY <1>9, <1>10, MoveKeepsOrder

\* A layer's message joins the pipe below behind the older ones.
LEMMA WriteUnitKeepsOrder ==
  ASSUME MuxInv, NEW p \in Protos, WriteUnit(p)
  PROVE  OrderInv'
<1> DEFINE b == Below(p)
           h == 2 * Level(p) + 1
<1>0. PICK m, z : m = hand[p].mp /\ z = Len(sendPipe[b]) + 1
  OBVIOUS
<1>1. /\ stage[p] = "write" /\ p # Ethernet
      /\ stage' = [stage EXCEPT ![p] = IF p \in Locking THEN "unlock" ELSE "read"]
      /\ sendPipe' = [sendPipe EXCEPT ![b] = Append(@, hand[p])]
      /\ hand' = [hand EXCEPT ![p] = NoUnit]
      /\ UNCHANGED <<count, apc, wire>>
  BY DEF WriteUnit, appVars, netVars
<1>2. /\ sendPipe \in [Protos -> Seq(Unit)]
      /\ stage \in [Protos -> {"read", "got", "write", "unlock"}]
      /\ hand \in [Protos -> Unit \cup {NoUnit}]
      /\ hand[p] \in Unit /\ m \in Msgs /\ InHand(p, m)
  BY <1>0, <1>1 DEF MuxInv, SendInv, OwnInv, TypeInv, TypeOK, HandOK, InHand, Unit
<1>3. b \in Protos /\ z \in Nat /\ h \in Nat /\ h = 2 * Level(b) + 3 /\ Level(b) \in 0..3 /\ Level(p) \in 0..3
  <2>1. b \in Protos /\ Level(p) = Level(b) + 1
    BY <1>1, Levels
  <2>2. Level(p) \in 0..3 /\ Level(b) \in 0..3
    BY <2>1, Levels
  <2>3. sendPipe[b] \in Seq(Unit)
    BY <1>2, <2>1
  <2> HIDE DEF b
  <2> QED  BY <1>0, <2>1, <2>2, <2>3
<1>4. m[1] \in Carried(p) /\ m[1] \in Carried(b)
  BY <1>1, <1>2, HeldIsCarried, LayerDone DEF MuxInv
<1>5. At(m, h, 0) /\ Nearer(2 * Level(b) + 2, z, h, 0)
  BY <1>2, <1>3 DEF At, Nearer
<1>6. m \in Msgs /\ sendPipe[b] \in Seq(Unit)
  BY <1>2, <1>3
<1> HIDE DEF b
<1>7. ASSUME NEW n \in Msgs, NEW s \in Nat, NEW k \in Nat, At(n, s, k)'
      PROVE  \/ n # m /\ At(n, s, k)
             \/ n = m /\ s = 2 * Level(b) + 2 /\ k = z
  <2>1. \A q \in Protos : \A i \in Nat :
           InPipe(q, i, n)' <=> \/ InPipe(q, i, n)
                                \/ q = b /\ i = z /\ n = m
    BY <1>0, <1>1, <1>2, <1>3 DEF InPipe
  <2>2. \A q \in Protos : InHand(q, n)' <=> (q # p /\ InHand(q, n))
    BY <1>1, <1>2 DEF InHand
  <2>3. /\ \A a \in Apps : AtApp(a, n)' <=> AtApp(a, n)
        /\ \A i \in Nat : OnWire(i, n)' <=> OnWire(i, n)
    BY <1>1 DEF AtApp, OnWire
  <2>4. CASE n # m
    <3>1. \A q \in Protos : \A i \in Nat : InPipe(q, i, n)' => InPipe(q, i, n)
      BY <2>1, <2>4
    <3>2. \A q \in Protos : InHand(q, n)' => InHand(q, n)
      BY <2>2
    <3> QED  BY <1>7, <2>3, <2>4, <3>1, <3>2 DEF At
  <2>5. CASE n = m
    <3>1. Apart(m)
      BY <1>2 DEF MuxInv, SendInv, OwnInv, Owned
    <3>2. /\ \A q \in Protos : \A i \in Nat : ~ InPipe(q, i, m)
          /\ \A i \in Nat : ~ OnWire(i, m)
          /\ \A a \in Apps : ~ AtApp(a, m)
          /\ \A q \in Protos : InHand(q, m) => p = q
      BY <1>2, <3>1 DEF Apart
    <3>3. /\ ~ OnWire(k, n)'
          /\ \A q \in Protos : ~ InHand(q, n)'
          /\ \A a \in Apps : ~ AtApp(a, n)'
          /\ \A q \in Protos : InPipe(q, k, n)' => q = b /\ k = z
      BY <1>7, <2>1, <2>2, <2>3, <2>5, <3>2
    <3>4. \E q \in Protos : s = 2 * Level(q) + 2 /\ q = b /\ k = z
      BY <1>7, <3>3 DEF At
    <3> QED  BY <2>5, <3>4
  <2> QED  BY <2>4, <2>5
<1>8. ASSUME NEW n \in Msgs, NEW s \in Nat, NEW k \in Nat,
             n[1] = m[1], n[2] < m[2], At(n, s, k)
      PROVE  Nearer(s, k, 2 * Level(b) + 2, z)
  <2>1. Nearer(s, k, h, 0)
    BY <1>3, <1>5, <1>6, <1>8 DEF MuxInv, OrderInv
  <2>2. s <= 2 * Level(b) + 2
    BY <1>3, <2>1 DEF Nearer
  <2>3. ASSUME s = 2 * Level(b) + 2 PROVE k < z
    <3>1. InPipe(b, k, n)
      BY <1>3, <1>4, <1>8, <2>3, AtPipe DEF MuxInv
    <3> QED  BY <1>0, <1>6, <3>1 DEF InPipe
  <2> QED  BY <1>3, <2>2, <2>3 DEF Nearer
<1> HIDE DEF h
<1>9. /\ \A s, k \in Nat : At(m, s, k)' => s = 2 * Level(b) + 2 /\ k = z
      /\ \A n \in Msgs \ {m} : \A s, k \in Nat : At(n, s, k)' => At(n, s, k)
  BY <1>6, <1>7
<1>10. OrderInv /\ m \in Msgs /\ h \in Nat /\ 0 \in Nat /\ z \in Nat /\ 2 * Level(b) + 2 \in Nat
  BY <1>3, <1>6 DEF MuxInv
<1>11. MovesNearer(m, h, 0, 2 * Level(b) + 2, z)
  BY <1>5, <1>8, <1>9 DEF MovesNearer
<1> QED  BY <1>10, <1>11, MoveKeepsOrder

\* sendto puts the Ethernet thread's message behind the older ones.
LEMMA SendToKeepsOrder ==
  ASSUME MuxInv, SendTo
  PROVE  OrderInv'
<1>0. PICK m, z : m = hand[Ethernet].mp /\ z = Len(wire) + 1
  OBVIOUS
<1>1. /\ stage[Ethernet] = "write" /\ stage' = [stage EXCEPT ![Ethernet] = "read"]
      /\ \E g : g.mp = m /\ wire' = Append(wire, g)
      /\ hand' = [hand EXCEPT ![Ethernet] = NoUnit]
      /\ UNCHANGED <<count, apc, sendPipe>>
  BY <1>0 DEF SendTo, appVars
<1>2. /\ wire \in Seq(Datagram) /\ z \in Nat
      /\ stage \in [Protos -> {"read", "got", "write", "unlock"}]
      /\ hand \in [Protos -> Unit \cup {NoUnit}]
      /\ Ethernet \in Protos /\ m \in Msgs /\ InHand(Ethernet, m)
  BY <1>0, <1>1, LayerFacts DEF MuxInv, SendInv, OwnInv, TypeInv, TypeOK, HandOK, InHand, Unit
<1>3. At(m, 1, 0) /\ Nearer(0, z, 1, 0)
  <2>1. Level(Ethernet) = 0
    BY <1>2, Levels
  <2>2. 1 = 2 * Level(Ethernet) + 1
    BY <2>1
  <2> QED  BY <1>2, <2>2 DEF At, Nearer
<1>4. ASSUME NEW n \in Msgs, NEW s \in Nat, NEW k \in Nat, At(n, s, k)'
      PROVE  \/ n # m /\ At(n, s, k)
             \/ n = m /\ s = 0 /\ k = z
  <2>1. OnWire(k, n)' <=> OnWire(k, n) \/ (k = z /\ n = m)
    BY <1>0, <1>1, <1>2 DEF OnWire
  <2>2. \A q \in Protos : InHand(q, n)' <=> (q # Ethernet /\ InHand(q, n))
    BY <1>1, <1>2 DEF InHand
  <2>3. /\ \A a \in Apps : AtApp(a, n)' <=> AtApp(a, n)
        /\ \A q \in Protos : \A i \in Nat : InPipe(q, i, n)' <=> InPipe(q, i, n)
    BY <1>1 DEF AtApp, InPipe
  <2>4. CASE n # m
    <3>1. OnWire(k, n)' => OnWire(k, n)
      BY <2>1, <2>4
    <3>2. \A q \in Protos : InHand(q, n)' => InHand(q, n)
      BY <2>2
    <3> QED  BY <1>4, <2>3, <2>4, <3>1, <3>2 DEF At
  <2>5. CASE n = m
    <3>1. Apart(m)
      BY <1>2 DEF MuxInv, SendInv, OwnInv, Owned
    <3>2. /\ \A q \in Protos : \A i \in Nat : ~ InPipe(q, i, m)
          /\ \A i \in Nat : ~ OnWire(i, m)
          /\ \A a \in Apps : ~ AtApp(a, m)
          /\ \A q \in Protos : InHand(q, m) => Ethernet = q
      BY <1>2, <3>1 DEF Apart
    <3>3. /\ OnWire(k, n)' => k = z
          /\ \A q \in Protos : ~ InHand(q, n)'
          /\ \A a \in Apps : ~ AtApp(a, n)'
          /\ \A q \in Protos : ~ InPipe(q, k, n)'
      BY <2>1, <2>2, <2>3, <2>5, <3>2
    <3> QED  BY <1>4, <2>5, <3>3 DEF At
  <2> QED  BY <2>4, <2>5
<1>5. ASSUME NEW n \in Msgs, NEW s \in Nat, NEW k \in Nat,
             n[1] = m[1], n[2] < m[2], At(n, s, k)
      PROVE  Nearer(s, k, 0, z)
  <2>1. s = 0
    BY <1>2, <1>3, <1>5 DEF MuxInv, OrderInv, Nearer
  <2>2. OnWire(k, n)
    <3>1. \A q \in Protos : Level(q) \in 0..3
      BY Levels
    <3> QED  BY <1>5, <2>1, <3>1 DEF At
  <2> QED  BY <1>0, <1>2, <2>1, <2>2 DEF OnWire, Nearer
<1>6. /\ \A s, k \in Nat : At(m, s, k)' => s = 0 /\ k = z
      /\ \A n \in Msgs \ {m} : \A s, k \in Nat : At(n, s, k)' => At(n, s, k)
  BY <1>2, <1>4
<1>7. MovesNearer(m, 1, 0, 0, z)
  BY <1>3, <1>5, <1>6 DEF MovesNearer
<1> QED  BY <1>2, <1>7, MoveKeepsOrder DEF MuxInv

\* A thread takes the oldest message of its pipe, and the others move up.
LEMMA ReadKeepsOrder ==
  ASSUME MuxInv, NEW p \in Protos, ReadUnit(p)
  PROVE  OrderInv'
<1>0. PICK h : h = 2 * Level(p) + 1
  OBVIOUS
<1>1. /\ stage[p] = "read" /\ stage' = [stage EXCEPT ![p] = "got"]
      /\ sendPipe[p] # << >>
      /\ sendPipe' = [sendPipe EXCEPT ![p] = Tail(@)]
      /\ hand' = [hand EXCEPT ![p] = Head(sendPipe[p])]
      /\ UNCHANGED <<count, apc, wire>>
  BY DEF ReadUnit, appVars, netVars
<1>2. /\ sendPipe \in [Protos -> Seq(Unit)]
      /\ stage \in [Protos -> {"read", "got", "write", "unlock"}]
      /\ hand \in [Protos -> Unit \cup {NoUnit}]
      /\ h \in Nat /\ h + 1 = 2 * Level(p) + 2
      /\ SendInv
  <2>1. Level(p) \in 0..3
    BY Levels
  <2>2. h \in Nat /\ h + 1 = 2 * Level(p) + 2
    BY <1>0, <2>1
  <2> QED  BY <2>2 DEF MuxInv, SendInv, OwnInv, TypeInv, TypeOK
\* Where a message is now, by where it was.
<1>3. ASSUME NEW n \in Msgs, NEW s \in Nat, NEW k \in Nat, At(n, s, k)'
      PROVE  \/ At(n, s, k) /\ \A i \in Nat : ~ InPipe(p, i, n)
             \/ s = h /\ k = 0 /\ At(n, h + 1, 1) /\ InPipe(p, 1, n)
             \/ s = h + 1 /\ k # 0 /\ At(n, h + 1, k + 1) /\ InPipe(p, k + 1, n)
  <2>1. \A q \in Protos : \A i \in Nat :
           InPipe(q, i, n)' <=> IF q = p THEN i # 0 /\ InPipe(p, i + 1, n) ELSE InPipe(q, i, n)
    BY <1>1, <1>2 DEF InPipe
  <2>2. \A q \in Protos : InHand(q, n)' <=> IF q = p THEN InPipe(p, 1, n) ELSE InHand(q, n)
    BY <1>1, <1>2 DEF InPipe, InHand
  <2>3. /\ \A a \in Apps : AtApp(a, n)' <=> AtApp(a, n)
        /\ OnWire(k, n)' <=> OnWire(k, n)
    BY <1>1 DEF AtApp, OnWire
  <2>4. \A i \in Nat : InPipe(p, i, n) => At(n, h + 1, i)
    BY <1>2 DEF At
  <2>5. Apart(n)
    BY DEF MuxInv, SendInv, OwnInv, Owned
  <2>6. CASE s = 0 /\ OnWire(k, n)'
    BY <2>3, <2>5, <2>6 DEF At, Apart
  <2>7. CASE s = 9 /\ k = 0 /\ \E a \in Apps : AtApp(a, n)'
    BY <2>3, <2>5, <2>7 DEF At, Apart
  <2>8. ASSUME NEW q \in Protos, k = 0, s = 2 * Level(q) + 1, InHand(q, n)'
        PROVE  \/ At(n, s, k) /\ \A i \in Nat : ~ InPipe(p, i, n)
               \/ s = h /\ k = 0 /\ At(n, h + 1, 1) /\ InPipe(p, 1, n)
    <3>1. CASE q = p
      BY <1>0, <2>2, <2>4, <2>8, <3>1
    <3>2. CASE q # p
      <4>1. InHand(q, n)
        BY <2>2, <2>8, <3>2
      <4> QED  BY <2>5, <2>8, <4>1 DEF At, Apart
    <3> QED  BY <3>1, <3>2
  <2>9. ASSUME NEW q \in Protos, s = 2 * Level(q) + 2, InPipe(q, k, n)'
        PROVE  \/ At(n, s, k) /\ \A i \in Nat : ~ InPipe(p, i, n)
               \/ s = h + 1 /\ k # 0 /\ At(n, h + 1, k + 1) /\ InPipe(p, k + 1, n)
    <3>1. CASE q = p
      BY <1>2, <2>1, <2>4, <2>9, <3>1
    <3>2. CASE q # p
      <4>1. InPipe(q, k, n)
        BY <2>1, <2>9, <3>2
      <4>2. At(n, s, k)
        BY <2>9, <4>1 DEF At
      <4>3. \A i \in Nat : ~ InPipe(p, i, n)
        BY <2>5, <3>2, <4>1 DEF Apart
      <4> QED  BY <4>2, <4>3
    <3> QED  BY <3>1, <3>2
  <2> QED  BY <1>3, <2>6, <2>7, <2>8, <2>9 DEF At
<1>4. ASSUME NEW n \in Msgs, n[1] \in Carried(p), NEW s \in Nat, NEW k \in Nat, At(n, s, k),
             \A i \in Nat : ~ InPipe(p, i, n)
      PROVE  s # h /\ s # h + 1
  <2>1. ~ InHand(p, n)
    BY <1>1 DEF InHand
  <2>2. s # h
    <3>1. s = h => s <= 2 * Level(p)
      BY <1>0, <1>2, <1>4, <2>1, BehindHand
    <3> QED  BY <1>0, <3>1, Levels
  <2>3. s # h + 1
    BY <1>2, <1>4, AtPipe
  <2> QED  BY <2>2, <2>3
<1> SUFFICES ASSUME NEW x \in Msgs, NEW y \in Msgs, x[1] = y[1], x[2] < y[2],
                    NEW s \in Nat, NEW k \in Nat, NEW t \in Nat, NEW l \in Nat,
                    At(x, s, k)', At(y, t, l)'
             PROVE  Nearer(s, k, t, l)
  BY DEF OrderInv, Nearer
<1>5. \A i, j, u, v \in Nat : At(x, i, j) /\ At(y, u, v) => Nearer(i, j, u, v)
  BY DEF MuxInv, OrderInv
<1>6. CASE \A i \in Nat : ~ InPipe(p, i, x) /\ ~ InPipe(p, i, y)
  <2>1. At(x, s, k) /\ At(y, t, l)
    BY <1>3, <1>6
  <2> QED  BY <1>5, <2>1
<1>7. CASE (\E i \in Nat : InPipe(p, i, x)) /\ \A i \in Nat : ~ InPipe(p, i, y)
  <2>1. At(y, t, l) /\ y[1] \in Carried(p)
    BY <1>2, <1>3, <1>7, HeldIsCarried
  <2>2. t # h /\ t # h + 1
    BY <1>4, <1>7, <2>1
  <2>3. s \in {h, h + 1} /\ \E i \in Nat : At(x, h + 1, i)
    BY <1>3, <1>7
  <2>4. PICK i \in Nat : Nearer(h + 1, i, t, l)
    BY <1>2, <1>5, <2>1, <2>3
  <2> QED  BY <1>2, <2>2, <2>3, <2>4 DEF Nearer
<1>8. CASE (\A i \in Nat : ~ InPipe(p, i, x)) /\ \E i \in Nat : InPipe(p, i, y)
  <2>1. At(x, s, k) /\ x[1] \in Carried(p)
    BY <1>2, <1>3, <1>8, HeldIsCarried
  <2>2. s # h /\ s # h + 1
    BY <1>4, <1>8, <2>1
  <2>3. t \in {h, h + 1} /\ \E i \in Nat : At(y, h + 1, i)
    BY <1>3, <1>8
  <2>4. PICK i \in Nat : Nearer(s, k, h + 1, i)
    BY <1>2, <1>5, <2>1, <2>3
  <2> QED  BY <1>2, <2>2, <2>3, <2>4 DEF Nearer
<1>9. CASE (\E i \in Nat : InPipe(p, i, x)) /\ \E i \in Nat : InPipe(p, i, y)
  <2>1. \/ s = h /\ k = 0 /\ At(x, h + 1, 1)
        \/ s = h + 1 /\ k # 0 /\ At(x, h + 1, k + 1)
    BY <1>3, <1>9
  <2>2. \/ t = h /\ l = 0 /\ At(y, h + 1, 1)
        \/ t = h + 1 /\ l # 0 /\ At(y, h + 1, l + 1)
    BY <1>3, <1>9
  <2> QED  BY <1>2, <1>5, <2>1, <2>2 DEF Nearer
<1> QED  BY <1>6, <1>7, <1>8, <1>9

\* A step that moves no message.
LEMMA StillOrdered ==
  ASSUME OrderInv, UNCHANGED <<count, apc, sendPipe, wire>>,
         \A p \in Protos : \A m \in Msgs : InHand(p, m)' <=> InHand(p, m)
  PROVE  OrderInv'
<1>1. ASSUME NEW m \in Msgs, NEW s \in Nat, NEW k \in Nat, At(m, s, k)' PROVE At(m, s, k)
  BY <1>1 DEF At, AtApp, InPipe, OnWire
<1> QED  BY <1>1 DEF OrderInv, Nearer

\* Every step keeps the order.
LEMMA NextMuxInv == MuxInv /\ [Next]_vars => MuxInv'
<1> SUFFICES ASSUME MuxInv, [Next]_vars PROVE OrderInv'
  BY NextSendInv DEF MuxInv
<1>1. CASE UNCHANGED vars
  BY <1>1, StillOrdered DEF vars, InHand, MuxInv
<1>2. stage \in [Protos -> {"read", "got", "write", "unlock"}] /\ hand \in [Protos -> Unit \cup {NoUnit}]
  BY DEF MuxInv, SendInv, OwnInv, TypeInv, TypeOK
<1>3. CASE StepKinds
  <2>1. ASSUME NEW p \in Protos, AddHdr(p) PROVE OrderInv'
    <3>1. /\ stage[p] = "got" /\ stage' = [stage EXCEPT ![p] = "write"]
          /\ hand' = [hand EXCEPT ![p] = [proto_id |-> p, mp |-> hand[p].mp]]
          /\ UNCHANGED <<count, apc, sendPipe, wire>>
      BY <2>1 DEF AddHdr, appVars, netVars
    <3>2. \A q \in Protos : \A m \in Msgs : InHand(q, m)' <=> InHand(q, m)
      BY <1>2, <3>1 DEF InHand
    <3> QED  BY <3>1, <3>2, StillOrdered DEF MuxInv
  <2>2. ASSUME NEW p \in Protos, Unlock(p) PROVE OrderInv'
    <3>1. /\ stage[p] = "unlock" /\ stage' = [stage EXCEPT ![p] = "read"]
          /\ UNCHANGED <<count, apc, sendPipe, hand, wire>>
      BY <2>2 DEF Unlock, appVars, netVars
    <3>2. \A q \in Protos : \A m \in Msgs : InHand(q, m)' <=> InHand(q, m)
      BY <1>2, <3>1 DEF InHand
    <3> QED  BY <3>1, <3>2, StillOrdered DEF MuxInv
  <2>3. CASE SendToFails \/ OverwriteRemaddr \/ MainReturns
    <3>1. UNCHANGED <<count, apc, sendPipe, wire, stage, hand>>
      BY <2>3 DEF SendToFails, OverwriteRemaddr, MainReturns, appVars, netVars
    <3> QED  BY <3>1, StillOrdered DEF InHand, MuxInv
  <2> QED  BY <1>3, <2>1, <2>2, <2>3, BuildKeepsOrder, WriteKeepsOrder, ReadKeepsOrder,
              WriteUnitKeepsOrder, SendToKeepsOrder DEF StepKinds
<1> QED  BY <1>1, <1>3, StepCases DEF Next, Ended

\* Nothing is anywhere at the start, so nothing is out of order.
LEMMA InitMuxInv == Init => MuxInv
<1> SUFFICES ASSUME Init PROVE OrderInv
  BY InitSendInv DEF MuxInv
<1>1. ASSUME NEW m \in Msgs, NEW s \in Nat, NEW k \in Nat PROVE ~ At(m, s, k)
  BY DEF Init, At, OnWire, InHand, InPipe, AtApp
<1> QED  BY <1>1 DEF OrderInv

(* The refinement.  sendto emits the oldest message of its application that *)
(* is not on the wire yet, because the order invariant leaves the older ones *)
(* no other place.                                                         *)
Out == [k \in DOMAIN wire |-> wire[k].mp]

\* What is emitted is what is on the wire.
LEMMA EmittedIsOnWire ==
  ASSUME wire \in Seq(Datagram), NEW a, NEW i
  PROVE  Mux!Emitted(a, i) <=> \E k \in Nat : OnWire(k, <<a, i>>)
  BY DEF Mux!Emitted, OnWire

\* A sendto is an Emit.
LEMMA SendToEmits ==
  ASSUME MuxInv, SendTo, ~ exited
  PROVE  \E a \in Apps : Mux!Emit(a)
<1>0. PICK m : m = hand[Ethernet].mp
  OBVIOUS
<1>1. /\ stage[Ethernet] = "write" /\ UNCHANGED <<count, exited>>
      /\ \E g : g.mp = m /\ wire' = Append(wire, g)
  BY <1>0 DEF SendTo, appVars
<1>2. /\ wire \in Seq(Datagram) /\ count \in [Apps -> 0..N]
      /\ Ethernet \in Protos /\ m \in Msgs /\ InHand(Ethernet, m)
  BY <1>0, <1>1, LayerFacts DEF MuxInv, SendInv, OwnInv, TypeInv, TypeOK, HandOK, InHand, Unit
<1>3. PICK a \in Apps, i \in 1..N : m = <<a, i>>
  BY <1>2 DEF Msgs
<1>4. Apart(m) /\ Somewhere(m) => i <= count[a]
  BY <1>2, <1>3 DEF MuxInv, SendInv, OwnInv, Owned
<1>5. i \in 1..count[a] /\ i \in Nat /\ count[a] \in Nat
  <2>1. Somewhere(m) /\ Apart(m)
    BY <1>2 DEF Somewhere, MuxInv, SendInv, OwnInv, Owned
  <2> QED  BY <1>2, <1>3, <1>4, <2>1, NAssumption
<1>6. ~ Mux!Emitted(a, i)
  <2>1. \A k \in Nat : ~ OnWire(k, m)
    BY <1>2 DEF Apart, MuxInv, SendInv, OwnInv, Owned
  <2> QED  BY <1>2, <1>3, <2>1, EmittedIsOnWire
<1>7. ASSUME NEW j \in 1..(i - 1) PROVE Mux!Emitted(a, j)
  <2>1. j \in Nat /\ j <= count[a] /\ j < i /\ <<a, j>> \in Msgs
    BY <1>3, <1>5, NAssumption DEF Msgs
  <2>2. Somewhere(<<a, j>>)
    BY <2>1 DEF MuxInv, SendInv, OwnInv, Owned
  <2>3. PICK s \in Nat, k \in Nat : At(<<a, j>>, s, k)
    <3>1. \A p \in Protos : Level(p) \in 0..3
      BY Levels
    <3>2. \A p \in Protos : 2 * Level(p) + 1 \in Nat /\ 2 * Level(p) + 2 \in Nat
      BY <3>1
    <3> QED  BY <2>2, <3>2 DEF Somewhere, At
  <2>4. At(m, 1, 0)
    <3>1. Level(Ethernet) = 0
      BY <1>2, Levels
    <3>2. 1 = 2 * Level(Ethernet) + 1
      BY <3>1
    <3> QED  BY <1>2, <3>2 DEF At
  <2>5. s = 0
    BY <1>2, <1>3, <2>1, <2>3, <2>4 DEF MuxInv, OrderInv, Nearer
  <2>6. OnWire(k, <<a, j>>)
    <3>1. \A p \in Protos : Level(p) \in 0..3
      BY Levels
    <3> QED  BY <2>3, <2>5, <3>1 DEF At
  <2> QED  BY <1>2, <2>6, EmittedIsOnWire
<1>8. Out' = Append(Out, <<a, i>>)
  <2>1. PICK g : g.mp = m /\ wire' = Append(wire, g)
    BY <1>1
  <2>2. /\ Out \in Seq(Msgs) /\ Len(Out) = Len(wire) /\ Len(wire) \in Nat
        /\ \A k \in 1..Len(wire) : Out[k] = wire[k].mp
    <3>1. Len(wire) \in Nat /\ DOMAIN wire = 1..Len(wire) /\ \A k \in 1..Len(wire) : wire[k].mp \in Msgs
      <4>1. Len(wire) \in Nat /\ DOMAIN wire = 1..Len(wire) /\ \A k \in 1..Len(wire) : wire[k] \in Datagram
        BY <1>2
      <4>2. \A d \in Datagram : d.mp \in Msgs
        BY DEF Datagram
      <4> QED  BY <4>1, <4>2
    <3>2. Out \in [1..Len(wire) -> Msgs] /\ DOMAIN Out = 1..Len(wire)
      BY <3>1 DEF Out
    <3>3. Out \in Seq(Msgs)
      BY <3>1, <3>2, SeqDef
    <3>4. \A k \in 1..Len(wire) : Out[k] = wire[k].mp
      BY <3>1 DEF Out
    <3> HIDE DEF Out
    <3> QED  BY <3>1, <3>2, <3>3, <3>4
  <2>3. /\ DOMAIN wire' = 1..(Len(wire) + 1)
        /\ \A k \in 1..Len(wire) : wire'[k] = wire[k]
        /\ wire'[Len(wire) + 1] = g
    BY <1>2, <2>1
  <2>4. PICK n : n = Len(wire)
    OBVIOUS
  <2>5. PICK o : o = Out
    OBVIOUS
  <2>6. /\ Append(o, m) \in [1..(n + 1) -> Msgs]
        /\ \A k \in 1..n : Append(o, m)[k] = o[k]
        /\ Append(o, m)[n + 1] = m
    <3>1. o \in Seq(Msgs) /\ Len(o) = n /\ n \in Nat
      BY <2>2, <2>4, <2>5
    <3>2. Append(o, m) \in Seq(Msgs) /\ Len(Append(o, m)) = n + 1
      BY <1>2, <3>1
    <3>3. Append(o, m) \in [1..(n + 1) -> Msgs]
      BY <3>2, LenProperties
    <3>4. (\A k \in 1..n : Append(o, m)[k] = o[k]) /\ Append(o, m)[n + 1] = m
      BY <1>2, <3>1
    <3> QED  BY <3>3, <3>4
  <2>7. Out' = [k \in 1..(n + 1) |-> wire'[k].mp]
    BY <2>3, <2>4 DEF Out
  <2>8. \A k \in 1..(n + 1) : wire'[k].mp = Append(o, m)[k]
    <3>1. \A k \in 1..n : wire'[k].mp = Append(o, m)[k]
      BY <2>2, <2>3, <2>4, <2>5, <2>6
    <3>2. wire'[n + 1].mp = Append(o, m)[n + 1]
      BY <2>1, <2>3, <2>4, <2>6
    <3>3. n \in Nat
      BY <2>2, <2>4
    <3>4. \A k \in 1..(n + 1) : k \in 1..n \/ k = n + 1
      BY <3>3
    <3> QED  BY <3>1, <3>2, <3>4
  <2>9. Out' = Append(o, m)
    BY <2>6, <2>7, <2>8
  <2> QED  BY <1>3, <2>5, <2>9
<1> QED  BY <1>1, <1>3, <1>5, <1>6, <1>7, <1>8 DEF Mux!Emit, Out

\* Every step of the threads is a step of the multiplexer or leaves it alone.
LEMMA StepRefines == MuxInv /\ [Next]_vars => [Mux!Next]_Mux!muxVars
<1> SUFFICES ASSUME MuxInv, Next PROVE [Mux!Next]_Mux!muxVars
  <2>1. UNCHANGED vars => UNCHANGED Mux!muxVars
    BY DEF vars, Mux!muxVars
  <2> QED  BY <2>1
<1>1. CASE Ended
  BY <1>1 DEF Ended, vars, Mux!muxVars
<1>2. CASE ~ exited /\ StepKinds
  <2>1. ASSUME NEW a \in Apps, BuildMessage(a) PROVE Mux!Submit(a)
    <3>1. /\ count[a] < N /\ count' = [count EXCEPT ![a] = @ + 1] /\ UNCHANGED <<wire, exited>>
      BY <2>1 DEF BuildMessage, netVars
    <3> QED  BY <1>2, <3>1 DEF Mux!Submit
  <2>2. ASSUME NEW a \in Apps, WriteMessage(a) PROVE UNCHANGED <<count, wire, exited>>
    BY <2>2 DEF WriteMessage, netVars
  <2>3. ASSUME NEW p \in Protos, ReadUnit(p) \/ AddHdr(p) \/ WriteUnit(p) \/ Unlock(p)
        PROVE  UNCHANGED <<count, wire, exited>>
    BY <2>3 DEF ReadUnit, AddHdr, WriteUnit, Unlock, appVars, netVars
  <2>4. CASE SendToFails \/ MainReturns
    BY <1>2, <2>4 DEF SendToFails, MainReturns, appVars, netVars, Mux!Next, Mux!Stop
  <2>5. CASE OverwriteRemaddr
    BY <2>5 DEF OverwriteRemaddr, appVars, Mux!muxVars
  <2>6. UNCHANGED <<count, wire, exited>> => UNCHANGED Mux!muxVars
    BY DEF Mux!muxVars
  <2> QED  BY <1>2, <2>1, <2>2, <2>3, <2>4, <2>5, <2>6, SendToEmits DEF StepKinds, Mux!Next
<1> QED  BY <1>1, <1>2, StepCases DEF Next

\* The threads, pipes and mutexes together are a FIFO multiplexer: each
\* application's messages reach the wire in the order it built them, each at
\* most once, whatever the interleaving.
THEOREM MuxRefined == Spec => ImplementsMux
<1>1. Init => Mux!Init
  BY DEF Init, Mux!Init
<1> QED  BY <1>1, InitMuxInv, NextMuxInv, StepRefines, PTL DEF Spec, ImplementsMux, Mux!Spec
=============================================================================
