--------------------------- MODULE PPReceiveProofs ---------------------------
(***************************************************************************)
(* Theorems about PPReceive, for any number of datagrams and any size of   *)
(* the pipes.                                                              *)
(***************************************************************************)
EXTENDS PPReceive, TLAPS

-----------------------------------------------------------------------------
(* Facts about queues.                                                     *)
Has(s, x)     == \E n \in DOMAIN s : s[n] = x
Increasing(s) == \A j, k \in DOMAIN s : j < k => s[j] < s[k]

\* What is written to a pipe is behind everything in it.
LEMMA AppendFacts ==
  ASSUME NEW S \in SUBSET Nat, NEW s \in Seq(S), NEW x \in S
  PROVE  /\ Append(s, x) \in Seq(S) /\ Len(Append(s, x)) = Len(s) + 1
         /\ \A y : Has(Append(s, x), y) <=> (Has(s, y) \/ y = x)
         /\ Increasing(s) /\ (\A y \in S : Has(s, y) => y < x) => Increasing(Append(s, x))
<1>1. /\ Append(s, x) \in Seq(S) /\ Len(Append(s, x)) = Len(s) + 1
      /\ Append(s, x)[Len(s) + 1] = x /\ \A n \in 1..Len(s) : Append(s, x)[n] = s[n]
  OBVIOUS
<1>2. DOMAIN s = 1..Len(s) /\ DOMAIN Append(s, x) = 1..(Len(s) + 1) /\ Len(s) \in Nat
  BY <1>1
<1>3. \A n \in 1..(Len(s) + 1) : n \in 1..Len(s) \/ n = Len(s) + 1
  BY <1>2
<1>4. \A y : Has(Append(s, x), y) <=> (Has(s, y) \/ y = x)
  BY <1>1, <1>2, <1>3 DEF Has
<1>5. ASSUME Increasing(s), \A y \in S : Has(s, y) => y < x PROVE Increasing(Append(s, x))
  <2>1. ASSUME NEW n \in 1..Len(s) PROVE s[n] < x
    <3>1. s[n] \in S
      OBVIOUS
    <3>2. Has(s, s[n])
      BY <1>2 DEF Has
    <3> QED  BY <1>5, <3>1, <3>2
  <2> QED  BY <1>1, <1>2, <1>3, <1>5, <2>1 DEF Increasing
<1> QED  BY <1>1, <1>4, <1>5

\* What is read from a pipe was ahead of everything in it.
LEMMA TailFacts ==
  ASSUME NEW S \in SUBSET Nat, NEW s \in Seq(S), s # << >>
  PROVE  /\ Tail(s) \in Seq(S) /\ Len(Tail(s)) = Len(s) - 1 /\ Head(s) \in S
         /\ \A y : Has(s, y) <=> (Has(Tail(s), y) \/ y = Head(s))
         /\ Increasing(s) => Increasing(Tail(s)) /\ \A y \in S : Has(Tail(s), y) => Head(s) < y
<1>1. /\ Tail(s) \in Seq(S) /\ Len(Tail(s)) = Len(s) - 1 /\ Head(s) = s[1] /\ Len(s) >= 1
      /\ \A n \in 1..(Len(s) - 1) : Tail(s)[n] = s[n + 1]
  OBVIOUS
<1>2. DOMAIN s = 1..Len(s) /\ DOMAIN Tail(s) = 1..(Len(s) - 1) /\ Len(s) \in Nat
  BY <1>1
<1>3. /\ \A n \in 1..Len(s) : n = 1 \/ n - 1 \in 1..(Len(s) - 1)
      /\ \A n \in 1..(Len(s) - 1) : n + 1 \in 1..Len(s) /\ 1 < n + 1
      /\ 1 \in 1..Len(s) /\ \A n \in 1..Len(s) : n - 1 + 1 = n
  BY <1>1, <1>2
<1>4. ASSUME NEW y PROVE Has(s, y) <=> (Has(Tail(s), y) \/ y = Head(s))
  <2>1. ASSUME NEW n \in 1..Len(s), s[n] = y PROVE Has(Tail(s), y) \/ y = Head(s)
    <3>1. CASE n = 1
      BY <1>1, <2>1, <3>1
    <3>2. CASE n - 1 \in 1..(Len(s) - 1)
      <4>1. Tail(s)[n - 1] = y
        BY <1>1, <1>3, <2>1, <3>2
      <4> QED  BY <1>2, <3>2, <4>1 DEF Has
    <3> QED  BY <1>3, <3>1, <3>2
  <2>2. Has(Tail(s), y) => Has(s, y)
    BY <1>1, <1>2, <1>3 DEF Has
  <2>3. Has(s, Head(s))
    BY <1>1, <1>2, <1>3 DEF Has
  <2> QED  BY <1>2, <2>1, <2>2, <2>3 DEF Has
<1>5. ASSUME Increasing(s)
      PROVE  Increasing(Tail(s)) /\ \A y \in S : Has(Tail(s), y) => Head(s) < y
  <2>1. \A n \in 1..(Len(s) - 1) : Head(s) < Tail(s)[n]
    BY <1>1, <1>2, <1>3, <1>5 DEF Increasing
  <2>2. Increasing(Tail(s))
    BY <1>1, <1>2, <1>3, <1>5 DEF Increasing
  <2> QED  BY <1>2, <2>1, <2>2 DEF Has
<1>6. Head(s) \in S
  BY <1>1, <1>2, <1>3
<1> QED  BY <1>1, <1>4, <1>5, <1>6

-----------------------------------------------------------------------------
(* Where a Message is.  In(k, p, d): datagram d is in p's place of kind k. *)
(* What is being received is Ethernet's, and so is what was dropped.       *)
Kinds == {"arriving", "pipe", "hand", "counted", "dropped"}

In(k, p, d) ==
  \/ k = "arriving" /\ p = Ethernet /\ stage[Ethernet] = "copy" /\ d = Len(rx)
  \/ k = "pipe" /\ Has(recvPipe[p], d)
  \/ k = "hand" /\ hand[p] = d
  \/ k = "counted" /\ p \in AppProtos /\ Has(counted[p], d)
  \/ k = "dropped" /\ p = Ethernet /\ d \in dropped

\* The protocols below p, which a Message on its way to p passes.
Carriers(p) == IF p = Ethernet THEN {}
               ELSE IF p = IP THEN {Ethernet}
               ELSE IF p \in {TCP, UDP} THEN {Ethernet, IP}
               ELSE {Ethernet, IP, Transport(p)}

Rank(k) == IF k = "counted" THEN 0 ELSE IF k = "hand" THEN 1 ELSE IF k = "pipe" THEN 2 ELSE 3

\* A Message in p's place k is ahead of one in q's place j.
Ahead(k, p, j, q) == /\ k # "dropped" /\ j # "dropped"
                     /\ q \in Carriers(p) \/ (p = q /\ Rank(k) < Rank(j))

-----------------------------------------------------------------------------
(* The parts of the inductive invariant.                                   *)

\* Where each thread's loop can stand, and that it has a Message there.
StageInv ==
  /\ stage[Ethernet] \in {"read", "copy", "write"}
  /\ hand[Ethernet] # 0 <=> stage[Ethernet] = "write"
  /\ recvPipe[Ethernet] = << >>
  /\ \A p \in Protos \ {Ethernet} : /\ stage[p] \in {"read", "got", "route"}
                                    /\ hand[p] # 0 <=> stage[p] # "read"
  /\ \A a \in AppProtos : stage[a] # "route"
  /\ copying # {} => stage[Ethernet] = "copy"
  /\ stage[Ethernet] = "copy" => Len(rx) # 0

\* Every datagram received is in one place.
UniqueInv ==
  /\ \A d \in 1..MaxRecv : \A k, j \in Kinds : \A p, q \in Protos :
       In(k, p, d) /\ In(j, q, d) => k = j /\ p = q
  /\ \A d \in 1..MaxRecv : d \in Received <=> \E k \in Kinds : \E p \in Protos : In(k, p, d)

\* Messages that are ahead arrived earlier.
OrderInv ==
  /\ \A d, e \in 1..MaxRecv : \A k, j \in Kinds : \A p, q \in Protos :
       In(k, p, d) /\ In(j, q, e) /\ Ahead(k, p, j, q) => d < e
  /\ \A p \in Protos : Increasing(recvPipe[p])
  /\ \A a \in AppProtos : Increasing(counted[a])

\* How much has been stripped from a Message, by where it is.
Stripped(p) == IF p = IP THEN 16 ELSE IF p \in {TCP, UDP} THEN 36 ELSE 48

StrippedIn(k, p) == IF k = "arriving" THEN 0
                    ELSE IF p = Ethernet THEN 16
                    ELSE IF k = "counted" \/ (k = "hand" /\ stage[p] = "route") THEN Stripped(p) + SizeOf(p)
                    ELSE Stripped(p)

OffInv ==
  /\ \A d \in 1..MaxRecv : \A k \in Kinds \ {"dropped"} : \A p \in Protos :
       In(k, p, d) => off[d] = StrippedIn(k, p)
  /\ \A d \in 1..MaxRecv : d \notin Received => off[d] = 0
  /\ \A d \in 1..MaxRecv : In("dropped", Ethernet, d) => off[d] \in {36, 48}

\* buf holds the newest datagram, but for what recvfrom has yet to fill, and
\* until[d] has followed the newest while d could be misread.
BufInv ==
  /\ \A f \in Fields : LET e == IF f \in copying THEN Len(rx) - 1 ELSE Len(rx) IN
       e >= 1 => buf[f] = FrameField(rx[e], f)
  /\ \A d \in Received : /\ d <= until[d] /\ until[d] <= Len(rx)
                         /\ off[d] <= 36 => until[d] = Len(rx)

\* A datagram that d may have been taken for uses transport t; is of application a.
SeenTransport(d, t) == \E e \in d..until[d] : Transport(rx[e]) = t
SeenApp(d, a)       == \E e \in d..until[d] : rx[e] = a

RouteAt(d) ==
  /\ In("hand", IP, d) /\ stage[IP] = "route" => SeenTransport(d, hlp[IP])
  /\ \A t \in {TCP, UDP} :
       /\ In("pipe", t, d) \/ In("hand", t, d) => SeenTransport(d, t)
       /\ In("hand", t, d) /\ stage[t] = "route" => SeenApp(d, hlp[t])
  /\ \A a \in AppProtos : \A k \in {"pipe", "hand", "counted"} : In(k, a, d) => SeenApp(d, a)
  /\ In("dropped", Ethernet, d) => SeenTransport(d, TCP) /\ SeenTransport(d, UDP)

RouteInv == \A d \in 1..MaxRecv : RouteAt(d)

IInv == TypeOK /\ StageInv /\ UniqueInv /\ OrderInv /\ OffInv /\ BufInv /\ RouteInv

\* Datagram d goes from where it is to q's place of kind j, and no other moves.
Moved(d, j, q) ==
  /\ d \in 1..MaxRecv
  /\ \A i \in Kinds : \A r \in Protos : In(i, r, d)' <=> i = j /\ r = q
  /\ \A e \in 1..MaxRecv \ {d} : \A i \in Kinds : \A r \in Protos : In(i, r, e)' <=> In(i, r, e)

\* The protocols are eight, and those of the applications four of them.
LEMMA ProtoFacts ==
  /\ Protos = {Ethernet, IP, TCP, UDP, FTP, Telnet, RDP, DNSC}
  /\ AppProtos = {FTP, Telnet, RDP, DNSC} /\ AppProtos \subseteq Protos /\ Apps \subseteq AppProtos
  /\ Ethernet \notin {IP, TCP, UDP} \cup AppProtos /\ IP \notin {TCP, UDP} \cup AppProtos
  /\ TCP \notin AppProtos \cup {UDP} /\ UDP \notin AppProtos
  /\ Protos \subseteq 0..8 /\ Protos \subseteq Nat
  BY AppsAssumption DEF Protos, AppProtos, Ethernet, IP, TCP, UDP, FTP, Telnet, RDP, DNSC

\* A function updated with a value of its range keeps its type.
LEMMA Update ==
  ASSUME NEW S, NEW T, NEW f \in [S -> T], NEW x, NEW v \in T, NEW g, g = [f EXCEPT ![x] = v]
  PROVE  g \in [S -> T]
  OBVIOUS

\* The facts about queues, for pipes and counters.
LEMMA PipeFacts ==
  /\ \A s \in Seq(1..MaxRecv) : \A x \in 1..MaxRecv :
       /\ Append(s, x) \in Seq(1..MaxRecv) /\ Len(Append(s, x)) = Len(s) + 1
       /\ \A y : Has(Append(s, x), y) <=> (Has(s, y) \/ y = x)
       /\ Increasing(s) /\ (\A y \in 1..MaxRecv : Has(s, y) => y < x) => Increasing(Append(s, x))
  /\ \A s \in Seq(1..MaxRecv) : s # << >> =>
       /\ Tail(s) \in Seq(1..MaxRecv) /\ Len(Tail(s)) = Len(s) - 1 /\ Head(s) \in 1..MaxRecv
       /\ \A y : Has(s, y) <=> (Has(Tail(s), y) \/ y = Head(s))
       /\ Increasing(s) => Increasing(Tail(s)) /\ \A y \in 1..MaxRecv : Has(Tail(s), y) => Head(s) < y
  /\ \A s \in Seq(1..MaxRecv) : Len(s) \in Nat /\ \A y : Has(s, y) => y \in 1..MaxRecv
<1> DEFINE S == 1..MaxRecv
<1>1. S \in SUBSET Nat
  OBVIOUS
<1>2. ASSUME NEW s \in Seq(S), NEW y, Has(s, y) PROVE y \in S
  <2>1. PICK n \in DOMAIN s : s[n] = y
    BY <1>2 DEF Has
  <2> HIDE DEF S
  <2> QED  BY <2>1
<1> HIDE DEF S
<1>3. /\ \A s \in Seq(S) : \A x \in S :
           /\ Append(s, x) \in Seq(S) /\ Len(Append(s, x)) = Len(s) + 1
           /\ \A y : Has(Append(s, x), y) <=> (Has(s, y) \/ y = x)
           /\ Increasing(s) /\ (\A y \in S : Has(s, y) => y < x) => Increasing(Append(s, x))
      /\ \A s \in Seq(S) : s # << >> =>
           /\ Tail(s) \in Seq(S) /\ Len(Tail(s)) = Len(s) - 1 /\ Head(s) \in S
           /\ \A y : Has(s, y) <=> (Has(Tail(s), y) \/ y = Head(s))
           /\ Increasing(s) => Increasing(Tail(s)) /\ \A y \in S : Has(Tail(s), y) => Head(s) < y
  BY <1>1, AppendFacts, TailFacts
<1>4. \A s \in Seq(S) : Len(s) \in Nat
  OBVIOUS
<1> QED  BY <1>2, <1>3, <1>4 DEF S

\* A datagram arrives: it is nowhere else, and newer than all others.
LEMMA RecvFromBasics ==
  ASSUME IInv, NEW a \in Apps, RecvFrom(a), NEW d \in Nat, d = Len(rx) + 1
  PROVE  TypeOK' /\ StageInv' /\ Moved(d, "arriving", Ethernet)
<1>1. /\ Len(rx) \in Nat /\ Len(rx') = d /\ rx' \in Seq(Apps) /\ d \in 1..MaxRecv /\ d # 0
  <2>1. rx \in Seq(Apps) /\ rx' = Append(rx, a) /\ Len(rx) < MaxRecv
    BY DEF IInv, TypeOK, RecvFrom
  <2> QED  BY <2>1, MaxRecvAssumption
<1>2. /\ stage' = [stage EXCEPT ![Ethernet] = "copy"] /\ copying' = Fields
      /\ UNCHANGED <<buf, hand, off, hlp, recvPipe, counted, dropped>>
      /\ stage[Ethernet] = "read"
      /\ until' = [n \in 1..MaxRecv |-> IF n \in Unrouted \cup {Len(rx')} THEN Len(rx') ELSE until[n]]
  BY DEF RecvFrom
<1>3. TypeOK'
  <2>1. until' \in [1..MaxRecv -> 0..MaxRecv]
    BY <1>1, <1>2 DEF IInv, TypeOK
  <2>2. stage' \in [Protos -> Stages]
    BY <1>2 DEF IInv, TypeOK, Stages
  <2> QED  BY <1>1, <1>2, <2>1, <2>2 DEF IInv, TypeOK
<1>4. StageInv'
  BY <1>1, <1>2, ProtoFacts DEF IInv, TypeOK, StageInv
<1>5. \A i \in Kinds : \A r \in Protos : ~ In(i, r, d)
  BY <1>1 DEF IInv, UniqueInv, Received
<1>6. \A e \in 1..MaxRecv \ {d} : \A i \in Kinds : \A r \in Protos : In(i, r, e)' <=> In(i, r, e)
  BY <1>1, <1>2 DEF In
<1>7. stage'[Ethernet] = "copy"
  BY <1>2, ProtoFacts DEF IInv, TypeOK
<1>8. \A r \in Protos : In("arriving", r, d)' <=> r = Ethernet
  BY <1>1, <1>7 DEF In
<1>9. \A i \in Kinds \ {"arriving"} : \A r \in Protos : ~ In(i, r, d)'
  BY <1>2, <1>5 DEF In
<1> QED  BY <1>1, <1>3, <1>4, <1>6, <1>8, <1>9 DEF Moved, Kinds

\* Where everything stays.
Still == \A e \in 1..MaxRecv : \A i \in Kinds : \A r \in Protos : In(i, r, e)' <=> In(i, r, e)

\* A datagram in one place is in no other.
LEMMA OnePlace ==
  ASSUME UniqueInv, NEW d \in 1..MaxRecv, NEW k \in Kinds, NEW p \in Protos, In(k, p, d)
  PROVE  \A i \in Kinds : \A r \in Protos : In(i, r, d) <=> i = k /\ r = p
  BY DEF UniqueInv

\* Bytes of a datagram are copied: nothing moves.
LEMMA CopyFieldBasics ==
  ASSUME IInv, NEW f \in Fields, CopyField(f)
  PROVE  TypeOK' /\ StageInv' /\ Still
<1>1. /\ UNCHANGED <<rx, until, stage, hand, off, hlp, recvPipe, counted, dropped>>
      /\ copying' = copying \ {f} /\ f \in copying
      /\ buf' = [buf EXCEPT ![f] = FrameField(rx[Len(rx)], f)]
  BY DEF CopyField, history
<1>2. rx[Len(rx)] \in Apps
  <2>1. rx \in Seq(Apps) /\ Len(rx) # 0
    BY <1>1 DEF IInv, TypeOK, StageInv
  <2> QED  BY <2>1
<1>3. FrameField(rx[Len(rx)], f) \in 0..8
  BY <1>2, ProtoFacts DEF FrameField, Transport
<1>4. TypeOK'
  BY <1>1, <1>3 DEF IInv, TypeOK
<1>5. StageInv'
  BY <1>1 DEF IInv, StageInv
<1>6. Still
  BY <1>1 DEF Still, In
<1> QED  BY <1>4, <1>5, <1>6

\* The Message is made: the receiving thread has it in hand.
LEMMA NewMessageBasics ==
  ASSUME IInv, NewMessage, NEW d \in Nat, d = Len(rx)
  PROVE  TypeOK' /\ StageInv' /\ In("arriving", Ethernet, d) /\ Moved(d, "hand", Ethernet)
<1>1. /\ UNCHANGED <<rx, until, buf, copying, hlp, recvPipe, counted, dropped>>
      /\ hand' = [hand EXCEPT ![Ethernet] = d] /\ off' = [off EXCEPT ![d] = 16]
      /\ stage[Ethernet] = "copy" /\ copying = {} /\ stage' = [stage EXCEPT ![Ethernet] = "write"]
  BY DEF NewMessage, history, bufVars, SizeOf, Ethernet, IP, RDP, TCP, UDP
<1>2. d \in 1..MaxRecv /\ d # 0 /\ In("arriving", Ethernet, d) /\ hand[Ethernet] = 0
  BY <1>1 DEF IInv, TypeOK, StageInv, In
<1>3. TypeOK'
  <2>0. /\ stage \in [Protos -> Stages] /\ off \in [1..MaxRecv -> 0..BUFSIZE]
        /\ hand \in [Protos -> 0..MaxRecv]
    BY DEF IInv, TypeOK
  <2>1. stage' \in [Protos -> Stages]
    BY <1>1, <2>0 DEF Stages
  <2>2. off' \in [1..MaxRecv -> 0..BUFSIZE]
    <3>1. 16 \in 0..BUFSIZE
      BY DEF BUFSIZE
    <3> QED  BY <1>1, <2>0, <3>1, Update
  <2>3. hand' \in [Protos -> 0..MaxRecv]
    <3>1. d \in 0..MaxRecv
      BY <1>2
    <3> QED  BY <1>1, <2>0, <3>1, Update
  <2> QED  BY <1>1, <2>1, <2>2, <2>3 DEF IInv, TypeOK
<1>4. StageInv'
  BY <1>1, <1>2, ProtoFacts DEF IInv, TypeOK, StageInv
<1>5. \A i \in Kinds : \A r \in Protos : In(i, r, d) <=> i = "arriving" /\ r = Ethernet
  BY <1>2, OnePlace, ProtoFacts DEF IInv, Kinds
<1>6. stage'[Ethernet] = "write" /\ hand'[Ethernet] = d /\ \A r \in Protos \ {Ethernet} : hand'[r] = hand[r]
  BY <1>1, ProtoFacts DEF IInv, TypeOK
<1>7. \A i \in Kinds : \A r \in Protos : In(i, r, d)' <=> i = "hand" /\ r = Ethernet
  BY <1>1, <1>5, <1>6 DEF In, Kinds
<1>8. \A e \in 1..MaxRecv \ {d} : \A i \in Kinds : \A r \in Protos : In(i, r, e)' <=> In(i, r, e)
  BY <1>1, <1>2, <1>6 DEF In
<1> QED  BY <1>2, <1>3, <1>4, <1>7, <1>8 DEF Moved

\* The receiving thread writes the Message to the first pipe.
LEMMA WriteToIPBasics ==
  ASSUME IInv, WriteToIP, NEW d \in Nat, d = hand[Ethernet]
  PROVE  TypeOK' /\ StageInv' /\ In("hand", Ethernet, d) /\ Moved(d, "pipe", IP)
<1>1. /\ UNCHANGED <<rx, until, buf, copying, off, hlp, counted, dropped>>
      /\ hand' = [hand EXCEPT ![Ethernet] = 0]
      /\ recvPipe' = [recvPipe EXCEPT ![IP] = Append(@, d)] /\ Len(recvPipe[IP]) < PipeCap
      /\ stage[Ethernet] = "write" /\ stage' = [stage EXCEPT ![Ethernet] = "read"]
  BY DEF WriteToIP, history, bufVars
<1>2. d \in 1..MaxRecv /\ d # 0 /\ In("hand", Ethernet, d)
  BY <1>1, ProtoFacts DEF IInv, TypeOK, StageInv, In
<1>3. /\ recvPipe[IP] \in Seq(1..MaxRecv) /\ recvPipe'[IP] = Append(recvPipe[IP], d)
      /\ \A r \in Protos \ {IP} : recvPipe'[r] = recvPipe[r]
  BY <1>1, ProtoFacts DEF IInv, TypeOK
<1>4. /\ recvPipe'[IP] \in Seq(1..MaxRecv) /\ Len(recvPipe'[IP]) = Len(recvPipe[IP]) + 1
      /\ \A y : Has(recvPipe'[IP], y) <=> (Has(recvPipe[IP], y) \/ y = d)
  BY <1>2, <1>3, PipeFacts
<1>5. TypeOK'
  <2>0. /\ stage \in [Protos -> Stages] /\ hand \in [Protos -> 0..MaxRecv]
        /\ recvPipe \in [Protos -> Seq(1..MaxRecv)] /\ \A r \in Protos : Len(recvPipe[r]) <= PipeCap
    BY DEF IInv, TypeOK
  <2>1. stage' \in [Protos -> Stages] /\ hand' \in [Protos -> 0..MaxRecv]
    <3>1. 0 \in 0..MaxRecv /\ "read" \in Stages
      BY MaxRecvAssumption DEF Stages
    <3> QED  BY <1>1, <2>0, <3>1, Update
  <2>2. recvPipe' \in [Protos -> Seq(1..MaxRecv)]
    BY <1>1, <1>3, <1>4, <2>0
  <2>3. Len(recvPipe'[IP]) <= PipeCap
    BY <1>1, <1>3, <1>4, <2>0, PipeCapAssumption, ProtoFacts
  <2>4. \A r \in Protos : Len(recvPipe'[r]) <= PipeCap
    BY <1>3, <2>0, <2>3
  <2> QED  BY <1>1, <2>1, <2>2, <2>4 DEF IInv, TypeOK
<1>6. StageInv'
  BY <1>1, <1>3, ProtoFacts DEF IInv, TypeOK, StageInv
<1>7. \A i \in Kinds : \A r \in Protos : In(i, r, d) <=> i = "hand" /\ r = Ethernet
  BY <1>2, OnePlace, ProtoFacts DEF IInv, Kinds
<1>8. stage'[Ethernet] = "read" /\ hand'[Ethernet] = 0 /\ \A r \in Protos \ {Ethernet} : hand'[r] = hand[r]
  BY <1>1, ProtoFacts DEF IInv, TypeOK
<1>9. \A i \in Kinds : \A r \in Protos : In(i, r, d)' <=> i = "pipe" /\ r = IP
  BY <1>1, <1>2, <1>3, <1>4, <1>7, <1>8 DEF In, Kinds
<1>10. \A e \in 1..MaxRecv \ {d} : \A i \in Kinds : \A r \in Protos : In(i, r, e)' <=> In(i, r, e)
  BY <1>1, <1>2, <1>3, <1>4, <1>8 DEF In
<1> QED  BY <1>2, <1>5, <1>6, <1>9, <1>10 DEF Moved

\* A protocol's thread reads the Message at the head of its pipe.
LEMMA ReadUnitBasics ==
  ASSUME IInv, NEW p \in Protos \ {Ethernet}, ReadUnit(p), NEW d, d = Head(recvPipe[p])
  PROVE  /\ TypeOK' /\ StageInv' /\ In("pipe", p, d) /\ Moved(d, "hand", p)
         /\ \A e \in 1..MaxRecv : In("pipe", p, e)' => d < e
         /\ Increasing(recvPipe'[p])
<1>1. /\ UNCHANGED <<rx, until, buf, copying, off, hlp, counted, dropped>>
      /\ hand' = [hand EXCEPT ![p] = d]
      /\ recvPipe' = [recvPipe EXCEPT ![p] = Tail(@)] /\ recvPipe[p] # << >>
      /\ stage[p] = "read" /\ stage' = [stage EXCEPT ![p] = "got"]
  BY DEF ReadUnit, history, bufVars
<1>2. /\ stage \in [Protos -> Stages] /\ hand \in [Protos -> 0..MaxRecv]
      /\ recvPipe \in [Protos -> Seq(1..MaxRecv)] /\ \A r \in Protos : Len(recvPipe[r]) <= PipeCap
  BY DEF IInv, TypeOK
<1>3. /\ recvPipe'[p] = Tail(recvPipe[p]) /\ \A r \in Protos \ {p} : recvPipe'[r] = recvPipe[r]
      /\ stage'[p] = "got" /\ \A r \in Protos \ {p} : stage'[r] = stage[r]
      /\ hand'[p] = d /\ \A r \in Protos \ {p} : hand'[r] = hand[r]
  BY <1>1, <1>2
<1>4. /\ recvPipe'[p] \in Seq(1..MaxRecv) /\ Len(recvPipe'[p]) = Len(recvPipe[p]) - 1
      /\ Len(recvPipe[p]) \in Nat /\ d \in 1..MaxRecv
      /\ \A y : Has(recvPipe[p], y) <=> (Has(recvPipe'[p], y) \/ y = d)
      /\ Increasing(recvPipe[p]) => Increasing(recvPipe'[p]) /\ \A y \in 1..MaxRecv : Has(recvPipe'[p], y) => d < y
  BY <1>1, <1>2, <1>3, PipeFacts
<1>5. Increasing(recvPipe'[p]) /\ \A y \in 1..MaxRecv : Has(recvPipe'[p], y) => d < y
  BY <1>4 DEF IInv, OrderInv
<1>6. d # 0 /\ hand[p] = 0 /\ ~ Has(recvPipe'[p], d) /\ In("pipe", p, d) /\ d \in 0..MaxRecv
  BY <1>1, <1>4, <1>5 DEF IInv, StageInv, In
<1>7. TypeOK'
  <2>1. stage' \in [Protos -> Stages] /\ hand' \in [Protos -> 0..MaxRecv]
    <3>1. "got" \in Stages
      BY DEF Stages
    <3> QED  BY <1>1, <1>2, <1>6, <3>1, Update
  <2>2. recvPipe' \in [Protos -> Seq(1..MaxRecv)]
    BY <1>1, <1>2, <1>3, <1>4, Update
  <2>3. Len(recvPipe'[p]) <= PipeCap
    BY <1>2, <1>4, PipeCapAssumption
  <2>4. \A r \in Protos : Len(recvPipe'[r]) <= PipeCap
    BY <1>2, <1>3, <2>3
  <2> QED  BY <1>1, <2>1, <2>2, <2>4 DEF IInv, TypeOK
<1>8. StageInv'
  <2>1. StageInv /\ p # Ethernet /\ Ethernet \in Protos /\ AppProtos \subseteq Protos
    BY ProtoFacts DEF IInv
  <2> QED  BY <1>1, <1>3, <1>6, <2>1 DEF StageInv
<1>9. \A i \in Kinds : \A r \in Protos : In(i, r, d) <=> i = "pipe" /\ r = p
  BY <1>4, <1>6, OnePlace DEF IInv, Kinds
<1>10. \A i \in Kinds : \A r \in Protos : In(i, r, d)' <=> i = "hand" /\ r = p
  BY <1>1, <1>3, <1>6, <1>9 DEF In, Kinds
<1>11. \A e \in 1..MaxRecv \ {d} : \A i \in Kinds : \A r \in Protos : In(i, r, e)' <=> In(i, r, e)
  BY <1>1, <1>3, <1>4, <1>6 DEF In
<1> QED  BY <1>4, <1>5, <1>6, <1>7, <1>8, <1>10, <1>11 DEF Moved, In

\* A layer strips its header at the offset it should; the Message stays in hand.
LEMMA StripHdrBasics ==
  ASSUME IInv, NEW p \in {IP, TCP, UDP}, StripHdr(p), NEW d, d = hand[p]
  PROVE  /\ TypeOK' /\ StageInv' /\ Still /\ d \in 1..MaxRecv /\ Stripped(p) \in Fields
         /\ hlp'[p] = buf[Stripped(p)] /\ off'[d] = Stripped(p) + SizeOf(p)
         /\ off[d] = Stripped(p) /\ \A e \in 1..MaxRecv \ {d} : off'[e] = off[e]
<1>1. /\ UNCHANGED <<rx, until, buf, copying, hand, recvPipe, counted, dropped>>
      /\ hlp' = [hlp EXCEPT ![p] = buf[off[d]]] /\ off' = [off EXCEPT ![d] = @ + SizeOf(p)]
      /\ stage[p] = "got" /\ stage' = [stage EXCEPT ![p] = "route"]
  BY DEF StripHdr, history, bufVars
<1>2. /\ stage \in [Protos -> Stages] /\ hand \in [Protos -> 0..MaxRecv] /\ hlp \in [Protos -> 0..8]
      /\ off \in [1..MaxRecv -> 0..BUFSIZE] /\ buf \in [Fields -> 0..8]
  BY DEF IInv, TypeOK
<1>3. p \in Protos \ {Ethernet} /\ p \notin AppProtos /\ AppProtos \subseteq Protos /\ Ethernet \in Protos
  BY ProtoFacts
<1>4. d \in 1..MaxRecv /\ In("hand", p, d)
  <2>1. hand[p] # 0 /\ hand[p] \in 0..MaxRecv
    BY <1>1, <1>2, <1>3 DEF IInv, StageInv
  <2> QED  BY <2>1, MaxRecvAssumption DEF In
<1>5. off[d] = Stripped(p)
  <2>1. StrippedIn("hand", p) = Stripped(p)
    BY <1>1, <1>3 DEF StrippedIn
  <2> QED  BY <1>3, <1>4, <2>1 DEF IInv, OffInv, Kinds
<1>6. Stripped(p) \in Fields /\ Stripped(p) + SizeOf(p) \in 0..BUFSIZE
  BY DEF Stripped, SizeOf, Fields, BUFSIZE, IP, TCP, UDP, RDP
<1>7. TypeOK'
  <2>1. buf[off[d]] \in 0..8 /\ "route" \in Stages
    BY <1>2, <1>5, <1>6 DEF Stages
  <2>2. off' = [off EXCEPT ![d] = Stripped(p) + SizeOf(p)]
    BY <1>1, <1>5
  <2>3. off' \in [1..MaxRecv -> 0..BUFSIZE]
    BY <1>2, <1>6, <2>2, Update
  <2>4. stage' \in [Protos -> Stages] /\ hlp' \in [Protos -> 0..8]
    BY <1>1, <1>2, <2>1, Update
  <2> QED  BY <1>1, <2>3, <2>4 DEF IInv, TypeOK
<1>8. stage'[p] = "route" /\ \A r \in Protos \ {p} : stage'[r] = stage[r]
  BY <1>1, <1>2, <1>3
<1>9. StageInv'
  <2>1. StageInv
    BY DEF IInv
  <2> QED  BY <1>1, <1>3, <1>8, <2>1 DEF StageInv
<1>10. Still
  BY <1>1, <1>3, <1>8 DEF Still, In
<1>11. hlp'[p] = buf[off[d]] /\ off'[d] = off[d] + SizeOf(p) /\ \A e \in 1..MaxRecv \ {d} : off'[e] = off[e]
  BY <1>1, <1>2, <1>3, <1>4
<1> QED  BY <1>4, <1>5, <1>6, <1>7, <1>9, <1>10, <1>11

\* A layer writes the Message to the pipe its hlp names.
LEMMA DemultiplexBasics ==
  ASSUME IInv, NEW p \in {IP, TCP, UDP}, Demultiplex(p), NEW d, d = hand[p], NEW q, q = hlp[p]
  PROVE  /\ TypeOK' /\ StageInv' /\ In("hand", p, d) /\ Moved(d, "pipe", q)
         /\ q \in Routes(p) /\ stage[p] = "route"
         /\ (\A y \in 1..MaxRecv : In("pipe", q, y) => y < d) => Increasing(recvPipe'[q])
<1>1. /\ UNCHANGED <<rx, until, buf, copying, off, counted, dropped>>
      /\ hand' = [hand EXCEPT ![p] = 0] /\ hlp' = [hlp EXCEPT ![p] = 0]
      /\ recvPipe' = [recvPipe EXCEPT ![q] = Append(@, d)] /\ Len(recvPipe[q]) < PipeCap
      /\ stage[p] = "route" /\ stage' = [stage EXCEPT ![p] = "read"] /\ q \in Routes(p)
  BY DEF Demultiplex, history, bufVars
<1>2. /\ stage \in [Protos -> Stages] /\ hand \in [Protos -> 0..MaxRecv] /\ hlp \in [Protos -> 0..8]
      /\ recvPipe \in [Protos -> Seq(1..MaxRecv)] /\ \A r \in Protos : Len(recvPipe[r]) <= PipeCap
  BY DEF IInv, TypeOK
<1>3. p \in Protos \ {Ethernet} /\ q \in Protos \ {Ethernet} /\ AppProtos \subseteq Protos /\ Ethernet \in Protos
  BY <1>1, ProtoFacts DEF Routes
<1>4. d \in 1..MaxRecv /\ d # 0 /\ In("hand", p, d)
  <2>1. hand[p] # 0 /\ hand[p] \in 0..MaxRecv
    BY <1>1, <1>2, <1>3 DEF IInv, StageInv
  <2> QED  BY <2>1, MaxRecvAssumption DEF In
<1>5. /\ recvPipe'[q] = Append(recvPipe[q], d) /\ \A r \in Protos \ {q} : recvPipe'[r] = recvPipe[r]
      /\ stage'[p] = "read" /\ \A r \in Protos \ {p} : stage'[r] = stage[r]
      /\ hand'[p] = 0 /\ \A r \in Protos \ {p} : hand'[r] = hand[r]
  BY <1>1, <1>2, <1>3
<1>6. /\ recvPipe'[q] \in Seq(1..MaxRecv) /\ Len(recvPipe'[q]) = Len(recvPipe[q]) + 1
      /\ Len(recvPipe[q]) \in Nat
      /\ \A y : Has(recvPipe'[q], y) <=> (Has(recvPipe[q], y) \/ y = d)
      /\ Increasing(recvPipe[q]) /\ (\A y \in 1..MaxRecv : Has(recvPipe[q], y) => y < d) => Increasing(recvPipe'[q])
  BY <1>2, <1>3, <1>4, <1>5, PipeFacts
<1>7. TypeOK'
  <2>1. stage' \in [Protos -> Stages] /\ hand' \in [Protos -> 0..MaxRecv] /\ hlp' \in [Protos -> 0..8]
    <3>1. "read" \in Stages /\ 0 \in 0..MaxRecv /\ 0 \in 0..8
      BY MaxRecvAssumption DEF Stages
    <3> QED  BY <1>1, <1>2, <3>1, Update
  <2>2. recvPipe' \in [Protos -> Seq(1..MaxRecv)]
    BY <1>1, <1>2, <1>5, <1>6, Update
  <2>3. Len(recvPipe'[q]) <= PipeCap
    BY <1>1, <1>6, PipeCapAssumption
  <2>4. \A r \in Protos : Len(recvPipe'[r]) <= PipeCap
    BY <1>2, <1>5, <2>3
  <2> QED  BY <1>1, <2>1, <2>2, <2>4 DEF IInv, TypeOK
<1>8. StageInv'
  <2>1. StageInv
    BY DEF IInv
  <2> QED  BY <1>1, <1>3, <1>5, <2>1 DEF StageInv
<1>9. \A i \in Kinds : \A r \in Protos : In(i, r, d) <=> i = "hand" /\ r = p
  BY <1>3, <1>4, OnePlace DEF IInv, Kinds
<1>10. \A i \in Kinds : \A r \in Protos : In(i, r, d)' <=> i = "pipe" /\ r = q
  BY <1>1, <1>3, <1>4, <1>5, <1>6, <1>9 DEF In, Kinds
<1>11. \A e \in 1..MaxRecv \ {d} : \A i \in Kinds : \A r \in Protos : In(i, r, e)' <=> In(i, r, e)
  BY <1>1, <1>3, <1>4, <1>5, <1>6 DEF In
<1>12. (\A y \in 1..MaxRecv : In("pipe", q, y) => y < d) => Increasing(recvPipe'[q])
  BY <1>3, <1>6 DEF IInv, OrderInv, In
<1> QED  BY <1>1, <1>4, <1>7, <1>8, <1>10, <1>11, <1>12 DEF Moved

\* The Message is lost.
LEMMA FallThroughBasics ==
  ASSUME IInv, NEW p \in {IP, TCP, UDP}, FallThrough(p), NEW d, d = hand[p]
  PROVE  TypeOK' /\ StageInv' /\ In("hand", p, d) /\ Moved(d, "dropped", Ethernet) /\ stage[p] = "route"
<1>1. /\ UNCHANGED <<rx, until, buf, copying, off, recvPipe, counted>>
      /\ hand' = [hand EXCEPT ![p] = 0] /\ hlp' = [hlp EXCEPT ![p] = 0] /\ dropped' = dropped \cup {d}
      /\ stage[p] = "route" /\ stage' = [stage EXCEPT ![p] = "read"]
  BY DEF FallThrough, history, bufVars
<1>2. /\ stage \in [Protos -> Stages] /\ hand \in [Protos -> 0..MaxRecv] /\ hlp \in [Protos -> 0..8]
      /\ dropped \subseteq 1..MaxRecv
  BY DEF IInv, TypeOK
<1>3. p \in Protos \ {Ethernet} /\ AppProtos \subseteq Protos /\ Ethernet \in Protos
  BY ProtoFacts
<1>4. d \in 1..MaxRecv /\ d # 0 /\ In("hand", p, d)
  <2>1. hand[p] # 0 /\ hand[p] \in 0..MaxRecv
    BY <1>1, <1>2, <1>3 DEF IInv, StageInv
  <2> QED  BY <2>1, MaxRecvAssumption DEF In
<1>5. /\ stage'[p] = "read" /\ \A r \in Protos \ {p} : stage'[r] = stage[r]
      /\ hand'[p] = 0 /\ \A r \in Protos \ {p} : hand'[r] = hand[r]
  BY <1>1, <1>2, <1>3
<1>6. TypeOK'
  <2>1. stage' \in [Protos -> Stages] /\ hand' \in [Protos -> 0..MaxRecv] /\ hlp' \in [Protos -> 0..8]
    <3>1. "read" \in Stages /\ 0 \in 0..MaxRecv /\ 0 \in 0..8
      BY MaxRecvAssumption DEF Stages
    <3> QED  BY <1>1, <1>2, <3>1, Update
  <2>2. dropped' \subseteq 1..MaxRecv
    BY <1>1, <1>2, <1>4
  <2> QED  BY <1>1, <2>1, <2>2 DEF IInv, TypeOK
<1>7. StageInv'
  <2>1. StageInv
    BY DEF IInv
  <2> QED  BY <1>1, <1>3, <1>5, <2>1 DEF StageInv
<1>8. \A i \in Kinds : \A r \in Protos : In(i, r, d) <=> i = "hand" /\ r = p
  BY <1>3, <1>4, OnePlace DEF IInv, Kinds
<1>9. \A i \in Kinds : \A r \in Protos : In(i, r, d)' <=> i = "dropped" /\ r = Ethernet
  BY <1>1, <1>3, <1>4, <1>5, <1>8 DEF In, Kinds
<1>10. \A e \in 1..MaxRecv \ {d} : \A i \in Kinds : \A r \in Protos : In(i, r, e)' <=> In(i, r, e)
  BY <1>1, <1>3, <1>4, <1>5 DEF In
<1> QED  BY <1>1, <1>4, <1>6, <1>7, <1>9, <1>10 DEF Moved

\* An application counts the Message.
LEMMA CountBasics ==
  ASSUME IInv, NEW a \in AppProtos, Count(a), NEW d, d = hand[a]
  PROVE  /\ TypeOK' /\ StageInv' /\ In("hand", a, d) /\ Moved(d, "counted", a)
         /\ off[d] = 48 /\ off'[d] = 48 + SizeOf(a) /\ \A e \in 1..MaxRecv \ {d} : off'[e] = off[e]
         /\ (\A y \in 1..MaxRecv : In("counted", a, y) => y < d) => Increasing(counted'[a])
<1>1. /\ UNCHANGED <<rx, until, buf, copying, hlp, recvPipe, dropped>>
      /\ hand' = [hand EXCEPT ![a] = 0] /\ off' = [off EXCEPT ![d] = @ + SizeOf(a)]
      /\ counted' = [counted EXCEPT ![a] = Append(@, d)]
      /\ stage[a] = "got" /\ stage' = [stage EXCEPT ![a] = "read"]
  BY DEF Count, history, bufVars
<1>2. /\ stage \in [Protos -> Stages] /\ hand \in [Protos -> 0..MaxRecv]
      /\ off \in [1..MaxRecv -> 0..BUFSIZE] /\ counted \in [AppProtos -> Seq(1..MaxRecv)]
  BY DEF IInv, TypeOK
<1>3. a \in Protos \ {Ethernet} /\ AppProtos \subseteq Protos /\ Ethernet \in Protos
  BY ProtoFacts
<1>4. d \in 1..MaxRecv /\ d # 0 /\ In("hand", a, d)
  <2>1. hand[a] # 0 /\ hand[a] \in 0..MaxRecv
    BY <1>1, <1>2, <1>3 DEF IInv, StageInv
  <2> QED  BY <2>1, MaxRecvAssumption DEF In
<1>5. /\ stage'[a] = "read" /\ \A r \in Protos \ {a} : stage'[r] = stage[r]
      /\ hand'[a] = 0 /\ \A r \in Protos \ {a} : hand'[r] = hand[r]
      /\ counted'[a] = Append(counted[a], d) /\ \A r \in AppProtos \ {a} : counted'[r] = counted[r]
  BY <1>1, <1>2, <1>3
<1>6. off[d] = 48 /\ off'[d] = 48 + SizeOf(a) /\ \A e \in 1..MaxRecv \ {d} : off'[e] = off[e]
  <2>1. StrippedIn("hand", a) = 48
    BY <1>1, <1>3, ProtoFacts DEF StrippedIn, Stripped
  <2>2. off[d] = 48
    BY <1>3, <1>4, <2>1 DEF IInv, OffInv, Kinds
  <2> QED  BY <1>1, <1>2, <1>4, <2>2
<1>7. /\ counted'[a] \in Seq(1..MaxRecv)
      /\ \A y : Has(counted'[a], y) <=> (Has(counted[a], y) \/ y = d)
      /\ Increasing(counted[a]) /\ (\A y \in 1..MaxRecv : Has(counted[a], y) => y < d) => Increasing(counted'[a])
  BY <1>2, <1>4, <1>5, PipeFacts
<1>8. TypeOK'
  <2>1. stage' \in [Protos -> Stages] /\ hand' \in [Protos -> 0..MaxRecv]
    <3>1. "read" \in Stages /\ 0 \in 0..MaxRecv
      BY MaxRecvAssumption DEF Stages
    <3> QED  BY <1>1, <1>2, <3>1, Update
  <2>2. counted' \in [AppProtos -> Seq(1..MaxRecv)]
    BY <1>1, <1>2, <1>5, <1>7, Update
  <2>3. off' \in [1..MaxRecv -> 0..BUFSIZE]
    <3>1. 48 + SizeOf(a) \in 0..BUFSIZE
      BY DEF SizeOf, BUFSIZE
    <3>2. off' = [off EXCEPT ![d] = 48 + SizeOf(a)]
      BY <1>1, <1>6
    <3> QED  BY <1>2, <3>1, <3>2, Update
  <2> QED  BY <1>1, <2>1, <2>2, <2>3 DEF IInv, TypeOK
<1>9. StageInv'
  <2>1. StageInv
    BY DEF IInv
  <2> QED  BY <1>1, <1>3, <1>5, <2>1 DEF StageInv
<1>10. \A i \in Kinds : \A r \in Protos : In(i, r, d) <=> i = "hand" /\ r = a
  BY <1>3, <1>4, OnePlace DEF IInv, Kinds
<1>11. \A i \in Kinds : \A r \in Protos : In(i, r, d)' <=> i = "counted" /\ r = a
  BY <1>1, <1>3, <1>4, <1>5, <1>7, <1>10 DEF In, Kinds
<1>12. \A e \in 1..MaxRecv \ {d} : \A i \in Kinds : \A r \in Protos : In(i, r, e)' <=> In(i, r, e)
  BY <1>1, <1>3, <1>4, <1>5, <1>7 DEF In
<1>13. (\A y \in 1..MaxRecv : In("counted", a, y) => y < d) => Increasing(counted'[a])
  BY <1>7 DEF IInv, OrderInv, In
<1> QED  BY <1>4, <1>6, <1>8, <1>9, <1>11, <1>12, <1>13 DEF Moved

-----------------------------------------------------------------------------
(* What a move does to where Messages are and to their order.              *)

\* A Message that moves is again in one place.
LEMMA MovedUnique ==
  ASSUME UniqueInv, Received' = Received, NEW d \in Received, NEW j \in Kinds, NEW q \in Protos, Moved(d, j, q)
  PROVE  UniqueInv'
  BY DEF UniqueInv, Moved

\* If nothing moves nothing changes.
LEMMA StillUnique == UniqueInv /\ Received' = Received /\ Still => UniqueInv'
  BY DEF UniqueInv, Still

\* The places there are.
Valid(k, p) == /\ k \in {"arriving", "dropped"} => p = Ethernet
               /\ k = "pipe" => p # Ethernet
               /\ k = "counted" => p \in AppProtos

\* Messages are in places there are.
LEMMA InValid ==
  ASSUME StageInv, NEW k \in Kinds, NEW p \in Protos, NEW d, In(k, p, d)
  PROVE  Valid(k, p)
<1>1. ~ Has(<< >>, d)
  BY DEF Has
<1> QED  BY <1>1 DEF StageInv, In, Valid

\* Nothing lies between p's place of kind k and q's of kind j, and what is ahead
\* of the second is ahead of the first.
Adjacent(k, p, j, q) ==
  \A i \in Kinds : \A r \in Protos : Valid(i, r) =>
    /\ Ahead(i, r, j, q) => Ahead(i, r, k, p)
    /\ Ahead(j, q, i, r) => Ahead(k, p, i, r) \/ (i = k /\ r = p)

\* Each step that moves a Message moves it to an adjacent place.
LEMMA AdjacentFacts ==
  /\ Adjacent("arriving", Ethernet, "hand", Ethernet)
  /\ Adjacent("hand", Ethernet, "pipe", IP)
  /\ \A p \in Protos \ {Ethernet} : Adjacent("pipe", p, "hand", p)
  /\ \A p \in {IP, TCP, UDP} : \A q \in Routes(p) : Adjacent("hand", p, "pipe", q)
  /\ \A a \in AppProtos : Adjacent("hand", a, "counted", a)
  /\ \A p \in Protos : Adjacent("hand", p, "dropped", Ethernet)
  /\ \A k \in Kinds : \A p \in Protos : ~ Ahead(k, p, k, p)
<1> USE DEF Adjacent, Ahead, Rank, Valid, Kinds, Ethernet, IP, TCP, UDP, FTP, Telnet, RDP, DNSC,
            AppProtos
<1>1. \A p \in Protos : p \notin Carriers(p)
  BY DEF Carriers, Transport, Protos
<1>2. Carriers(Ethernet) = {} /\ Carriers(IP) = {Ethernet}
  BY DEF Carriers
<1>3. \A p \in {TCP, UDP} : Carriers(p) = {Ethernet, IP} /\ p \notin {Ethernet, IP}
  BY DEF Carriers
<1>4. \A p \in AppProtos : Carriers(p) = {Ethernet, IP, Transport(p)} /\ Transport(p) \in {TCP, UDP}
  BY DEF Carriers, Transport
<1>5. \A p \in Protos : p \in {Ethernet, IP, TCP, UDP} \cup AppProtos
  BY DEF Protos
<1>6. Adjacent("arriving", Ethernet, "hand", Ethernet)
  BY <1>2
<1>7. Adjacent("hand", Ethernet, "pipe", IP)
  BY <1>2, <1>3, <1>4, <1>5
<1>8. \A p \in Protos \ {Ethernet} : Adjacent("pipe", p, "hand", p)
  BY <1>1
<1>9. \A p \in {IP, TCP, UDP} : \A q \in Routes(p) : Adjacent("hand", p, "pipe", q)
  BY <1>2, <1>3, <1>4, <1>5 DEF Routes, Transport
<1>10. \A a \in AppProtos : Adjacent("hand", a, "counted", a)
  BY <1>1
<1>11. \A p \in Protos : Adjacent("hand", p, "dropped", Ethernet)
  OBVIOUS
<1>12. \A k \in Kinds : \A p \in Protos : ~ Ahead(k, p, k, p)
  BY <1>1
<1> QED  BY <1>6, <1>7, <1>8, <1>9, <1>10, <1>11, <1>12

\* A Message that moves forward by one place stays in order, if it is the first
\* of the place it leaves.
LEMMA MovedOrder ==
  ASSUME OrderInv, NEW d \in 1..MaxRecv, NEW k \in Kinds, NEW p \in Protos, NEW j \in Kinds, NEW q \in Protos,
         In(k, p, d), Moved(d, j, q), Adjacent(k, p, j, q), ~ Ahead(j, q, j, q),
         \A e \in 1..MaxRecv \ {d} : In(k, p, e) => d < e,
         StageInv
  PROVE  \A b, e \in 1..MaxRecv : \A i, l \in Kinds : \A r, s \in Protos :
           (In(i, r, b) /\ In(l, s, e))' /\ Ahead(i, r, l, s) => b < e
<1> SUFFICES ASSUME NEW b \in 1..MaxRecv, NEW e \in 1..MaxRecv, NEW i \in Kinds, NEW l \in Kinds,
                    NEW r \in Protos, NEW s \in Protos, In(i, r, b)', In(l, s, e)', Ahead(i, r, l, s)
             PROVE  b < e
  OBVIOUS
<1>1. CASE b # d /\ e # d
  BY <1>1 DEF Moved, OrderInv
<1>2. CASE b = d /\ e # d
  <2>1. i = j /\ r = q /\ In(l, s, e)
    BY <1>2 DEF Moved
  <2>2. Ahead(k, p, l, s) \/ (l = k /\ s = p)
    BY <2>1, InValid DEF Adjacent
  <2> QED  BY <1>2, <2>1, <2>2 DEF OrderInv
<1>3. CASE b # d /\ e = d
  <2>1. l = j /\ s = q /\ In(i, r, b)
    BY <1>3 DEF Moved
  <2>2. Ahead(i, r, k, p)
    BY <2>1, InValid DEF Adjacent
  <2> QED  BY <1>3, <2>1, <2>2 DEF OrderInv
<1>4. CASE b = d /\ e = d
  BY <1>4 DEF Moved
<1> QED  BY <1>1, <1>2, <1>3, <1>4

\* What is stripped from Messages stays right, if it is for the one that moves.
LEMMA MovedOff ==
  ASSUME OffInv, Received' = Received, NEW d \in Received, NEW j \in Kinds, NEW q \in Protos,
         Moved(d, j, q),
         \A e \in 1..MaxRecv \ {d} : off'[e] = off[e],
         \A e \in 1..MaxRecv \ {d} : \A r \in Protos : In("hand", r, e) => stage'[r] = stage[r],
         IF j = "dropped" THEN off'[d] \in {36, 48} ELSE off'[d] = StrippedIn(j, q)'
  PROVE  OffInv'
<1>1. ASSUME NEW e \in 1..MaxRecv \ {d}, NEW k \in Kinds \ {"dropped"}, NEW p \in Protos, In(k, p, e)'
      PROVE  off'[e] = StrippedIn(k, p)'
  <2>1. In(k, p, e) /\ off'[e] = off[e]
    BY <1>1 DEF Moved
  <2>2. StrippedIn(k, p)' = StrippedIn(k, p)
    BY <2>1 DEF StrippedIn
  <2> QED  BY <2>1, <2>2 DEF OffInv
<1>2. ASSUME NEW k \in Kinds \ {"dropped"}, NEW p \in Protos, In(k, p, d)'
      PROVE  off'[d] = StrippedIn(k, p)'
  <2>1. k = j /\ p = q
    BY <1>2 DEF Moved
  <2> QED  BY <1>2, <2>1
<1>3. \A e \in 1..MaxRecv : In("dropped", Ethernet, e)' => off'[e] \in {36, 48}
  BY ProtoFacts DEF Moved, OffInv, Kinds
<1>4. \A e \in 1..MaxRecv : e \notin Received' => off'[e] = 0
  BY DEF OffInv
<1> QED  BY <1>1, <1>2, <1>3, <1>4 DEF OffInv

\* Nor are the other Messages routed otherwise.
LEMMA MovedRoute ==
  ASSUME RouteInv, UNCHANGED <<rx, until>>, NEW d \in Received, NEW j \in Kinds, NEW q \in Protos,
         Moved(d, j, q),
         \A e \in 1..MaxRecv \ {d} : \A r \in Protos :
           In("hand", r, e) => stage'[r] = stage[r] /\ hlp'[r] = hlp[r]
  PROVE  \A e \in 1..MaxRecv \ {d} : RouteAt(e)'
<1> SUFFICES ASSUME NEW e \in 1..MaxRecv \ {d} PROVE RouteAt(e)'
  OBVIOUS
<1>1. RouteAt(e) /\ \A k \in Kinds : \A p \in Protos : In(k, p, e)' <=> In(k, p, e)
  BY DEF RouteInv, Moved
<1>2. \A r \in Protos : In("hand", r, e) => stage'[r] = stage[r] /\ hlp'[r] = hlp[r]
  OBVIOUS
<1>3. \A x : (SeenTransport(e, x)' <=> SeenTransport(e, x)) /\ (SeenApp(e, x)' <=> SeenApp(e, x))
  BY DEF SeenTransport, SeenApp
<1>4. (In("hand", IP, e) /\ stage[IP] = "route" => SeenTransport(e, hlp[IP]))'
  <2>1. In("hand", IP, e)' => In("hand", IP, e) /\ stage'[IP] = stage[IP] /\ hlp'[IP] = hlp[IP]
    BY <1>1, <1>2, ProtoFacts DEF Kinds
  <2> QED  BY <1>1, <2>1 DEF RouteAt, SeenTransport
<1>5. ASSUME NEW t \in {TCP, UDP}
      PROVE  /\ (In("pipe", t, e) \/ In("hand", t, e) => SeenTransport(e, t))'
             /\ (In("hand", t, e) /\ stage[t] = "route" => SeenApp(e, hlp[t]))'
  <2>1. In("hand", t, e)' => In("hand", t, e) /\ stage'[t] = stage[t] /\ hlp'[t] = hlp[t]
    BY <1>1, <1>2, ProtoFacts DEF Kinds
  <2>2. In("pipe", t, e)' => In("pipe", t, e)
    BY <1>1, ProtoFacts DEF Kinds
  <2>3. (In("pipe", t, e) \/ In("hand", t, e) => SeenTransport(e, t))'
    BY <1>1, <1>3, <2>1, <2>2 DEF RouteAt
  <2>4. (In("hand", t, e) /\ stage[t] = "route" => SeenApp(e, hlp[t]))'
    BY <1>1, <2>1 DEF RouteAt, SeenApp
  <2> QED  BY <2>3, <2>4
<1>6. \A a \in AppProtos : \A k \in {"pipe", "hand", "counted"} : In(k, a, e)' => SeenApp(e, a)'
  BY <1>1, <1>3, ProtoFacts DEF RouteAt, Kinds
<1>7. In("dropped", Ethernet, e)' => SeenTransport(e, TCP)' /\ SeenTransport(e, UDP)'
  BY <1>1, <1>3, ProtoFacts DEF RouteAt, Kinds
<1> QED  BY <1>4, <1>5, <1>6, <1>7 DEF RouteAt

\* The newest datagrams are seen as long as until says.
LEMMA SameBuf ==
  ASSUME BufInv, UNCHANGED <<rx, until, buf, copying>>, \A d \in Received : off'[d] <= 36 => off[d] <= 36
  PROVE  BufInv'
  BY DEF BufInv, Received

-----------------------------------------------------------------------------
(* IInv is inductive: one lemma per step.                                  *)

\* IInv after the making of a Message.
LEMMA NewMessageInv == IInv /\ NewMessage => IInv'
<1> SUFFICES ASSUME IInv, NewMessage PROVE IInv'
  OBVIOUS
<1>1. PICK d \in Nat : d = Len(rx)
  BY DEF IInv, TypeOK
<1>2. TypeOK' /\ StageInv' /\ In("arriving", Ethernet, d) /\ Moved(d, "hand", Ethernet)
  BY <1>1, NewMessageBasics
<1>3. /\ UNCHANGED <<rx, until, buf, copying, hlp, recvPipe, counted, dropped>>
      /\ off' = [off EXCEPT ![d] = 16] /\ off \in [1..MaxRecv -> 0..BUFSIZE]
      /\ stage' = [stage EXCEPT ![Ethernet] = "write"] /\ stage \in [Protos -> Stages]
      /\ stage[Ethernet] = "copy"
  BY <1>1 DEF NewMessage, history, bufVars, SizeOf, Ethernet, IP, RDP, TCP, UDP, IInv, TypeOK
<1>4. d \in Received /\ Received' = Received /\ d \in 1..MaxRecv
  BY <1>1, <1>2, <1>3 DEF Moved, Received
<1>5. UniqueInv'
  BY <1>2, <1>4, MovedUnique, ProtoFacts DEF IInv, Kinds
<1>6. OrderInv'
  <2>1. \A e \in 1..MaxRecv \ {d} : ~ In("arriving", Ethernet, e)
    BY <1>1, ProtoFacts DEF In
  <2>2. \A b, e \in 1..MaxRecv : \A i, l \in Kinds : \A r, s \in Protos :
          (In(i, r, b) /\ In(l, s, e))' /\ Ahead(i, r, l, s) => b < e
    BY <1>2, <1>4, <2>1, MovedOrder, AdjacentFacts, ProtoFacts DEF IInv, Kinds
  <2> QED  BY <1>3, <2>2 DEF IInv, OrderInv
<1>7. OffInv'
  <2>1. \A e \in 1..MaxRecv \ {d} : off'[e] = off[e]
    BY <1>3
  <2>2. off'[d] = 16 /\ StrippedIn("hand", Ethernet)' = 16
    BY <1>3, <1>4, ProtoFacts DEF StrippedIn
  <2>3. \A e \in 1..MaxRecv \ {d} : \A r \in Protos : In("hand", r, e) => stage'[r] = stage[r]
    <3>1. hand[Ethernet] = 0
      BY <1>3 DEF IInv, StageInv
    <3> QED  BY <1>3, <3>1 DEF In
  <2> QED  BY <1>2, <1>4, <2>1, <2>2, <2>3, MovedOff, ProtoFacts DEF IInv, Kinds
<1>8. BufInv'
  <2>1. off[d] = 0
    BY <1>2, <1>4, ProtoFacts DEF IInv, OffInv, Kinds, StrippedIn
  <2>2. \A e \in Received : off'[e] <= 36 => off[e] <= 36
    BY <1>3, <2>1 DEF Received
  <2> QED  BY <1>3, <2>2, SameBuf DEF IInv
<1>9. RouteInv'
  <2>1. RouteAt(d)'
    BY <1>2, ProtoFacts DEF Moved, RouteAt, Kinds
  <2>2. \A e \in 1..MaxRecv \ {d} : \A r \in Protos :
          In("hand", r, e) => stage'[r] = stage[r] /\ hlp'[r] = hlp[r]
    <3>1. hand[Ethernet] = 0
      BY <1>3 DEF IInv, StageInv
    <3> QED  BY <1>3, <3>1 DEF In
  <2>3. \A e \in 1..MaxRecv \ {d} : RouteAt(e)'
    BY <1>2, <1>3, <1>4, <2>2, MovedRoute, ProtoFacts DEF IInv, Kinds
  <2> QED  BY <2>1, <2>3 DEF RouteInv
<1> QED  BY <1>2, <1>5, <1>6, <1>7, <1>8, <1>9 DEF IInv

\* IInv after the write to the first pipe.
LEMMA WriteToIPInv == IInv /\ WriteToIP => IInv'
<1> SUFFICES ASSUME IInv, WriteToIP PROVE IInv'
  OBVIOUS
<1>1. PICK d \in Nat : d = hand[Ethernet]
  BY ProtoFacts DEF IInv, TypeOK
<1>2. TypeOK' /\ StageInv' /\ In("hand", Ethernet, d) /\ Moved(d, "pipe", IP)
  BY <1>1, WriteToIPBasics
<1>3. /\ UNCHANGED <<rx, until, buf, copying, off, hlp, counted, dropped>>
      /\ recvPipe' = [recvPipe EXCEPT ![IP] = Append(@, d)] /\ recvPipe \in [Protos -> Seq(1..MaxRecv)]
      /\ stage' = [stage EXCEPT ![Ethernet] = "read"] /\ stage \in [Protos -> Stages]
  BY <1>1 DEF WriteToIP, history, bufVars, IInv, TypeOK
<1>4. d \in Received /\ Received' = Received /\ d \in 1..MaxRecv
  BY <1>2, <1>3, ProtoFacts DEF Moved, Received, IInv, UniqueInv, Kinds
<1>5. UniqueInv'
  BY <1>2, <1>4, MovedUnique, ProtoFacts DEF IInv, Kinds
<1>6. OrderInv'
  <2>1. \A e \in 1..MaxRecv \ {d} : ~ In("hand", Ethernet, e)
    BY <1>1 DEF In
  <2>2. \A b, e \in 1..MaxRecv : \A i, l \in Kinds : \A r, s \in Protos :
          (In(i, r, b) /\ In(l, s, e))' /\ Ahead(i, r, l, s) => b < e
    BY <1>2, <1>4, <2>1, MovedOrder, AdjacentFacts, ProtoFacts DEF IInv, Kinds
  <2>3. Ahead("pipe", IP, "hand", Ethernet)
    BY ProtoFacts DEF Ahead, Carriers
  <2>4. \A y \in 1..MaxRecv : Has(recvPipe[IP], y) => y < d
    BY <1>2, <1>4, <2>3, ProtoFacts DEF IInv, OrderInv, Kinds, In
  <2>5. Increasing(recvPipe'[IP]) /\ \A r \in Protos \ {IP} : recvPipe'[r] = recvPipe[r]
    <3>1. recvPipe'[IP] = Append(recvPipe[IP], d) /\ recvPipe[IP] \in Seq(1..MaxRecv)
      BY <1>3, ProtoFacts
    <3>2. Increasing(recvPipe[IP])
      BY ProtoFacts DEF IInv, OrderInv
    <3> QED  BY <1>3, <1>4, <2>4, <3>1, <3>2, PipeFacts
  <2> QED  BY <1>3, <2>2, <2>5 DEF IInv, OrderInv
<1>7. \A e \in 1..MaxRecv \ {d} : \A r \in Protos :
        In("hand", r, e) => stage'[r] = stage[r] /\ hlp'[r] = hlp[r]
  BY <1>1, <1>3 DEF In
<1>8. OffInv'
  <2>1. off'[d] = StrippedIn("pipe", IP)'
    <3>1. off[d] = 16
      BY <1>2, <1>4, ProtoFacts DEF IInv, OffInv, Kinds, StrippedIn
    <3> QED  BY <1>3, <3>1, ProtoFacts DEF StrippedIn, Stripped
  <2> QED  BY <1>2, <1>3, <1>4, <1>7, <2>1, MovedOff, ProtoFacts DEF IInv, Kinds
<1>9. BufInv'
  BY <1>3, SameBuf DEF IInv
<1>10. RouteInv'
  <2>1. RouteAt(d)'
    BY <1>2, ProtoFacts DEF Moved, RouteAt, Kinds
  <2>2. \A e \in 1..MaxRecv \ {d} : RouteAt(e)'
    BY <1>2, <1>3, <1>4, <1>7, MovedRoute, ProtoFacts DEF IInv, Kinds
  <2> QED  BY <2>1, <2>2 DEF RouteInv
<1> QED  BY <1>2, <1>5, <1>6, <1>8, <1>9, <1>10 DEF IInv

\* IInv after a read from a pipe.
LEMMA ReadUnitInv == \A p \in Protos \ {Ethernet} : IInv /\ ReadUnit(p) => IInv'
<1> SUFFICES ASSUME NEW p \in Protos \ {Ethernet}, IInv, ReadUnit(p) PROVE IInv'
  OBVIOUS
<1>1. PICK d : d = Head(recvPipe[p])
  OBVIOUS
<1>2. /\ TypeOK' /\ StageInv' /\ In("pipe", p, d) /\ Moved(d, "hand", p)
      /\ \A e \in 1..MaxRecv : In("pipe", p, e)' => d < e
      /\ Increasing(recvPipe'[p])
  BY <1>1, ReadUnitBasics
<1>3. /\ UNCHANGED <<rx, until, buf, copying, off, hlp, counted, dropped>>
      /\ recvPipe' = [recvPipe EXCEPT ![p] = Tail(@)] /\ recvPipe \in [Protos -> Seq(1..MaxRecv)]
      /\ stage[p] = "read" /\ stage' = [stage EXCEPT ![p] = "got"] /\ stage \in [Protos -> Stages]
  BY DEF ReadUnit, history, bufVars, IInv, TypeOK
<1>4. d \in Received /\ Received' = Received /\ d \in 1..MaxRecv
  BY <1>2, <1>3 DEF Moved, Received, IInv, UniqueInv, Kinds
<1>5. UniqueInv'
  BY <1>2, <1>4, MovedUnique DEF IInv, Kinds
<1>6. OrderInv'
  <2>1. \A e \in 1..MaxRecv \ {d} : In("pipe", p, e) => d < e
    BY <1>2 DEF Moved, Kinds
  <2>2. \A b, e \in 1..MaxRecv : \A i, l \in Kinds : \A r, s \in Protos :
          (In(i, r, b) /\ In(l, s, e))' /\ Ahead(i, r, l, s) => b < e
    BY <1>2, <1>4, <2>1, MovedOrder, AdjacentFacts DEF IInv, Kinds
  <2>3. \A r \in Protos \ {p} : recvPipe'[r] = recvPipe[r]
    BY <1>3
  <2> QED  BY <1>2, <1>3, <2>2, <2>3 DEF IInv, OrderInv
<1>7. \A e \in 1..MaxRecv \ {d} : \A r \in Protos :
        In("hand", r, e) => stage'[r] = stage[r] /\ hlp'[r] = hlp[r]
  <2>1. hand[p] = 0
    BY <1>3 DEF IInv, StageInv
  <2> QED  BY <1>3, <2>1 DEF In
<1>8. OffInv'
  <2>1. off'[d] = StrippedIn("hand", p)'
    <3>1. off[d] = Stripped(p)
      BY <1>2, <1>4 DEF IInv, OffInv, Kinds, StrippedIn
    <3> QED  BY <1>3, <3>1 DEF StrippedIn
  <2> QED  BY <1>2, <1>3, <1>4, <1>7, <2>1, MovedOff DEF IInv, Kinds
<1>9. BufInv'
  BY <1>3, SameBuf DEF IInv
<1>10. RouteInv'
  <2>1. RouteAt(d)'
    <3>1. stage'[p] = "got" /\ \A x : (SeenTransport(d, x)' <=> SeenTransport(d, x)) /\ (SeenApp(d, x)' <=> SeenApp(d, x))
      BY <1>3 DEF SeenTransport, SeenApp
    <3>2. RouteAt(d) /\ \A k \in Kinds : \A r \in Protos : In(k, r, d)' <=> k = "hand" /\ r = p
      BY <1>2, <1>4 DEF Moved, IInv, RouteInv
    <3>3. /\ p \in {TCP, UDP} => SeenTransport(d, p)
          /\ p \in AppProtos => SeenApp(d, p)
      BY <1>2, <3>2 DEF RouteAt
    <3> QED  BY <3>1, <3>2, <3>3, ProtoFacts DEF RouteAt, Kinds
  <2>2. \A e \in 1..MaxRecv \ {d} : RouteAt(e)'
    BY <1>2, <1>3, <1>4, <1>7, MovedRoute DEF IInv, Kinds
  <2> QED  BY <2>1, <2>2 DEF RouteInv
<1> QED  BY <1>2, <1>5, <1>6, <1>8, <1>9, <1>10 DEF IInv

\* IInv after a write to the pipe the hlp names.
LEMMA DemultiplexInv == \A p \in {IP, TCP, UDP} : IInv /\ Demultiplex(p) => IInv'
<1> SUFFICES ASSUME NEW p \in {IP, TCP, UDP}, IInv, Demultiplex(p) PROVE IInv'
  OBVIOUS
<1>1. PICK d : d = hand[p]
  OBVIOUS
<1>2. PICK q : q = hlp[p]
  OBVIOUS
<1>3. /\ TypeOK' /\ StageInv' /\ In("hand", p, d) /\ Moved(d, "pipe", q)
      /\ q \in Routes(p) /\ stage[p] = "route"
      /\ (\A y \in 1..MaxRecv : In("pipe", q, y) => y < d) => Increasing(recvPipe'[q])
  BY <1>1, <1>2, DemultiplexBasics
<1>4. /\ UNCHANGED <<rx, until, buf, copying, off, counted, dropped>>
      /\ recvPipe' = [recvPipe EXCEPT ![q] = Append(@, d)] /\ recvPipe \in [Protos -> Seq(1..MaxRecv)]
      /\ stage' = [stage EXCEPT ![p] = "read"] /\ stage \in [Protos -> Stages]
      /\ hlp' = [hlp EXCEPT ![p] = 0] /\ hlp \in [Protos -> 0..8]
  BY <1>1, <1>2 DEF Demultiplex, history, bufVars, IInv, TypeOK
<1>5. p \in Protos /\ q \in Protos /\ p # Ethernet /\ q # Ethernet
  BY <1>3, ProtoFacts DEF Routes
<1>6. d \in Received /\ Received' = Received /\ d \in 1..MaxRecv
  BY <1>3, <1>4, <1>5 DEF Moved, Received, IInv, UniqueInv, Kinds
<1>7. UniqueInv'
  BY <1>3, <1>5, <1>6, MovedUnique DEF IInv, Kinds
<1>8. OrderInv'
  <2>1. \A e \in 1..MaxRecv \ {d} : ~ In("hand", p, e)
    BY <1>1 DEF In
  <2>2. \A b, e \in 1..MaxRecv : \A i, l \in Kinds : \A r, s \in Protos :
          (In(i, r, b) /\ In(l, s, e))' /\ Ahead(i, r, l, s) => b < e
    <3>1. Adjacent("hand", p, "pipe", q) /\ ~ Ahead("pipe", q, "pipe", q)
      BY <1>3, <1>5, AdjacentFacts DEF Kinds
    <3> QED  BY <1>3, <1>5, <1>6, <2>1, <3>1, MovedOrder DEF IInv, Kinds
  <2>3. Ahead("pipe", q, "hand", p)
    BY <1>3, <1>5 DEF Ahead, Carriers, Routes, Transport, AppProtos, Ethernet, IP, TCP, UDP, FTP, Telnet,
       RDP, DNSC
  <2>4. \A y \in 1..MaxRecv : In("pipe", q, y) => y < d
    BY <1>3, <1>5, <1>6, <2>3 DEF IInv, OrderInv, Kinds
  <2>5. \A r \in Protos \ {q} : recvPipe'[r] = recvPipe[r]
    BY <1>4
  <2> QED  BY <1>3, <1>4, <2>2, <2>4, <2>5 DEF IInv, OrderInv
<1>9. \A e \in 1..MaxRecv \ {d} : \A r \in Protos :
        In("hand", r, e) => stage'[r] = stage[r] /\ hlp'[r] = hlp[r]
  BY <1>1, <1>4 DEF In
<1>10. OffInv'
  <2>1. off'[d] = StrippedIn("pipe", q)'
    <3>1. off[d] = Stripped(p) + SizeOf(p)
      BY <1>3, <1>5, <1>6 DEF IInv, OffInv, Kinds, StrippedIn
    <3>2. Stripped(q) = Stripped(p) + SizeOf(p)
      BY <1>3 DEF Stripped, SizeOf, Routes, IP, TCP, UDP, RDP, FTP, Telnet, DNSC
    <3> QED  BY <1>4, <1>5, <3>1, <3>2 DEF StrippedIn
  <2> QED  BY <1>3, <1>4, <1>5, <1>6, <1>9, <2>1, MovedOff DEF IInv, Kinds
<1>11. BufInv'
  BY <1>4, SameBuf DEF IInv
<1>12. RouteInv'
  <2>1. RouteAt(d)'
    <3>1. \A x : (SeenTransport(d, x)' <=> SeenTransport(d, x)) /\ (SeenApp(d, x)' <=> SeenApp(d, x))
      BY <1>4 DEF SeenTransport, SeenApp
    <3>2. RouteAt(d) /\ \A k \in Kinds : \A r \in Protos : In(k, r, d)' <=> k = "pipe" /\ r = q
      BY <1>3, <1>6 DEF Moved, IInv, RouteInv
    <3>3. /\ q \in {TCP, UDP} => SeenTransport(d, q)
          /\ q \in AppProtos => SeenApp(d, q)
      <4>1. CASE p = IP
        BY <1>2, <1>3, <3>2, <4>1, ProtoFacts DEF RouteAt, Routes
      <4>2. CASE p \in {TCP, UDP}
        BY <1>2, <1>3, <3>2, <4>2, ProtoFacts DEF RouteAt, Routes
      <4> QED  BY <4>1, <4>2
    <3> QED  BY <1>5, <3>1, <3>2, <3>3, ProtoFacts DEF RouteAt, Kinds
  <2>2. \A e \in 1..MaxRecv \ {d} : RouteAt(e)'
    BY <1>3, <1>4, <1>5, <1>6, <1>9, MovedRoute DEF IInv, Kinds
  <2> QED  BY <2>1, <2>2 DEF RouteInv
<1> QED  BY <1>3, <1>7, <1>8, <1>10, <1>11, <1>12 DEF IInv

\* IInv after the loss of a Message: its hlp, of a later datagram, names a pipe
\* of the other transport.
LEMMA FallThroughInv == \A p \in {IP, TCP, UDP} : IInv /\ FallThrough(p) => IInv'
<1> SUFFICES ASSUME NEW p \in {IP, TCP, UDP}, IInv, FallThrough(p) PROVE IInv'
  OBVIOUS
<1>1. PICK d : d = hand[p]
  OBVIOUS
<1>2. TypeOK' /\ StageInv' /\ In("hand", p, d) /\ Moved(d, "dropped", Ethernet) /\ stage[p] = "route"
  BY <1>1, FallThroughBasics
<1>3. /\ UNCHANGED <<rx, until, buf, copying, off, recvPipe, counted>>
      /\ stage' = [stage EXCEPT ![p] = "read"] /\ stage \in [Protos -> Stages]
      /\ hlp' = [hlp EXCEPT ![p] = 0] /\ hlp \in [Protos -> 0..8] /\ hlp[p] \notin Routes(p)
      /\ rx \in Seq(Apps)
  BY <1>1 DEF FallThrough, history, bufVars, IInv, TypeOK
<1>4. p \in Protos /\ p # Ethernet /\ Ethernet \in Protos
  BY ProtoFacts
<1>5. d \in Received /\ Received' = Received /\ d \in 1..MaxRecv
  BY <1>2, <1>3, <1>4 DEF Moved, Received, IInv, UniqueInv, Kinds
<1>6. UniqueInv'
  BY <1>2, <1>4, <1>5, MovedUnique DEF IInv, Kinds
<1>7. OrderInv'
  <2>1. \A e \in 1..MaxRecv \ {d} : ~ In("hand", p, e)
    BY <1>1 DEF In
  <2>2. \A b, e \in 1..MaxRecv : \A i, l \in Kinds : \A r, s \in Protos :
          (In(i, r, b) /\ In(l, s, e))' /\ Ahead(i, r, l, s) => b < e
    BY <1>2, <1>4, <1>5, <2>1, MovedOrder, AdjacentFacts DEF IInv, Kinds
  <2> QED  BY <1>3, <2>2 DEF IInv, OrderInv
<1>8. \A e \in 1..MaxRecv \ {d} : \A r \in Protos :
        In("hand", r, e) => stage'[r] = stage[r] /\ hlp'[r] = hlp[r]
  BY <1>1, <1>3 DEF In
\* The transports the Message has been taken for.
<1>9. p \in {TCP, UDP} /\ SeenTransport(d, TCP) /\ SeenTransport(d, UDP)
  <2>1. RouteAt(d) /\ \A e \in d..until[d] : rx[e] \in AppProtos
    <3>1. d \in Nat /\ d >= 1 /\ until[d] <= Len(rx) /\ until[d] \in Nat /\ Len(rx) \in Nat
      <4>1. until \in [1..MaxRecv -> 0..MaxRecv]
        BY DEF IInv, TypeOK
      <4>2. until[d] <= Len(rx)
        BY <1>5 DEF IInv, BufInv
      <4> QED  BY <1>3, <1>5, <4>1, <4>2
    <3>2. \A e \in d..until[d] : rx[e] \in Apps
      BY <1>3, <3>1
    <3> QED  BY <1>5, <3>2, ProtoFacts DEF IInv, RouteInv
  <2>2. \A a \in AppProtos : Transport(a) \in {TCP, UDP} /\ a \in Routes(Transport(a))
    BY DEF Transport, Routes, AppProtos, TCP, UDP, IP, FTP, Telnet, RDP, DNSC
  <2>3. p # IP
    <3>1. SUFFICES ASSUME p = IP PROVE FALSE
      OBVIOUS
    <3>2. PICK e \in d..until[d] : Transport(rx[e]) = hlp[p]
      BY <1>2, <2>1, <3>1 DEF RouteAt, SeenTransport
    <3>3. hlp[p] \in {TCP, UDP}
      BY <2>1, <2>2, <3>2
    <3> QED  BY <1>3, <3>1, <3>3 DEF Routes
  <2>4. SeenTransport(d, p) /\ SeenApp(d, hlp[p])
    BY <1>2, <2>1, <2>3 DEF RouteAt
  <2>5. PICK e \in d..until[d] : rx[e] = hlp[p]
    BY <2>4 DEF SeenApp
  <2>6. Transport(rx[e]) \in {TCP, UDP} /\ Transport(rx[e]) # p
    BY <1>3, <2>1, <2>2, <2>5
  <2>7. SeenTransport(d, Transport(rx[e]))
    BY DEF SeenTransport
  <2> QED  BY <2>3, <2>4, <2>6, <2>7
<1>10. OffInv'
  <2>1. off'[d] \in {36, 48}
    <3>1. off[d] = Stripped(p) + SizeOf(p)
      BY <1>2, <1>4, <1>5 DEF IInv, OffInv, Kinds, StrippedIn
    <3> QED  BY <1>3, <1>9, <3>1 DEF Stripped, SizeOf, IP, TCP, UDP, RDP
  <2> QED  BY <1>2, <1>3, <1>4, <1>5, <1>8, <2>1, MovedOff DEF IInv, Kinds
<1>11. BufInv'
  BY <1>3, SameBuf DEF IInv
<1>12. RouteInv'
  <2>1. RouteAt(d)'
    <3>1. SeenTransport(d, TCP)' /\ SeenTransport(d, UDP)'
      BY <1>3, <1>9 DEF SeenTransport
    <3>2. \A k \in Kinds : \A r \in Protos : In(k, r, d)' <=> k = "dropped" /\ r = Ethernet
      BY <1>2 DEF Moved
    <3> QED  BY <3>1, <3>2, ProtoFacts DEF RouteAt, Kinds
  <2>2. \A e \in 1..MaxRecv \ {d} : RouteAt(e)'
    BY <1>2, <1>3, <1>4, <1>5, <1>8, MovedRoute DEF IInv, Kinds
  <2> QED  BY <2>1, <2>2 DEF RouteInv
<1> QED  BY <1>2, <1>6, <1>7, <1>10, <1>11, <1>12 DEF IInv

\* IInv after a Message has been counted.
LEMMA CountInv == \A a \in AppProtos : IInv /\ Count(a) => IInv'
<1> SUFFICES ASSUME NEW a \in AppProtos, IInv, Count(a) PROVE IInv'
  OBVIOUS
<1>1. PICK d : d = hand[a]
  OBVIOUS
<1>2. /\ TypeOK' /\ StageInv' /\ In("hand", a, d) /\ Moved(d, "counted", a)
      /\ off[d] = 48 /\ off'[d] = 48 + SizeOf(a) /\ \A e \in 1..MaxRecv \ {d} : off'[e] = off[e]
      /\ (\A y \in 1..MaxRecv : In("counted", a, y) => y < d) => Increasing(counted'[a])
  BY <1>1, CountBasics
<1>3. /\ UNCHANGED <<rx, until, buf, copying, hlp, recvPipe, dropped>>
      /\ stage' = [stage EXCEPT ![a] = "read"] /\ stage \in [Protos -> Stages]
      /\ counted' = [counted EXCEPT ![a] = Append(@, d)] /\ counted \in [AppProtos -> Seq(1..MaxRecv)]
  BY <1>1 DEF Count, history, bufVars, IInv, TypeOK
<1>4. a \in Protos /\ a # Ethernet
  BY ProtoFacts
<1>5. d \in Received /\ Received' = Received /\ d \in 1..MaxRecv
  BY <1>2, <1>3, <1>4 DEF Moved, Received, IInv, UniqueInv, Kinds
<1>6. UniqueInv'
  BY <1>2, <1>4, <1>5, MovedUnique DEF IInv, Kinds
<1>7. OrderInv'
  <2>1. \A e \in 1..MaxRecv \ {d} : ~ In("hand", a, e)
    BY <1>1 DEF In
  <2>2. \A b, e \in 1..MaxRecv : \A i, l \in Kinds : \A r, s \in Protos :
          (In(i, r, b) /\ In(l, s, e))' /\ Ahead(i, r, l, s) => b < e
    BY <1>2, <1>4, <1>5, <2>1, MovedOrder, AdjacentFacts DEF IInv, Kinds
  <2>3. Ahead("counted", a, "hand", a)
    BY DEF Ahead, Rank
  <2>4. \A y \in 1..MaxRecv : In("counted", a, y) => y < d
    BY <1>2, <1>4, <1>5, <2>3 DEF IInv, OrderInv, Kinds
  <2>5. \A r \in AppProtos \ {a} : counted'[r] = counted[r]
    BY <1>3
  <2> QED  BY <1>2, <1>3, <2>2, <2>4, <2>5 DEF IInv, OrderInv
<1>8. \A e \in 1..MaxRecv \ {d} : \A r \in Protos :
        In("hand", r, e) => stage'[r] = stage[r] /\ hlp'[r] = hlp[r]
  BY <1>1, <1>3 DEF In
<1>9. OffInv'
  <2>1. off'[d] = StrippedIn("counted", a)'
    BY <1>2, <1>4, ProtoFacts DEF StrippedIn, Stripped
  <2> QED  BY <1>2, <1>3, <1>4, <1>5, <1>8, <2>1, MovedOff DEF IInv, Kinds
<1>10. BufInv'
  <2>1. ~ (off'[d] <= 36)
    BY <1>2 DEF SizeOf
  <2>2. \A e \in Received : off'[e] <= 36 => off[e] <= 36
    <3>1. \A e \in Received : e \in 1..MaxRecv
      <4>1. rx \in Seq(Apps) /\ Len(rx) <= MaxRecv
        BY DEF IInv, TypeOK
      <4> QED  BY <4>1, MaxRecvAssumption DEF Received
    <3> QED  BY <1>2, <2>1, <3>1
  <2> QED  BY <1>3, <2>2, SameBuf DEF IInv
<1>11. RouteInv'
  <2>1. RouteAt(d)'
    <3>1. \A x : SeenApp(d, x)' <=> SeenApp(d, x)
      BY <1>3 DEF SeenApp
    <3>2. SeenApp(d, a) /\ \A k \in Kinds : \A r \in Protos : In(k, r, d)' <=> k = "counted" /\ r = a
      BY <1>2, <1>5 DEF Moved, IInv, RouteInv, RouteAt
    <3> QED  BY <1>4, <3>1, <3>2, ProtoFacts DEF RouteAt, Kinds
  <2>2. \A e \in 1..MaxRecv \ {d} : RouteAt(e)'
    BY <1>2, <1>3, <1>4, <1>5, <1>8, MovedRoute DEF IInv, Kinds
  <2> QED  BY <2>1, <2>2 DEF RouteInv
<1> QED  BY <1>2, <1>6, <1>7, <1>9, <1>10, <1>11 DEF IInv

\* IInv after a layer has stripped its header: what it reads from buf is of the
\* Message or of a datagram that until counts.
LEMMA StripHdrInv == \A p \in {IP, TCP, UDP} : IInv /\ StripHdr(p) => IInv'
<1> SUFFICES ASSUME NEW p \in {IP, TCP, UDP}, IInv, StripHdr(p) PROVE IInv'
  OBVIOUS
<1>1. PICK d : d = hand[p]
  OBVIOUS
<1>2. /\ TypeOK' /\ StageInv' /\ Still /\ d \in 1..MaxRecv /\ Stripped(p) \in Fields
      /\ hlp'[p] = buf[Stripped(p)] /\ off'[d] = Stripped(p) + SizeOf(p)
      /\ off[d] = Stripped(p) /\ \A e \in 1..MaxRecv \ {d} : off'[e] = off[e]
  BY <1>1, StripHdrBasics
<1>3. /\ UNCHANGED <<rx, until, buf, copying, hand, recvPipe, counted, dropped>>
      /\ stage[p] = "got" /\ stage' = [stage EXCEPT ![p] = "route"] /\ stage \in [Protos -> Stages]
      /\ hlp' = [hlp EXCEPT ![p] = buf[off[d]]] /\ hlp \in [Protos -> 0..8]
      /\ rx \in Seq(Apps)
  BY <1>1 DEF StripHdr, history, bufVars, IInv, TypeOK
<1>4. p \in Protos /\ p # Ethernet /\ Ethernet \in Protos /\ In("hand", p, d)
  BY <1>1, ProtoFacts DEF In
<1>5. d \in Received /\ Received' = Received
  BY <1>2, <1>3, <1>4 DEF Received, IInv, UniqueInv, Kinds
<1>6. UniqueInv'
  BY <1>2, <1>5, StillUnique DEF IInv
<1>7. OrderInv'
  BY <1>2, <1>3 DEF IInv, OrderInv, Still
<1>8. \A e \in 1..MaxRecv \ {d} : \A r \in Protos :
        In("hand", r, e) => stage'[r] = stage[r] /\ hlp'[r] = hlp[r]
  BY <1>1, <1>3 DEF In
<1>9. \A i \in Kinds : \A r \in Protos : In(i, r, d)' <=> i = "hand" /\ r = p
  BY <1>2, <1>4, OnePlace DEF IInv, Kinds, Still
<1>10. Moved(d, "hand", p)
  BY <1>2, <1>9 DEF Moved, Still
<1>11. OffInv'
  <2>1. off'[d] = StrippedIn("hand", p)'
    BY <1>2, <1>3, <1>4 DEF StrippedIn
  <2> QED  BY <1>2, <1>3, <1>4, <1>5, <1>8, <1>10, <2>1, MovedOff DEF IInv, Kinds
<1>12. Stripped(p) <= 36
  BY DEF Stripped, IP, TCP, UDP
<1>13. BufInv'
  <2>1. \A e \in Received : off'[e] <= 36 => off[e] <= 36
    <3>1. \A e \in Received : e \in 1..MaxRecv
      <4>1. Len(rx) <= MaxRecv
        BY DEF IInv, TypeOK
      <4> QED  BY <1>3, <4>1, MaxRecvAssumption DEF Received
    <3> QED  BY <1>2, <1>12, <3>1
  <2> QED  BY <1>3, <2>1, SameBuf DEF IInv
\* The datagram the header is read from.
<1>14. \E e \in d..until[d] : buf[Stripped(p)] = FrameField(rx[e], Stripped(p))
  <2>1. d \in Nat /\ d >= 1 /\ d <= Len(rx) /\ until[d] = Len(rx) /\ Len(rx) \in Nat
    BY <1>2, <1>3, <1>5, <1>12 DEF IInv, BufInv, Received
  <2>2. CASE Stripped(p) \in copying
    <3>1. In("arriving", Ethernet, Len(rx)) /\ Len(rx) \in 1..MaxRecv
      <4>1. stage[Ethernet] = "copy" /\ Len(rx) <= MaxRecv
        BY <2>2 DEF IInv, TypeOK, StageInv
      <4> QED  BY <2>1, <4>1, MaxRecvAssumption DEF In
    <3>2. Ahead("hand", p, "arriving", Ethernet)
      BY <1>4 DEF Ahead, Carriers
    <3>3. d < Len(rx)
      BY <1>2, <1>4, <3>1, <3>2 DEF IInv, OrderInv, Kinds
    <3>4. Len(rx) - 1 >= 1 /\ Len(rx) - 1 \in d..until[d]
      BY <2>1, <3>3
    <3>5. buf[Stripped(p)] = FrameField(rx[Len(rx) - 1], Stripped(p))
      BY <1>2, <2>2, <3>4 DEF IInv, BufInv
    <3> QED  BY <3>4, <3>5
  <2>3. CASE Stripped(p) \notin copying
    <3>1. buf[Stripped(p)] = FrameField(rx[Len(rx)], Stripped(p))
      BY <1>2, <2>1, <2>3 DEF IInv, BufInv
    <3>2. Len(rx) \in d..until[d]
      BY <2>1
    <3> QED  BY <3>1, <3>2
  <2> QED  BY <2>2, <2>3
<1>15. RouteInv'
  <2>1. RouteAt(d)'
    <3>1. PICK e \in d..until[d] : hlp'[p] = FrameField(rx[e], Stripped(p))
      BY <1>2, <1>14
    <3>2. p = IP => Transport(rx[e]) = hlp'[p]
      BY <3>1 DEF FrameField, Stripped
    <3>3. p \in {TCP, UDP} => rx[e] = hlp'[p]
      BY <3>1 DEF FrameField, Stripped, IP, TCP, UDP
    <3>4. p = IP => SeenTransport(d, hlp[IP])'
      BY <1>3, <3>1, <3>2 DEF SeenTransport
    <3>5. \A t \in {TCP, UDP} : p = t => SeenTransport(d, t)' /\ SeenApp(d, hlp[t])'
      <4>1. \A t \in {TCP, UDP} : p = t => SeenTransport(d, t)
        BY <1>2, <1>4 DEF IInv, RouteInv, RouteAt
      <4> QED  BY <1>3, <3>1, <3>3, <4>1 DEF SeenApp, SeenTransport
    <3> QED  BY <1>9, <3>4, <3>5, ProtoFacts DEF RouteAt, Kinds
  <2>2. \A e \in 1..MaxRecv \ {d} : RouteAt(e)'
    BY <1>3, <1>4, <1>5, <1>8, <1>10, MovedRoute DEF IInv, Kinds
  <2> QED  BY <2>1, <2>2 DEF RouteInv
<1> QED  BY <1>2, <1>6, <1>7, <1>11, <1>13, <1>15 DEF IInv

\* IInv after the arrival of a datagram.
LEMMA RecvFromInv == \A a \in Apps : IInv /\ RecvFrom(a) => IInv'
<1> SUFFICES ASSUME NEW a \in Apps, IInv, RecvFrom(a) PROVE IInv'
  OBVIOUS
<1>1. rx \in Seq(Apps) /\ Len(rx) \in Nat /\ Len(rx) < MaxRecv
  BY DEF IInv, TypeOK, RecvFrom
<1>2. PICK d \in Nat : d = Len(rx) + 1
  BY <1>1
<1>3. TypeOK' /\ StageInv' /\ Moved(d, "arriving", Ethernet)
  BY <1>2, RecvFromBasics
<1>4. /\ UNCHANGED <<buf, hand, off, hlp, recvPipe, counted, dropped>>
      /\ stage' = [stage EXCEPT ![Ethernet] = "copy"] /\ stage \in [Protos -> Stages]
      /\ stage[Ethernet] = "read" /\ copying' = Fields /\ rx' = Append(rx, a)
      /\ until' = [n \in 1..MaxRecv |-> IF n \in Unrouted \cup {Len(rx')} THEN Len(rx') ELSE until[n]]
  BY DEF RecvFrom, IInv, TypeOK
<1>5. /\ Len(rx') = d /\ rx'[d] = a /\ \A e \in 1..Len(rx) : rx'[e] = rx[e]
      /\ d \in 1..MaxRecv /\ d \notin Received /\ Received' = Received \cup {d}
      /\ Received \subseteq 1..MaxRecv
  <2>1. Len(rx') = d /\ rx'[d] = a /\ \A e \in 1..Len(rx) : rx'[e] = rx[e]
    BY <1>1, <1>2, <1>4
  <2> QED  BY <1>1, <1>2, <2>1, MaxRecvAssumption DEF Received
<1>6. UniqueInv'
  <2>1. \A e \in 1..MaxRecv : \A k, j \in Kinds : \A p, q \in Protos :
          In(k, p, e)' /\ In(j, q, e)' => k = j /\ p = q
    BY <1>3 DEF Moved, IInv, UniqueInv
  <2>2. \E k \in Kinds : \E p \in Protos : In(k, p, d)'
    BY <1>3, ProtoFacts DEF Moved, Kinds
  <2>3. \A e \in 1..MaxRecv \ {d} : e \in Received' <=> \E k \in Kinds : \E p \in Protos : In(k, p, e)'
    BY <1>3, <1>5 DEF Moved, IInv, UniqueInv
  <2> QED  BY <1>5, <2>1, <2>2, <2>3 DEF UniqueInv
<1>7. OrderInv'
  <2>1. \A e \in 1..MaxRecv \ {d} : \A k \in Kinds : \A p \in Protos : In(k, p, e)' => In(k, p, e) /\ e < d
    <3>1. \A e \in Received : e < d
      BY <1>1, <1>2 DEF Received
    <3> QED  BY <1>3, <3>1 DEF Moved, IInv, UniqueInv
  <2>2. \A k \in Kinds : \A p \in Protos : In(k, p, d)' => k = "arriving" /\ p = Ethernet
    BY <1>3 DEF Moved
  <2>3. \A k \in Kinds : \A p \in Protos : Valid(k, p) => ~ Ahead("arriving", Ethernet, k, p)
    BY DEF Ahead, Carriers, Rank, Valid, Kinds
  <2>4. ASSUME NEW b \in 1..MaxRecv, NEW e \in 1..MaxRecv, NEW i \in Kinds, NEW l \in Kinds,
               NEW r \in Protos, NEW t \in Protos, In(i, r, b)', In(l, t, e)', Ahead(i, r, l, t)
        PROVE  b < e
    <3>1. CASE b # d /\ e # d
      BY <2>1, <2>4, <3>1 DEF IInv, OrderInv
    <3>2. CASE b # d /\ e = d
      BY <2>1, <2>4, <3>2
    <3>3. CASE b = d /\ e # d
      BY <2>1, <2>2, <2>3, <2>4, <3>3, InValid DEF IInv
    <3>4. CASE b = d /\ e = d
      BY <2>2, <2>4, <3>4, AdjacentFacts
    <3> QED  BY <3>1, <3>2, <3>3, <3>4
  <2> QED  BY <1>4, <2>4 DEF IInv, OrderInv
<1>8. \A e \in 1..MaxRecv \ {d} : \A r \in Protos : In("hand", r, e) => stage'[r] = stage[r]
  <2>1. hand[Ethernet] = 0
    BY <1>4 DEF IInv, StageInv
  <2> QED  BY <1>4, <2>1 DEF In
<1>9. off[d] = 0 /\ off' = off
  BY <1>4, <1>5 DEF IInv, OffInv
<1>10. OffInv'
  <2>1. ASSUME NEW e \in 1..MaxRecv \ {d}, NEW k \in Kinds \ {"dropped"}, NEW p \in Protos, In(k, p, e)'
        PROVE  off'[e] = StrippedIn(k, p)'
    <3>1. In(k, p, e)
      BY <1>3, <2>1 DEF Moved
    <3>2. StrippedIn(k, p)' = StrippedIn(k, p)
      BY <1>8, <3>1 DEF StrippedIn
    <3> QED  BY <1>9, <3>1, <3>2 DEF IInv, OffInv
  <2>2. ASSUME NEW k \in Kinds, NEW p \in Protos, In(k, p, d)'
        PROVE  k # "dropped" /\ off'[d] = StrippedIn(k, p)'
    <3>1. k = "arriving"
      BY <1>3, <2>2 DEF Moved
    <3> QED  BY <1>9, <3>1 DEF StrippedIn
  <2>3. \A e \in 1..MaxRecv : In("dropped", Ethernet, e)' => off'[e] \in {36, 48}
    <3>1. \A e \in 1..MaxRecv : In("dropped", Ethernet, e)' => In("dropped", Ethernet, e)
      BY <1>3, <2>2, ProtoFacts DEF Moved, Kinds
    <3> QED  BY <1>9, <3>1 DEF IInv, OffInv
  <2>4. \A e \in 1..MaxRecv : e \notin Received' => off'[e] = 0
    BY <1>5, <1>9 DEF IInv, OffInv
  <2> QED  BY <2>1, <2>2, <2>3, <2>4 DEF OffInv
<1>11. \A e \in Received' : /\ until'[e] = IF e = d \/ off[e] <= 36 THEN d ELSE until[e]
                            /\ e \in Received \/ e = d
  <2>1. \A e \in Received' : e \in 1..MaxRecv /\ (e \in Received \/ e = d)
    BY <1>5
  <2>2. \A e \in Received : e \in Unrouted <=> off[e] <= 36
    BY DEF Unrouted
  <2>3. d \notin Unrouted
    BY <1>5 DEF Unrouted
  <2> QED  BY <1>4, <1>5, <2>1, <2>2
<1>12. BufInv'
  <2>1. ASSUME NEW f \in Fields, Len(rx') - 1 >= 1 PROVE buf'[f] = FrameField(rx'[Len(rx') - 1], f)
    <3>1. copying = {} /\ Len(rx) >= 1 /\ Len(rx') - 1 = Len(rx) /\ rx'[Len(rx)] = rx[Len(rx)]
      BY <1>1, <1>2, <1>4, <1>5, <2>1 DEF IInv, StageInv
    <3>2. buf[f] = FrameField(rx[Len(rx)], f)
      BY <3>1 DEF IInv, BufInv
    <3> QED  BY <1>4, <3>1, <3>2
  <2>2. ASSUME NEW e \in Received'
        PROVE  e <= until'[e] /\ until'[e] <= Len(rx') /\ (off'[e] <= 36 => until'[e] = Len(rx'))
    <3>1. CASE e = d \/ off[e] <= 36
      <4>1. e <= d
        BY <1>1, <1>2, <1>11, <3>1 DEF Received
      <4> QED  BY <1>2, <1>5, <1>11, <3>1, <4>1
    <3>2. CASE e # d /\ ~ (off[e] <= 36)
      <4>1. e \in Received /\ until'[e] = until[e]
        BY <1>11, <3>2
      <4>2. e <= until[e] /\ until[e] <= Len(rx) /\ until[e] \in Nat
        <5>1. e <= until[e] /\ until[e] <= Len(rx)
          BY <4>1 DEF IInv, BufInv
        <5>2. until \in [1..MaxRecv -> 0..MaxRecv]
          BY DEF IInv, TypeOK
        <5> QED  BY <1>5, <4>1, <5>1, <5>2
      <4> QED  BY <1>1, <1>2, <1>5, <1>9, <3>2, <4>1, <4>2
    <3> QED  BY <3>1, <3>2
  <2> QED  BY <1>4, <2>1, <2>2 DEF BufInv
<1>13. RouteInv'
  <2>1. RouteAt(d)'
    BY <1>3, ProtoFacts DEF Moved, RouteAt, Kinds
  <2>2. ASSUME NEW e \in 1..MaxRecv \ {d} PROVE RouteAt(e)'
    <3>1. CASE e \notin Received
      <4>1. \A k \in Kinds : \A p \in Protos : ~ In(k, p, e)'
        BY <1>3, <3>1 DEF Moved, IInv, UniqueInv
      <4> QED  BY <4>1, ProtoFacts DEF RouteAt, Kinds
    <3>2. CASE e \in Received
      <4>1. until[e] <= Len(rx) /\ until[e] <= until'[e] /\ e >= 1 /\ e \in Nat
            /\ until[e] \in Nat /\ until'[e] \in Nat
        <5>1. until[e] \in Nat /\ until[e] <= Len(rx) /\ until'[e] \in {d, until[e]}
          <6>1. until[e] <= Len(rx) /\ e \in Received'
            BY <1>5, <3>2 DEF IInv, BufInv
          <6>2. until \in [1..MaxRecv -> 0..MaxRecv]
            BY DEF IInv, TypeOK
          <6> QED  BY <1>5, <1>11, <3>2, <6>1, <6>2
        <5> QED  BY <1>1, <1>2, <3>2, <5>1 DEF Received
      <4>2. \A n \in e..until[e] : n \in e..until'[e] /\ rx'[n] = rx[n]
        BY <1>1, <1>5, <4>1
      <4>3. \A x : (SeenTransport(e, x) => SeenTransport(e, x)') /\ (SeenApp(e, x) => SeenApp(e, x)')
        BY <4>2 DEF SeenTransport, SeenApp
      <4>4. RouteAt(e) /\ \A k \in Kinds : \A p \in Protos : In(k, p, e)' <=> In(k, p, e)
        BY <1>3 DEF IInv, RouteInv, Moved
      <4>5. stage'[IP] = stage[IP] /\ stage'[TCP] = stage[TCP] /\ stage'[UDP] = stage[UDP] /\ hlp' = hlp
        BY <1>4, ProtoFacts
      <4>6. (In("hand", IP, e) /\ stage[IP] = "route" => SeenTransport(e, hlp[IP]))'
        BY <4>2, <4>4, <4>5, ProtoFacts DEF RouteAt, SeenTransport, Kinds
      <4>7. ASSUME NEW t \in {TCP, UDP}
            PROVE  (In("hand", t, e) /\ stage[t] = "route" => SeenApp(e, hlp[t]))'
        BY <4>2, <4>4, <4>5, ProtoFacts DEF RouteAt, SeenApp, Kinds
      <4>8. \A t \in {TCP, UDP} : In("pipe", t, e)' \/ In("hand", t, e)' => SeenTransport(e, t)'
        BY <4>3, <4>4, ProtoFacts DEF RouteAt, Kinds
      <4>9. /\ \A b \in AppProtos : \A k \in {"pipe", "hand", "counted"} : In(k, b, e)' => SeenApp(e, b)'
            /\ In("dropped", Ethernet, e)' => SeenTransport(e, TCP)' /\ SeenTransport(e, UDP)'
        BY <4>3, <4>4, ProtoFacts DEF RouteAt, Kinds
      <4> QED  BY <4>6, <4>7, <4>8, <4>9 DEF RouteAt
    <3> QED  BY <3>1, <3>2
  <2> QED  BY <2>1, <2>2 DEF RouteInv
<1> QED  BY <1>3, <1>6, <1>7, <1>10, <1>12, <1>13 DEF IInv

\* IInv after a part of a datagram has been copied.
LEMMA CopyFieldInv == \A f \in Fields : IInv /\ CopyField(f) => IInv'
<1> SUFFICES ASSUME NEW f \in Fields, IInv, CopyField(f) PROVE IInv'
  OBVIOUS
<1>1. TypeOK' /\ StageInv' /\ Still
  BY CopyFieldBasics
<1>2. /\ UNCHANGED <<rx, until, stage, hand, off, hlp, recvPipe, counted, dropped>>
      /\ copying' = copying \ {f} /\ f \in copying
      /\ buf' = [buf EXCEPT ![f] = FrameField(rx[Len(rx)], f)] /\ buf \in [Fields -> 0..8]
  BY DEF CopyField, history, IInv, TypeOK
<1>3. Received' = Received
  BY <1>2 DEF Received
<1>4. UniqueInv'
  BY <1>1, <1>3, StillUnique DEF IInv
<1>5. OrderInv' /\ OffInv'
  BY <1>1, <1>2, <1>3 DEF IInv, OrderInv, OffInv, Still, In, StrippedIn
<1>6. BufInv'
  BY <1>2, <1>3 DEF IInv, BufInv
<1>7. RouteInv'
  BY <1>2 DEF IInv, RouteInv, RouteAt, SeenTransport, SeenApp, In
<1> QED  BY <1>1, <1>4, <1>5, <1>6, <1>7 DEF IInv
-----------------------------------------------------------------------------
(* The invariant is inductive.                                             *)

\* Nothing has arrived and every place is empty.
LEMMA InitInv == Init => IInv
<1> SUFFICES ASSUME Init PROVE IInv
  OBVIOUS
<1>1. /\ rx = << >> /\ Len(rx) = 0 /\ Received = {} /\ copying = {} /\ dropped = {}
      /\ buf = [f \in Fields |-> 0] /\ stage = [p \in Protos |-> "read"]
      /\ hand = [p \in Protos |-> 0] /\ hlp = [p \in Protos |-> 0]
      /\ off = [d \in 1..MaxRecv |-> 0] /\ until = [d \in 1..MaxRecv |-> 0]
      /\ recvPipe = [p \in Protos |-> << >>] /\ counted = [a \in AppProtos |-> << >>]
  BY DEF Init, Received
<1>2. TypeOK
  <2>1. rx \in Seq(Apps) /\ Len(rx) <= MaxRecv
    BY <1>1, MaxRecvAssumption
  <2>2. recvPipe \in [Protos -> Seq(1..MaxRecv)] /\ counted \in [AppProtos -> Seq(1..MaxRecv)]
    BY <1>1
  <2>3. \A p \in Protos : Len(recvPipe[p]) <= PipeCap
    BY <1>1, PipeCapAssumption
  <2>4. /\ buf \in [Fields -> 0..8] /\ hlp \in [Protos -> 0..8]
        /\ off \in [1..MaxRecv -> 0..BUFSIZE]
    BY <1>1 DEF BUFSIZE
  <2>5. hand \in [Protos -> 0..MaxRecv] /\ until \in [1..MaxRecv -> 0..MaxRecv]
    BY <1>1, MaxRecvAssumption
  <2>6. stage \in [Protos -> Stages] /\ copying \subseteq Fields /\ dropped \subseteq 1..MaxRecv
    BY <1>1 DEF Stages
  <2> QED  BY <2>1, <2>2, <2>3, <2>4, <2>5, <2>6 DEF TypeOK
<1>3. StageInv
  BY <1>1, ProtoFacts DEF StageInv
<1>4. ASSUME NEW d \in 1..MaxRecv, NEW k \in Kinds, NEW p \in Protos PROVE ~ In(k, p, d)
  <2>1. ~ Has(recvPipe[p], d) /\ (p \in AppProtos => ~ Has(counted[p], d))
    BY <1>1 DEF Has
  <2> QED  BY <1>1, <2>1, ProtoFacts DEF In
<1>5. UniqueInv
  BY <1>1, <1>4 DEF UniqueInv
<1>6. OrderInv
  BY <1>1, <1>4 DEF OrderInv, Increasing
<1>7. OffInv
  BY <1>1, <1>4, ProtoFacts DEF OffInv, Kinds
<1>8. BufInv
  BY <1>1 DEF BufInv
<1>9. RouteInv
  BY <1>4, ProtoFacts DEF RouteInv, RouteAt, Kinds
<1> QED  BY <1>2, <1>3, <1>5, <1>6, <1>7, <1>8, <1>9 DEF IInv

\* A step that changes nothing.
LEMMA StutterInv == IInv /\ UNCHANGED vars => IInv'
<1> SUFFICES ASSUME IInv, UNCHANGED vars PROVE IInv'
  OBVIOUS
<1>1. UNCHANGED <<rx, buf, copying, stage, hand, off, hlp, recvPipe, counted, dropped, until>>
  BY DEF vars
<1>2. TypeOK' /\ StageInv' /\ Received' = Received /\ Still
  BY <1>1 DEF IInv, TypeOK, StageInv, Received, Still, In
<1>3. UniqueInv'
  BY <1>2, StillUnique DEF IInv
<1>4. OrderInv' /\ OffInv' /\ BufInv'
  BY <1>1, <1>2 DEF IInv, OrderInv, OffInv, BufInv, Still, In, StrippedIn
<1>5. RouteInv'
  BY <1>1 DEF IInv, RouteInv, RouteAt, SeenTransport, SeenApp, In
<1> QED  BY <1>2, <1>3, <1>4, <1>5 DEF IInv

\* Every step keeps the invariant.
LEMMA NextInv == IInv /\ [Next]_vars => IInv'
<1> SUFFICES ASSUME IInv, [Next]_vars PROVE IInv'
  OBVIOUS
<1>1. CASE read_from_UDP
  BY <1>1, RecvFromInv, CopyFieldInv, NewMessageInv, WriteToIPInv DEF read_from_UDP
<1>2. CASE \E p \in {IP, TCP, UDP} : RoutingThread(p)
  BY <1>2, ReadUnitInv, StripHdrInv, DemultiplexInv, FallThroughInv, ProtoFacts DEF RoutingThread
<1>3. CASE \E a \in AppProtos : CountingThread(a)
  BY <1>3, ReadUnitInv, CountInv, ProtoFacts DEF CountingThread
<1>4. CASE UNCHANGED vars
  BY <1>4, StutterInv
<1>5. IPRecvFunc \/ TCPRecvFunc \/ UDPRecvFunc => \E p \in {IP, TCP, UDP} : RoutingThread(p)
  BY DEF IPRecvFunc, TCPRecvFunc, UDPRecvFunc
<1>6. FTPRecvFunc \/ TelnetRecvFunc \/ RDPRecvFunc \/ DNSCRecvFunc => \E a \in AppProtos : CountingThread(a)
  BY ProtoFacts DEF FTPRecvFunc, TelnetRecvFunc, RDPRecvFunc, DNSCRecvFunc
<1>7. Idle => UNCHANGED vars
  BY DEF Idle
<1> QED  BY <1>1, <1>2, <1>3, <1>4, <1>5, <1>6, <1>7 DEF Next

\* The invariant holds in every reachable state.
THEOREM Invariance == Spec => []IInv
  BY InitInv, NextInv, PTL DEF Spec

-----------------------------------------------------------------------------
(* The theorems.                                                           *)

\* Every variable of the receiving half keeps its type: in particular no
\* Message is stripped past its end and no pipe holds more than PipeCap.
THEOREM TypeCorrect == Spec => []TypeOK
  BY Invariance, PTL DEF IInv

\* Each application's thread counts Messages in the order recvfrom returned
\* them, whatever routes they took through the pipes.
THEOREM CountedInOrderCorrect == Spec => []CountedInOrder
<1>1. IInv => CountedInOrder
  BY DEF IInv, OrderInv, Increasing, CountedInOrder
<1> QED  BY <1>1, Invariance, PTL

\* The demultiplexers take a Message for another one only if that one's
\* recvfrom began before the Message's transport header was stripped.
THEOREM RoutedByOverlappingCorrect == Spec => []RoutedByOverlapping
<1>1. ASSUME IInv PROVE RoutedByOverlapping
  <2> SUFFICES ASSUME NEW d \in Received
               PROVE  /\ \A a \in AppProtos : CountedBy(a, d) => \E e \in d..until[d] : rx[e] = a
                      /\ d \in dropped => \E e, f \in d..until[d] : Transport(rx[e]) # Transport(rx[f])
    BY DEF RoutedByOverlapping
  <2>1. d \in 1..MaxRecv
    BY <1>1, MaxRecvAssumption DEF IInv, TypeOK, Received
  <2>2. RouteAt(d)
    BY <1>1, <2>1 DEF IInv, RouteInv
  <2>3. ASSUME NEW a \in AppProtos, CountedBy(a, d) PROVE \E e \in d..until[d] : rx[e] = a
    <3>1. In("counted", a, d)
      BY <2>3 DEF In, CountedBy, Has
    <3> QED  BY <2>2, <3>1 DEF RouteAt, SeenApp
  <2>4. ASSUME d \in dropped PROVE \E e, f \in d..until[d] : Transport(rx[e]) # Transport(rx[f])
    <3>1. SeenTransport(d, TCP) /\ SeenTransport(d, UDP)
      BY <2>2, <2>4 DEF RouteAt, In
    <3> QED  BY <3>1 DEF SeenTransport, TCP, UDP
  <2> QED  BY <2>3, <2>4
<1> QED  BY <1>1, Invariance, PTL

\* Where Places says a Message is, by the kind of place.
PlaceOf(x, k, p, d) ==
  \/ k = "arriving" /\ p = Ethernet /\ x = <<"arriving", 0, 0>> /\ d = Len(rx) /\ stage[Ethernet] = "copy"
  \/ k = "pipe" /\ \E n \in DOMAIN recvPipe[p] : recvPipe[p][n] = d /\ x = <<"pipe", p, n>>
  \/ k = "hand" /\ hand[p] = d /\ x = <<"hand", p, 0>>
  \/ k = "counted" /\ p \in AppProtos /\ \E n \in DOMAIN counted[p] : counted[p][n] = d /\ x = <<"counted", p, n>>
  \/ k = "dropped" /\ p = Ethernet /\ x = <<"dropped", 0, 0>> /\ d \in dropped

\* Places(d) lists these kinds of place and no other.
LEMMA PlacesFacts ==
  ASSUME NEW d, NEW x
  PROVE  x \in Places(d) <=> \E k \in Kinds : \E p \in Protos : PlaceOf(x, k, p, d)
<1>1. x \in Places(d) <=>
        \/ x = <<"arriving", 0, 0>> /\ d = Len(rx) /\ stage[Ethernet] = "copy"
        \/ \E p \in Protos : hand[p] = d /\ x = <<"hand", p, 0>>
        \/ \E p \in Protos : \E n \in DOMAIN recvPipe[p] : recvPipe[p][n] = d /\ x = <<"pipe", p, n>>
        \/ \E a \in AppProtos : \E n \in DOMAIN counted[a] : counted[a][n] = d /\ x = <<"counted", a, n>>
        \/ x = <<"dropped", 0, 0>> /\ d \in dropped
  <2> DEFINE Queued(p) == {<<"pipe", p, n>> : n \in {m \in DOMAIN recvPipe[p] : recvPipe[p][m] = d}}
             Counted(a) == {<<"counted", a, n>> : n \in {m \in DOMAIN counted[a] : counted[a][m] = d}}
             Arriving == {<<"arriving", 0, 0>> : y \in {z \in {d} : d = Len(rx) /\ stage[Ethernet] = "copy"}}
             Held == {<<"hand", p, 0>> : p \in {q \in Protos : hand[q] = d}}
             Dropped == {<<"dropped", 0, 0>> : y \in {d} \cap dropped}
  <2>1. Places(d) = Arriving \cup Held \cup (UNION {Queued(p) : p \in Protos})
                    \cup (UNION {Counted(a) : a \in AppProtos}) \cup Dropped
    BY Zenon DEF Places
  <2>2. x \in Arriving <=> x = <<"arriving", 0, 0>> /\ d = Len(rx) /\ stage[Ethernet] = "copy"
    OBVIOUS
  <2>3. x \in Held <=> \E p \in Protos : hand[p] = d /\ x = <<"hand", p, 0>>
    BY Zenon
  <2>4. x \in Dropped <=> x = <<"dropped", 0, 0>> /\ d \in dropped
    OBVIOUS
  <2>5. x \in UNION {Queued(p) : p \in Protos} <=>
          \E p \in Protos : \E n \in DOMAIN recvPipe[p] : recvPipe[p][n] = d /\ x = <<"pipe", p, n>>
    <3>1. ASSUME NEW S \in {Queued(p) : p \in Protos}, x \in S
          PROVE  \E p \in Protos : \E n \in DOMAIN recvPipe[p] : recvPipe[p][n] = d /\ x = <<"pipe", p, n>>
      <4>1. PICK p \in Protos : S = Queued(p)
        BY Zenon
      <4> QED  BY Zenon, <3>1, <4>1
    <3>2. ASSUME NEW p \in Protos, NEW n \in DOMAIN recvPipe[p], recvPipe[p][n] = d, x = <<"pipe", p, n>>
          PROVE  x \in UNION {Queued(q) : q \in Protos}
      <4>1. x \in Queued(p)
        BY Zenon, <3>2
      <4> QED  BY Zenon, <4>1
    <3> QED  BY Zenon, <3>1, <3>2
  <2>6. x \in UNION {Counted(a) : a \in AppProtos} <=>
          \E a \in AppProtos : \E n \in DOMAIN counted[a] : counted[a][n] = d /\ x = <<"counted", a, n>>
    <3>1. ASSUME NEW S \in {Counted(a) : a \in AppProtos}, x \in S
          PROVE  \E a \in AppProtos : \E n \in DOMAIN counted[a] : counted[a][n] = d /\ x = <<"counted", a, n>>
      <4>1. PICK a \in AppProtos : S = Counted(a)
        BY Zenon
      <4> QED  BY Zenon, <3>1, <4>1
    <3>2. ASSUME NEW a \in AppProtos, NEW n \in DOMAIN counted[a], counted[a][n] = d, x = <<"counted", a, n>>
          PROVE  x \in UNION {Counted(b) : b \in AppProtos}
      <4>1. x \in Counted(a)
        BY Zenon, <3>2
      <4> QED  BY Zenon, <4>1
    <3> QED  BY Zenon, <3>1, <3>2
  <2> DEFINE AllQueued == UNION {Queued(p) : p \in Protos}
             AllCounted == UNION {Counted(a) : a \in AppProtos}
  <2>7. Places(d) = Arriving \cup Held \cup AllQueued \cup AllCounted \cup Dropped
    BY Zenon, <2>1
  <2>8. /\ x \in AllQueued <=> x \in UNION {Queued(p) : p \in Protos}
        /\ x \in AllCounted <=> x \in UNION {Counted(a) : a \in AppProtos}
    BY Zenon
  <2> HIDE DEF Arriving, Held, Dropped, AllQueued, AllCounted
  <2>9. x \in Places(d) <=>
          x \in Arriving \/ x \in Held \/ x \in AllQueued \/ x \in AllCounted \/ x \in Dropped
    BY Zenon, <2>7
  <2> QED  BY Zenon, <2>2, <2>3, <2>4, <2>5, <2>6, <2>8, <2>9
<1>2. Ethernet \in Protos /\ AppProtos \subseteq Protos
  BY ProtoFacts
<1>3. x \in Places(d) => \E k \in Kinds : \E p \in Protos : PlaceOf(x, k, p, d)
  BY <1>1, <1>2 DEF PlaceOf, Kinds
<1>4. ASSUME NEW k \in Kinds, NEW p \in Protos, PlaceOf(x, k, p, d) PROVE x \in Places(d)
  BY <1>1, <1>4 DEF PlaceOf
<1> QED  BY <1>3, <1>4

\* Every datagram received is in exactly one place, and only once: overrunning
\* buf duplicates no Message and forgets none.
THEOREM AccountingCorrect == Spec => []Accounting
<1>1. ASSUME IInv PROVE Accounting
  <2> SUFFICES ASSUME NEW d \in 1..MaxRecv
               PROVE  IF d \in Received THEN \E x \in Places(d) : Places(d) = {x}
                                         ELSE Places(d) = {}
    BY DEF Accounting
  <2>1. ASSUME NEW k \in Kinds, NEW p \in Protos
        PROVE  In(k, p, d) <=> \E x : PlaceOf(x, k, p, d)
    BY DEF In, PlaceOf, Has
  <2>2. ASSUME NEW k \in Kinds, NEW p \in Protos, NEW x, NEW y,
               PlaceOf(x, k, p, d), PlaceOf(y, k, p, d)
        PROVE  x = y
    <3>1. /\ \A n, m \in DOMAIN recvPipe[p] : recvPipe[p][n] = d /\ recvPipe[p][m] = d => n = m
          /\ p \in AppProtos => \A n, m \in DOMAIN counted[p] : counted[p][n] = d /\ counted[p][m] = d => n = m
      <4>1. /\ recvPipe[p] \in Seq(1..MaxRecv) /\ Increasing(recvPipe[p])
            /\ p \in AppProtos => counted[p] \in Seq(1..MaxRecv) /\ Increasing(counted[p])
        BY <1>1 DEF IInv, TypeOK, OrderInv
      <4>2. ASSUME NEW s \in Seq(1..MaxRecv), Increasing(s), NEW n \in DOMAIN s, NEW m \in DOMAIN s,
                   s[n] = d, s[m] = d
            PROVE  n = m
        <5>1. n \in Nat /\ m \in Nat /\ ~ (n < m) /\ ~ (m < n)
          BY <4>2 DEF Increasing
        <5> QED  BY <5>1
      <4> QED  BY <4>1, <4>2
    <3> QED  BY <2>2, <3>1 DEF PlaceOf, Kinds
  <2>3. \A k, j \in Kinds : \A p, q \in Protos : In(k, p, d) /\ In(j, q, d) => k = j /\ p = q
    BY <1>1 DEF IInv, UniqueInv
  <2>4. \A x, y \in Places(d) : x = y
    BY <2>1, <2>2, <2>3, PlacesFacts
  <2>5. d \in Received <=> \E x : x \in Places(d)
    <3>1. d \in Received <=> \E k \in Kinds : \E p \in Protos : In(k, p, d)
      BY <1>1 DEF IInv, UniqueInv
    <3> QED  BY <2>1, <3>1, PlacesFacts
  <2> QED  BY <2>4, <2>5
<1> QED  BY <1>1, Invariance, PTL
-----------------------------------------------------------------------------
(* Deadlock.  When a thread is not kept waiting, by an empty pipe or by a  *)
(* full one: the guards of its actions.  The receiving thread can take the *)
(* next field or make the Message while it copies.                         *)
CanHandle == \/ stage[Ethernet] = "copy"
             \/ stage[Ethernet] = "write" /\ Len(recvPipe[IP]) < PipeCap

CanRun(p) == \/ stage[p] = "read" /\ recvPipe[p] # << >>
             \/ stage[p] = "got"
             \/ stage[p] = "route" /\ (hlp[p] \in Routes(p) => Len(recvPipe[hlp[p]]) < PipeCap)

AllWaiting == ~ CanHandle /\ \A p \in Protos \ {Ethernet} : ~ CanRun(p)

AllSettled == \A d \in Received : d \in dropped \/ \E a \in AppProtos : CountedBy(a, d)

\* A layer all of whose routes are empty can only wait for a Message.
LEMMA WaitsToRead ==
  ASSUME IInv, AllWaiting, NEW p \in Protos \ {Ethernet},
         p \in {IP, TCP, UDP} => \A q \in Routes(p) : recvPipe[q] = << >>
  PROVE  hand[p] = 0 /\ recvPipe[p] = << >>
<1>1. /\ stage[p] \in {"read", "got", "route"} /\ (stage[p] = "read" => hand[p] = 0)
      /\ p \notin {IP, TCP, UDP} => stage[p] # "route"
  BY ProtoFacts DEF IInv, StageInv
<1>2. ~ CanRun(p)
  BY DEF AllWaiting
<1>3. \A q \in Routes(p) : recvPipe[q] = << >> => Len(recvPipe[q]) < PipeCap
  BY PipeCapAssumption
<1> QED  BY <1>1, <1>2, <1>3 DEF CanRun

\* The threads never all wait for each other, whatever the capacity of the
\* pipes and wherever overwritten headers route Messages: some thread can go on
\* until every datagram received is counted or dropped.
THEOREM NeverAllWaiting == Spec => [](AllWaiting => AllSettled)
<1>1. IInv => (AllWaiting => AllSettled)
  <2> SUFFICES ASSUME IInv, AllWaiting PROVE AllSettled
    OBVIOUS
  <2>1. \A a \in AppProtos : hand[a] = 0 /\ recvPipe[a] = << >>
    BY WaitsToRead, ProtoFacts
  <2>2. \A t \in {TCP, UDP} : hand[t] = 0 /\ recvPipe[t] = << >>
    <3>1. \A t \in {TCP, UDP} : Routes(t) \subseteq AppProtos
      BY ProtoFacts DEF Routes
    <3> QED  BY <2>1, <3>1, WaitsToRead, ProtoFacts
  <2>3. hand[IP] = 0 /\ recvPipe[IP] = << >>
    <3>1. Routes(IP) = {TCP, UDP}
      BY DEF Routes
    <3> QED  BY <2>2, <3>1, WaitsToRead, ProtoFacts
  <2>4. stage[Ethernet] = "read" /\ hand[Ethernet] = 0 /\ recvPipe[Ethernet] = << >>
    <3>1. ~ CanHandle /\ Len(recvPipe[IP]) < PipeCap
      BY <2>3, PipeCapAssumption DEF AllWaiting
    <3> QED  BY <3>1 DEF CanHandle, IInv, StageInv
  <2>5. \A p \in Protos : hand[p] = 0 /\ recvPipe[p] = << >>
    BY <2>1, <2>2, <2>3, <2>4, ProtoFacts
  <2>6. ASSUME NEW d \in Received PROVE d \in dropped \/ \E a \in AppProtos : CountedBy(a, d)
    <3>1. d \in 1..MaxRecv /\ d # 0
      <4>1. Len(rx) \in Nat /\ Len(rx) <= MaxRecv
        BY DEF IInv, TypeOK
      <4> QED  BY <4>1, MaxRecvAssumption DEF Received
    <3>2. PICK k \in Kinds, p \in Protos : In(k, p, d)
      BY <3>1 DEF IInv, UniqueInv
    <3>3. k \notin {"arriving", "hand", "pipe"}
      BY <2>4, <2>5, <3>1, <3>2 DEF In, Has
    <3> QED  BY <3>2, <3>3 DEF In, Kinds, Has, CountedBy
  <2> QED  BY <2>6 DEF AllSettled
<1> QED  BY <1>1, Invariance, PTL
=============================================================================
