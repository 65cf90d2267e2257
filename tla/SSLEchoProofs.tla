---------------------------- MODULE SSLEchoProofs ----------------------------
(***************************************************************************)
(* Theorems about SSLEcho, for any connections, lines and descriptors.     *)
(***************************************************************************)
EXTENDS SSLEcho, SequenceTheorems, WellFoundedInduction, TLAPS

-----------------------------------------------------------------------------
(* The invariant.  A client sends a line only when the last has come back, *)
(* so one line of each is under way at most: on the network, arrived, or   *)
(* in buf.  An open descriptor has the SSL of the connection open on it.   *)

\* The server holds a line of k that it has read and not written.
InBuf(k) == pc = "write" /\ ssl[fd] = k

Outstanding(k) == wrote[k] = Len(echo[k]) + 1

StreamInv ==
  \A k \in Conns :
    /\ \A n \in DOMAIN echo[k] : echo[k][n] = <<k, n>>
    /\ wrote[k] = Len(echo[k]) \/ Outstanding(k)
    /\ half[k] => Outstanding(k) /\ arrived[k] = << >> /\ ~ InBuf(k)
    /\ arrived[k] # << >> => Outstanding(k) /\ ~ InBuf(k) /\ arrived[k] = << <<k, wrote[k]>> >>
    /\ InBuf(k) => Outstanding(k) /\ buf = <<k, wrote[k]>>

ServerInv ==
  /\ afds = {f \in FDs : sock[f] # None}
  /\ \A f \in afds : ssl[f] = sock[f]
  /\ pc = "accept" => backlog # << >>
  /\ pc \in {"shake", "write"} => fd \in FDs /\ ssl[fd] \in Conns

IInv == TypeOK /\ StreamInv /\ ServerInv

\* A set of descriptors that is not empty has a lowest one.
LEMMA LowestIsLeast ==
  ASSUME NEW S \in SUBSET FDs, S # {}
  PROVE  Lowest(S) \in S
<1> DEFINE R == {rr \in Nat \X Nat : rr[1] < rr[2]}
<1>1. IsWellFoundedOn(R, Nat)
  BY NatLessThanWellFounded DEF OpToRel
<1>2. S \subseteq Nat
  BY FDsAssumption
<1>3. PICK f \in S : \A g \in S : ~ (<<g, f>> \in R)
  BY <1>1, <1>2, WFMin
<1>4. ASSUME NEW g \in S PROVE f <= g
  <2>1. f \in Nat /\ g \in Nat
    BY <1>2
  <2>2. g < f => <<g, f>> \in R
    BY <2>1
  <2> QED  BY <1>3, <2>1, <2>2
<1> QED  BY <1>4 DEF Lowest

\* At the start nothing has been sent and no descriptor is open.
LEMMA InitIInv == Init => IInv
<1> SUFFICES ASSUME Init PROVE IInv
  OBVIOUS
<1> USE DEF Init
<1>1. TypeOK
  BY LinesAssumption DEF TypeOK
<1>2. ASSUME NEW k \in Conns
      PROVE  /\ wrote[k] = 0 /\ ~ half[k] /\ echo[k] = << >> /\ arrived[k] = << >> /\ ~ InBuf(k)
  BY DEF InBuf
<1>3. StreamInv
  <2>1. Len(<< >>) = 0 /\ DOMAIN << >> = {}
    OBVIOUS
  <2> QED  BY <1>2, <2>1 DEF StreamInv
<1>4. ServerInv
  BY DEF ServerInv
<1> QED  BY <1>1, <1>3, <1>4 DEF IInv

\* What the invariant says of the descriptor the loop comes to.
LEMMA ReadyFdFacts ==
  ASSUME IInv, rfds # {}
  PROVE  /\ ReadyFd \in rfds /\ ReadyFd \in FDs /\ ReadyFd \in afds
         /\ ssl[ReadyFd] = sock[ReadyFd] /\ ssl[ReadyFd] \in Conns
<1>1. rfds \in SUBSET FDs /\ rfds \subseteq afds /\ sock \in [FDs -> Conns \cup {None}]
  BY DEF IInv, TypeOK
<1>2. ReadyFd \in rfds
  BY <1>1, LowestIsLeast DEF ReadyFd
<1> HIDE DEF ReadyFd
<1> QED  BY <1>1, <1>2 DEF IInv, ServerInv

\* What it says of the descriptor of a connection just accepted.
LEMMA AcceptFacts ==
  ASSUME IInv, Unused # {}
  PROVE  Lowest(Unused) \in FDs /\ sock[Lowest(Unused)] = None /\ Lowest(Unused) \notin afds
<1>1. Unused \in SUBSET FDs
  BY DEF Unused
<1>2. Lowest(Unused) \in Unused
  BY <1>1, LowestIsLeast
<1> QED  BY <1>2 DEF Unused, IInv, ServerInv

-----------------------------------------------------------------------------
(* Each step keeps the types.                                              *)
\* Each action in turn.
LEMMA NextTypeOK == IInv /\ [Next]_vars => TypeOK'
<1> SUFFICES ASSUME IInv, [Next]_vars PROVE TypeOK'
  OBVIOUS
<1>0. TypeOK
  BY DEF IInv
<1> USE DEF clientVars, serverVars
<1>1. CASE UNCHANGED vars
  BY <1>0, <1>1 DEF vars, TypeOK
<1>2. ASSUME NEW k \in Conns, Client(k) PROVE TypeOK'
  <2>1. CASE Connect(k)
    BY <1>0, <2>1 DEF Connect, TypeOK
  <2>2. CASE Agree(k)
    BY <1>0, <2>2 DEF Agree, TypeOK
  <2>3. CASE SendLine(k)
    <3>1. /\ wrote' = [wrote EXCEPT ![k] = @ + 1] /\ wrote[k] < Lines /\ wrote[k] \in 0..Lines
          /\ \/ half' = [half EXCEPT ![k] = TRUE] /\ UNCHANGED arrived
             \/ arrived' = [arrived EXCEPT ![k] = Append(@, <<k, wrote'[k]>>)] /\ UNCHANGED half
          /\ UNCHANGED <<client, echo, serverVars>>
      BY <1>0, <2>3 DEF SendLine, TypeOK
    <3>2. wrote' \in [Conns -> 0..Lines] /\ <<k, wrote'[k]>> \in Line
      BY <1>0, <3>1, LinesAssumption DEF TypeOK, Line
    <3>3. half' \in [Conns -> BOOLEAN]
      BY <1>0, <3>1 DEF TypeOK
    <3>4. arrived' \in [Conns -> Seq(Line)]
      <4>1. arrived \in [Conns -> Seq(Line)]
        BY <1>0 DEF TypeOK
      <4>2. ASSUME NEW l \in Line, arrived' = [arrived EXCEPT ![k] = Append(@, l)]
            PROVE  arrived' \in [Conns -> Seq(Line)]
        BY <4>1, <4>2
      <4> QED  BY <3>1, <3>2, <4>1, <4>2
    <3> QED  BY <1>0, <3>1, <3>2, <3>3, <3>4 DEF TypeOK
  <2>4. CASE RestArrives(k)
    <3>1. /\ half[k] /\ half' = [half EXCEPT ![k] = FALSE]
          /\ arrived' = [arrived EXCEPT ![k] = Append(@, <<k, wrote[k]>>)]
          /\ UNCHANGED <<client, wrote, echo, serverVars>>
      BY <2>4 DEF RestArrives
    <3>2. Outstanding(k) /\ wrote[k] \in 0..Lines /\ Len(echo[k]) \in Nat
      BY <1>0, <3>1 DEF IInv, StreamInv, TypeOK
    <3>3. <<k, wrote[k]>> \in Line
      BY <3>2, LinesAssumption DEF Line, Outstanding
    <3>4. arrived' \in [Conns -> Seq(Line)] /\ half' \in [Conns -> BOOLEAN]
      BY <1>0, <3>1, <3>3 DEF TypeOK
    <3> QED  BY <1>0, <3>1, <3>4 DEF TypeOK
  <2>5. CASE Close(k)
    BY <1>0, <2>5 DEF Close, TypeOK
  <2> QED  BY <1>2, <2>1, <2>2, <2>3, <2>4, <2>5 DEF Client
<1>3. CASE Select
  BY <1>0, <1>3 DEF Select, TypeOK
<1>4. CASE Accept
  <2>1. Unused # {} /\ backlog # << >> /\ backlog \in Seq(Conns)
    BY <1>0, <1>4 DEF Accept, IInv, ServerInv, TypeOK
  <2>2. Head(backlog) \in Conns /\ Tail(backlog) \in Seq(Conns)
    BY <2>1
  <2>3. PICK f \in FDs : f = Lowest(Unused)
    BY <2>1, AcceptFacts
  <2> QED  BY <1>0, <1>4, <2>2, <2>3 DEF Accept, TypeOK, NewSSL
<1>5. CASE AcceptPastEnd \/ ReadFails \/ WriteFails \/ EndScan
  BY <1>0, <1>5 DEF AcceptPastEnd, ReadFails, WriteFails, EndScan, TypeOK
<1>6. CASE SSL_accept
  BY <1>0, <1>6 DEF SSL_accept, TypeOK, IInv, ServerInv
<1>7. CASE ReadLine
  <2>1. PICK f \in FDs : f = ReadyFd
    BY <1>7, ReadyFdFacts DEF ReadLine
  <2>2. PICK k \in Conns : k = ssl[f]
    BY <1>7, <2>1, ReadyFdFacts DEF ReadLine
  <2>3. /\ arrived[k] # << >> /\ arrived[k] \in Seq(Line)
        /\ buf' = Head(arrived[k]) /\ arrived' = [arrived EXCEPT ![k] = Tail(@)]
        /\ fd' = f /\ rfds' = rfds \ {f} /\ pc' = "write"
        /\ UNCHANGED <<clientVars, echo, backlog, sock, ssl, tls, afds>>
    BY <1>0, <1>7, <2>1, <2>2 DEF ReadLine, TypeOK
  <2>4. buf' \in Line /\ arrived' \in [Conns -> Seq(Line)]
    BY <1>0, <2>3 DEF TypeOK
  <2> QED  BY <1>0, <2>3, <2>4 DEF TypeOK
<1>8. CASE CloseConn
  BY <1>0, <1>8 DEF CloseConn, TypeOK
<1>9. CASE SSL_write
  <2>1. PICK k \in Conns : k = ssl[fd]
    BY <1>9 DEF SSL_write, IInv, ServerInv
  <2>2. buf \in Line
    <3>1. buf = <<k, wrote[k]>> /\ Outstanding(k)
      BY <1>9, <2>1 DEF SSL_write, IInv, StreamInv, InBuf
    <3>2. wrote[k] \in 0..Lines /\ Len(echo[k]) \in Nat
      BY <1>0 DEF TypeOK
    <3> QED  BY <3>1, <3>2, LinesAssumption DEF Line, Outstanding
  <2>3. echo' \in [Conns -> Seq(Line)]
    BY <1>0, <1>9, <2>1, <2>2 DEF SSL_write, TypeOK
  <2> QED  BY <1>0, <1>9, <2>3 DEF SSL_write, TypeOK
<1> QED  BY <1>1, <1>2, <1>3, <1>4, <1>5, <1>6, <1>7, <1>8, <1>9 DEF Next, Server, Done

-----------------------------------------------------------------------------
(* Each step keeps the descriptors and the SSLs together.                  *)
\* Each action in turn.
LEMMA NextServerInv == IInv /\ [Next]_vars => ServerInv'
<1> SUFFICES ASSUME IInv, [Next]_vars PROVE ServerInv'
  OBVIOUS
<1>0. TypeOK /\ ServerInv
  BY DEF IInv
<1> USE DEF clientVars, serverVars
<1>1. CASE UNCHANGED <<backlog, sock, ssl, afds, pc, fd>>
  BY <1>0, <1>1 DEF ServerInv
<1>2. ASSUME NEW k \in Conns, Client(k) PROVE ServerInv'
  <2>1. CASE Connect(k)
    <3>1. backlog' # << >> /\ UNCHANGED <<sock, ssl, afds, pc, fd>>
      <4>1. backlog \in Seq(Conns) /\ Append(backlog, k) # << >>
        BY <1>0, <1>2, AppendProperties DEF TypeOK
      <4> QED  BY <2>1, <4>1 DEF Connect
    <3> QED  BY <1>0, <3>1 DEF ServerInv
  <2>2. CASE Agree(k) \/ SendLine(k) \/ RestArrives(k) \/ Close(k)
    BY <1>1, <2>2 DEF Agree, SendLine, RestArrives, Close
  <2> QED  BY <1>2, <2>1, <2>2 DEF Client
<1>3. CASE Select
  BY <1>0, <1>3 DEF Select, ServerInv
<1>4. CASE Accept
  <2>1. PICK f \in FDs : f = Lowest(Unused) /\ sock[f] = None /\ f \notin afds
    BY <1>4, AcceptFacts DEF Accept
  <2>2. PICK k \in Conns : k = Head(backlog)
    BY <1>0, <1>4 DEF Accept, ServerInv, TypeOK
  <2>3. /\ sock' = [sock EXCEPT ![f] = k] /\ ssl' = [ssl EXCEPT ![f] = k]
        /\ afds' = afds \cup {f} /\ fd' = f /\ pc' = "shake"
    BY <1>4, <2>1, <2>2 DEF Accept, NewSSL
  <2>4. sock \in [FDs -> Conns \cup {None}] /\ ssl \in [FDs -> Conns \cup {None}] /\ k # None
    BY <1>0, NoneAssumption DEF TypeOK
  <2> QED  BY <1>0, <2>1, <2>3, <2>4 DEF ServerInv
<1>5. CASE AcceptPastEnd \/ ReadFails \/ WriteFails \/ EndScan \/ SSL_accept \/ SSL_write
  BY <1>0, <1>5 DEF AcceptPastEnd, ReadFails, WriteFails, EndScan, SSL_accept, SSL_write, ServerInv
<1>6. CASE ReadLine
  <2>1. rfds # {} /\ fd' = ReadyFd /\ pc' = "write" /\ UNCHANGED <<backlog, sock, ssl, afds>>
    BY <1>6 DEF ReadLine
  <2>2. ReadyFd \in FDs /\ ssl[ReadyFd] \in Conns
    BY <2>1, ReadyFdFacts
  <2> QED  BY <1>0, <2>1, <2>2 DEF ServerInv
<1>7. CASE CloseConn
  <2>1. /\ rfds # {} /\ pc = "scan" /\ sock' = [sock EXCEPT ![ReadyFd] = None]
        /\ afds' = afds \ {ReadyFd} /\ UNCHANGED <<ssl, pc>>
    BY <1>7 DEF CloseConn, GoneNow
  <2>2. PICK f \in FDs : f = ReadyFd
    BY <2>1, ReadyFdFacts
  <2> QED  BY <1>0, <2>1, <2>2 DEF ServerInv, TypeOK
<1> QED  BY <1>1, <1>2, <1>3, <1>4, <1>5, <1>6, <1>7 DEF vars, Next, Server, Done

-----------------------------------------------------------------------------
(* Each step keeps one line of each connection under way.                  *)

\* StreamInv for one connection.
StreamOf(k) ==
  /\ \A n \in DOMAIN echo[k] : echo[k][n] = <<k, n>>
  /\ wrote[k] = Len(echo[k]) \/ Outstanding(k)
  /\ half[k] => Outstanding(k) /\ arrived[k] = << >> /\ ~ InBuf(k)
  /\ arrived[k] # << >> => Outstanding(k) /\ ~ InBuf(k) /\ arrived[k] = << <<k, wrote[k]>> >>
  /\ InBuf(k) => Outstanding(k) /\ buf = <<k, wrote[k]>>

\* A step that changes nothing of k's lines.
LEMMA SameStream ==
  ASSUME NEW k \in Conns, StreamOf(k), wrote'[k] = wrote[k], echo'[k] = echo[k],
         arrived'[k] = arrived[k], half'[k] \in {half[k], FALSE}, InBuf(k)' => InBuf(k) /\ buf' = buf
  PROVE  StreamOf(k)'
BY DEF StreamOf, Outstanding

\* Every step keeps every connection's lines so.
LEMMA NextStreamInv == IInv /\ [Next]_vars => StreamInv'
<1> SUFFICES ASSUME IInv, [Next]_vars, NEW j \in Conns PROVE StreamOf(j)'
  BY DEF StreamInv, StreamOf
<1>0. TypeOK /\ ServerInv /\ \A k \in Conns : StreamOf(k)
  BY DEF IInv, StreamInv, StreamOf
<1>00. wrote[j] \in Nat /\ arrived[j] \in Seq(Line) /\ echo[j] \in Seq(Line) /\ half[j] \in BOOLEAN
  BY <1>0, LinesAssumption DEF TypeOK
<1> USE DEF clientVars, serverVars
\* A step after which the server is not about to write disturbs no other line.
<1>1. ASSUME UNCHANGED <<wrote, half, arrived, echo>>, (pc' # "write") \/ UNCHANGED <<pc, ssl, fd, buf>>
      PROVE  StreamOf(j)'
  BY <1>0, <1>1, SameStream DEF InBuf
<1>2. ASSUME NEW k \in Conns, Client(k) PROVE StreamOf(j)'
  <2>1. CASE Connect(k) \/ Agree(k)
    BY <1>1, <2>1 DEF Connect, Agree
  <2>2. CASE SendLine(k) /\ k = j
    <3>1. /\ wrote[k] = Len(echo[k]) /\ wrote' = [wrote EXCEPT ![k] = @ + 1]
          /\ \/ half' = [half EXCEPT ![k] = TRUE] /\ UNCHANGED arrived
             \/ arrived' = [arrived EXCEPT ![k] = Append(@, <<k, wrote'[k]>>)] /\ UNCHANGED half
          /\ UNCHANGED <<client, echo, serverVars>>
      BY <2>2 DEF SendLine
    <3>2. ~ Outstanding(k) /\ ~ half[k] /\ arrived[k] = << >> /\ ~ InBuf(k)
      BY <1>0, <1>00, <2>2, <3>1 DEF StreamOf, Outstanding
    <3>3. wrote'[k] = wrote[k] + 1 /\ Outstanding(k)' /\ ~ InBuf(k)' /\ echo'[k] = echo[k]
      BY <1>0, <3>1, <3>2 DEF TypeOK, Outstanding, InBuf
    <3>4. CASE half' = [half EXCEPT ![k] = TRUE] /\ UNCHANGED arrived
      BY <1>0, <2>2, <3>2, <3>3, <3>4 DEF StreamOf, TypeOK
    <3>5. CASE arrived' = [arrived EXCEPT ![k] = Append(@, <<k, wrote'[k]>>)] /\ UNCHANGED half
      <4>1. arrived'[k] = << <<k, wrote'[k]>> >>
        BY <1>0, <3>2, <3>5 DEF TypeOK
      <4> QED  BY <1>0, <2>2, <3>2, <3>3, <3>5, <4>1 DEF StreamOf
    <3> QED  BY <3>1, <3>4, <3>5
  <2>3. CASE RestArrives(k) /\ k = j
    <3>1. /\ half[k] /\ half' = [half EXCEPT ![k] = FALSE]
          /\ arrived' = [arrived EXCEPT ![k] = Append(@, <<k, wrote[k]>>)]
          /\ UNCHANGED <<client, wrote, echo, serverVars>>
      BY <2>3 DEF RestArrives
    <3>2. Outstanding(k) /\ arrived[k] = << >> /\ ~ InBuf(k)
      BY <1>0, <2>3, <3>1 DEF StreamOf
    <3>3. arrived'[k] = << <<k, wrote[k]>> >> /\ ~ half'[k] /\ Outstanding(k)' /\ ~ InBuf(k)'
      BY <1>0, <3>1, <3>2 DEF TypeOK, Outstanding, InBuf
    <3> QED  BY <1>0, <2>3, <3>1, <3>3 DEF StreamOf
  <2>4. CASE (SendLine(k) \/ RestArrives(k)) /\ k # j
    <3>1. /\ wrote'[j] = wrote[j] /\ half'[j] = half[j] /\ arrived'[j] = arrived[j]
          /\ UNCHANGED <<echo, pc, ssl, fd, buf>>
      BY <1>0, <2>4 DEF SendLine, RestArrives, TypeOK
    <3> QED  BY <1>0, <3>1, SameStream DEF InBuf
  <2>5. CASE Close(k)
    <3>1. half'[j] \in {half[j], FALSE} /\ UNCHANGED <<wrote, arrived, echo, pc, ssl, fd, buf>>
      BY <1>0, <2>5 DEF Close, TypeOK
    <3> QED  BY <1>0, <3>1, SameStream DEF InBuf
  <2> QED  BY <1>2, <2>1, <2>2, <2>3, <2>4, <2>5 DEF Client
<1>3. CASE Select \/ AcceptPastEnd \/ ReadFails \/ WriteFails \/ EndScan \/ SSL_accept \/ CloseConn \/ Accept
  <2>1. UNCHANGED <<wrote, half, arrived, echo>> /\ (pc' # "write")
    BY <1>3 DEF Select, AcceptPastEnd, ReadFails, WriteFails, EndScan, SSL_accept, CloseConn, GoneNow, Accept
  <2> QED  BY <1>1, <2>1
<1>4. CASE ReadLine
  <2>1. PICK k \in Conns : k = ssl[ReadyFd]
    BY <1>4, ReadyFdFacts DEF ReadLine
  <2>2. /\ arrived[k] # << >> /\ pc = "scan"
        /\ buf' = Head(arrived[k]) /\ arrived' = [arrived EXCEPT ![k] = Tail(@)]
        /\ ssl'[fd'] = k /\ pc' = "write"
        /\ UNCHANGED <<clientVars, echo>>
    BY <1>4, <2>1 DEF ReadLine
  <2>3. CASE j = k
    <3>1. Outstanding(k) /\ ~ half[k] /\ arrived[k] = << <<k, wrote[k]>> >>
      BY <1>0, <2>2 DEF StreamOf
    <3>2. buf' = <<k, wrote[k]>> /\ arrived'[k] = << >>
      BY <1>0, <2>2, <3>1 DEF TypeOK
    <3>3. Outstanding(k)' /\ ~ half'[k] /\ buf' = <<k, wrote'[k]>>
      BY <2>2, <3>1, <3>2 DEF Outstanding
    <3> QED  BY <1>0, <2>2, <2>3, <3>1, <3>2, <3>3 DEF StreamOf
  <2>4. CASE j # k
    <3>1. ~ InBuf(j)' /\ arrived'[j] = arrived[j]
      BY <1>0, <2>2, <2>4 DEF InBuf, TypeOK
    <3> QED  BY <1>0, <2>2, <3>1, SameStream
  <2> QED  BY <2>3, <2>4
<1>5. CASE SSL_write
  <2>1. PICK k \in Conns : k = ssl[fd]
    BY <1>0, <1>5 DEF SSL_write, ServerInv
  <2>2. /\ InBuf(k) /\ echo' = [echo EXCEPT ![k] = Append(@, buf)]
        /\ pc' = "scan" /\ UNCHANGED <<clientVars, arrived>>
    BY <1>5, <2>1 DEF SSL_write, InBuf
  <2>3. CASE j = k
    <3>1. /\ buf = <<k, wrote[k]>> /\ wrote[k] = Len(echo[k]) + 1 /\ ~ half[k] /\ arrived[k] = << >>
          /\ \A n \in DOMAIN echo[k] : echo[k][n] = <<k, n>>
      BY <1>0, <1>00, <2>2, <2>3 DEF StreamOf, Outstanding
    <3>2. /\ buf \in Line
          /\ echo'[k] = Append(echo[k], buf) /\ echo[k] \in Seq(Line)
      <4>1. wrote[k] \in 1..Lines
        BY <1>0, <1>00, <2>3, <3>1, LinesAssumption DEF TypeOK
      <4> QED  BY <1>0, <2>2, <3>1, <4>1 DEF TypeOK, Line
    <3>3. Len(echo'[k]) = Len(echo[k]) + 1 /\ \A n \in DOMAIN echo'[k] : echo'[k][n] = <<k, n>>
      BY <3>1, <3>2
    <3>4. wrote'[k] = Len(echo'[k]) /\ ~ half'[k] /\ arrived'[k] = << >> /\ ~ InBuf(k)'
      BY <2>2, <3>1, <3>3 DEF InBuf
    <3> QED  BY <2>3, <3>3, <3>4 DEF StreamOf
  <2>4. CASE j # k
    <3>1. ~ InBuf(j)' /\ echo'[j] = echo[j]
      BY <1>0, <2>2, <2>4 DEF InBuf, TypeOK
    <3> QED  BY <1>0, <2>2, <3>1, SameStream
  <2> QED  BY <2>3, <2>4
<1> QED  BY <1>1, <1>2, <1>3, <1>4, <1>5 DEF vars, Next, Server, Done

-----------------------------------------------------------------------------
\* The invariant always holds.
THEOREM Invariance == Spec => []IInv
<1>1. IInv /\ [Next]_vars => IInv'
  BY NextTypeOK, NextServerInv, NextStreamInv DEF IInv
<1> QED  BY InitIInv, <1>1, PTL DEF Spec

\* Every variable keeps its type, whatever the clients do and however the
\* server ends.
THEOREM TypeCorrect == Spec => []TypeOK
<1>1. IInv => TypeOK
  BY DEF IInv
<1> QED  BY Invariance, <1>1, PTL

\* The one buffer of the server never mixes connections: each gets back its own
\* lines, in order and none twice, and the loop looks only at descriptors that
\* are open, with the SSL of the connection open on them.
THEOREM EchoesOwnCorrect == Spec => []EchoesOwn
<1>1. ASSUME IInv PROVE EchoesOwn
  <2>1. \A k \in Conns : \A n \in DOMAIN echo[k] : echo[k][n] = <<k, n>>
    BY <1>1 DEF IInv, StreamInv
  <2>2. \A f \in rfds : sock[f] # None /\ ssl[f] = sock[f]
    BY <1>1 DEF IInv, ServerInv, TypeOK
  <2> QED  BY <2>1, <2>2 DEF EchoesOwn
<1> QED  BY Invariance, <1>1, PTL

-----------------------------------------------------------------------------
(* The server stands still.  When the thread is not kept waiting, by select *)
(* or by a call on a connection: the guards of its actions.                *)
ReadReturns(k) == \/ k \in tls /\ arrived[k] # << >>
                  \/ client[k] = "closed" /\ arrived[k] = << >>

ServerCanRun == \/ pc = "select" /\ (backlog # << >> \/ \E f \in afds : Ready(f))
                \/ pc \in {"accept", "write"}
                \/ pc = "shake" /\ client[ssl[fd]] # "open"
                \/ pc = "scan" /\ (rfds # {} => ReadReturns(ssl[ReadyFd]))

(* The one connection whose client, still there, keeps the server waiting.  *)
HeldUpBy(k) ==
  \/ pc = "shake" /\ ssl[fd] = k /\ client[k] = "open"
  \/ /\ pc = "scan" /\ rfds # {} /\ ssl[ReadyFd] = k
     /\ client[k] = "agreed" /\ half[k] /\ arrived[k] = << >>

IsOpen(k) == \E f \in FDs : sock[f] = k

(* Every client that is there has a descriptor, every one that is gone has  *)
(* none, and nothing that was sent is still to be read.                    *)
AllServed == \A k \in Conns : /\ client[k] \in {"open", "agreed"} => IsOpen(k)
                              /\ client[k] = "closed" => ~ IsOpen(k)
                              /\ ~ half[k] /\ arrived[k] = << >>

In(k, s) == \E n \in DOMAIN s : s[n] = k

Distinct(s) == \A m, n \in DOMAIN s : s[m] = s[n] => m = n

(* Where a connection is: in the backlog or open on a descriptor as long as *)
(* its client is there, and no two on one descriptor; what it has sent came *)
(* after the handshake, and its descriptor stays open until that is read.   *)
PlaceOf(k) ==
  /\ In(k, backlog) => client[k] # "off" /\ ~ IsOpen(k)
  /\ IsOpen(k) => client[k] # "off"
  /\ client[k] \in {"open", "agreed"} => In(k, backlog) \/ IsOpen(k)
  /\ k \in tls => client[k] \in {"agreed", "closed"} /\ ~ In(k, backlog)
  /\ half[k] => client[k] = "agreed" /\ k \in tls
  /\ arrived[k] # << >> => k \in tls /\ IsOpen(k)

PlaceInv == /\ \A k \in Conns : PlaceOf(k)
            /\ Distinct(backlog)
            /\ \A f, g \in afds : sock[f] = sock[g] => f = g
            /\ pc = "shake" => fd \in afds

(* The descriptors still to look at are as ready as select found them.     *)
ReadyInv == pc \in {"accept", "shake", "scan", "write"} => \A f \in rfds : Ready(f)

ScanInv == IInv /\ PlaceInv /\ ReadyInv

StandsStillOnlyIf ==
  \/ ServerCanRun
  \/ pc \in {"exit", "undefined"}
  \/ \E k \in Conns : HeldUpBy(k)
  \/ AllServed

\* What is appended is in the sequence, with what was.
LEMMA Appended ==
  ASSUME NEW s \in Seq(Conns), NEW k \in Conns
  PROVE  /\ \A j : In(j, Append(s, k)) <=> In(j, s) \/ j = k
         /\ Distinct(s) /\ ~ In(k, s) => Distinct(Append(s, k))
<1>1. /\ DOMAIN s = 1..Len(s) /\ Len(s) \in Nat
      /\ DOMAIN Append(s, k) = 1..(Len(s) + 1)
      /\ \A n \in 1..Len(s) : Append(s, k)[n] = s[n]
      /\ Append(s, k)[Len(s) + 1] = k
  OBVIOUS
<1> DEFINE t == Append(s, k)
<1>2. /\ DOMAIN t = 1..(Len(s) + 1) /\ \A n \in 1..Len(s) : t[n] = s[n]
      /\ t[Len(s) + 1] = k
  BY <1>1
<1> HIDE DEF t
<1>3. \A j : In(j, t) <=> In(j, s) \/ j = k
  <2>1. ASSUME NEW j, In(j, t) PROVE In(j, s) \/ j = k
    <3>1. PICK n \in 1..(Len(s) + 1) : t[n] = j
      BY <1>2, <2>1 DEF In
    <3>2. n \in 1..Len(s) \/ n = Len(s) + 1
      BY <1>1, <3>1
    <3> QED  BY <1>1, <1>2, <3>1, <3>2 DEF In
  <2>2. ASSUME NEW j, In(j, s) PROVE In(j, t)
    <3>1. PICK n \in 1..Len(s) : s[n] = j
      BY <1>1, <2>2 DEF In
    <3>2. n \in 1..(Len(s) + 1)
      BY <1>1, <3>1
    <3> QED  BY <1>2, <3>1, <3>2 DEF In
  <2>3. In(k, t)
    <3>1. Len(s) + 1 \in 1..(Len(s) + 1)
      BY <1>1
    <3> QED  BY <1>2, <3>1 DEF In
  <2> QED  BY <2>1, <2>2, <2>3, Zenon
<1>4. Distinct(s) /\ ~ In(k, s) => Distinct(t)
  <2> SUFFICES ASSUME Distinct(s), ~ In(k, s), NEW m \in DOMAIN t, NEW n \in DOMAIN t, t[m] = t[n]
               PROVE  m = n
    BY DEF Distinct
  <2>1. (m \in 1..Len(s) \/ m = Len(s) + 1) /\ (n \in 1..Len(s) \/ n = Len(s) + 1)
    BY <1>1, <1>2
  <2>2. \A i \in 1..Len(s) : s[i] # k
    BY <1>1 DEF In
  <2> QED  BY <1>1, <1>2, <2>1, <2>2 DEF Distinct
<1> QED  BY <1>3, <1>4 DEF t

\* What is left of a sequence of distinct members is all of it but the first.
LEMMA Taken ==
  ASSUME NEW s \in Seq(Conns), s # << >>, Distinct(s)
  PROVE  /\ Head(s) \in Conns /\ In(Head(s), s)
         /\ Distinct(Tail(s))
         /\ \A j : In(j, Tail(s)) <=> In(j, s) /\ j # Head(s)
<1>1. /\ DOMAIN s = 1..Len(s) /\ Len(s) \in Nat /\ 1 \in 1..Len(s)
      /\ Head(s) = s[1] /\ s[1] \in Conns
      /\ DOMAIN Tail(s) = 1..(Len(s) - 1)
      /\ \A n \in 1..(Len(s) - 1) : n + 1 \in 1..Len(s) /\ Tail(s)[n] = s[n + 1]
  OBVIOUS
<1> DEFINE t == Tail(s)
<1>2. /\ DOMAIN t = 1..(Len(s) - 1)
      /\ \A n \in 1..(Len(s) - 1) : n + 1 \in 1..Len(s) /\ t[n] = s[n + 1]
  BY <1>1
<1> HIDE DEF t
<1>3. In(Head(s), s)
  BY <1>1 DEF In
<1>4. Distinct(t)
  <2> SUFFICES ASSUME NEW m \in DOMAIN t, NEW n \in DOMAIN t, t[m] = t[n] PROVE m = n
    BY DEF Distinct
  <2>1. s[m + 1] = s[n + 1] /\ m + 1 \in DOMAIN s /\ n + 1 \in DOMAIN s /\ m \in Int /\ n \in Int
    BY <1>1, <1>2
  <2>2. m + 1 = n + 1
    BY <2>1 DEF Distinct
  <2> QED  BY <2>1, <2>2
<1>5. ASSUME NEW j, In(j, t) PROVE In(j, s) /\ j # Head(s)
  <2>1. PICK n \in 1..(Len(s) - 1) : t[n] = j
    BY <1>2, <1>5 DEF In
  <2>2. n + 1 \in 1..Len(s) /\ s[n + 1] = j /\ n + 1 # 1
    BY <1>2, <2>1
  <2>3. s[n + 1] # s[1]
    BY <1>1, <2>2 DEF Distinct
  <2> QED  BY <1>1, <2>2, <2>3 DEF In
<1>6. ASSUME NEW j, In(j, s), j # Head(s) PROVE In(j, t)
  <2>1. PICK n \in 1..Len(s) : s[n] = j
    BY <1>1, <1>6 DEF In
  <2>2. n # 1
    BY <1>1, <1>6, <2>1
  <2>3. n - 1 \in 1..(Len(s) - 1) /\ (n - 1) + 1 = n
    BY <1>1, <2>1, <2>2
  <2>4. t[n - 1] = j
    BY <1>2, <2>1, <2>3
  <2> QED  BY <1>2, <2>3, <2>4 DEF In
<1>7. \A j : In(j, t) <=> In(j, s) /\ j # Head(s)
  BY <1>5, <1>6, Zenon
<1> QED  BY <1>1, <1>3, <1>4, <1>7 DEF t

\* A step that leaves the backlog and the descriptors alone.
LEMMA Unmoved ==
  ASSUME PlaceInv, UNCHANGED <<backlog, sock, afds>>, pc' = "shake" => UNCHANGED <<pc, fd>>,
         \A j \in Conns : (In(j, backlog)' <=> In(j, backlog)) /\ (IsOpen(j)' <=> IsOpen(j)) => PlaceOf(j)'
  PROVE  PlaceInv'
<1>1. \A j \in Conns : (In(j, backlog)' <=> In(j, backlog)) /\ (IsOpen(j)' <=> IsOpen(j))
  BY DEF In, IsOpen
<1>2. Distinct(backlog)'
  BY DEF PlaceInv, Distinct
<1> QED  BY <1>1, <1>2 DEF PlaceInv

\* Each step keeps the connections where they belong.
LEMMA NextPlaceInv == ScanInv /\ [Next]_vars => PlaceInv'
<1> SUFFICES ASSUME ScanInv, [Next]_vars PROVE PlaceInv'
  OBVIOUS
<1>0. TypeOK /\ ServerInv /\ PlaceInv /\ IInv
  BY DEF ScanInv, IInv
<1> USE DEF clientVars, serverVars
<1>1. ASSUME UNCHANGED <<client, half, arrived, backlog, sock, tls, afds>>,
             pc' = "shake" => UNCHANGED <<pc, fd>>
      PROVE  PlaceInv'
  <2>1. \A j \in Conns : (In(j, backlog)' <=> In(j, backlog)) /\ (IsOpen(j)' <=> IsOpen(j)) => PlaceOf(j)'
    BY <1>0, <1>1 DEF PlaceInv, PlaceOf
  <2> QED  BY <1>0, <1>1, <2>1, Unmoved
<1>2. ASSUME NEW k \in Conns, Client(k) PROVE PlaceInv'
  <2>1. CASE Connect(k)
    <3>1. /\ client[k] = "off" /\ client' = [client EXCEPT ![k] = "open"]
          /\ backlog' = Append(backlog, k) /\ UNCHANGED <<half, arrived, sock, tls, afds, pc, fd>>
      BY <2>1 DEF Connect
    <3>2. ~ In(k, backlog) /\ ~ IsOpen(k) /\ k \notin tls /\ ~ half[k] /\ arrived[k] = << >>
      BY <1>0, <3>1 DEF PlaceInv, PlaceOf
    <3>3. /\ \A j \in Conns : In(j, backlog)' <=> In(j, backlog) \/ j = k
          /\ Distinct(backlog)'
      <4>1. backlog \in Seq(Conns) /\ Distinct(backlog)
        BY <1>0 DEF TypeOK, PlaceInv
      <4>2. /\ \A j : In(j, Append(backlog, k)) <=> In(j, backlog) \/ j = k
            /\ Distinct(Append(backlog, k))
        BY <1>2, <3>2, <4>1, Appended, Zenon
      <4> QED  BY <3>1, <4>2 DEF In, Distinct
    <3>4. \A j \in Conns : IsOpen(j)' <=> IsOpen(j)
      BY <3>1 DEF IsOpen
    <3>5. \A j \in Conns : client'[j] = IF j = k THEN "open" ELSE client[j]
      BY <1>0, <3>1 DEF TypeOK
    <3>6. ASSUME NEW j \in Conns PROVE PlaceOf(j)'
      BY <1>0, <3>1, <3>2, <3>3, <3>4, <3>5 DEF PlaceInv, PlaceOf
    <3> QED  BY <1>0, <3>1, <3>3, <3>6 DEF PlaceInv
  <2>2. CASE Agree(k)
    <3>1. /\ client[k] = "open" /\ client' = [client EXCEPT ![k] = "agreed"]
          /\ UNCHANGED <<half, arrived, backlog, sock, tls, afds, pc, fd>>
      BY <2>2 DEF Agree
    <3>2. \A j \in Conns : client'[j] = IF j = k THEN "agreed" ELSE client[j]
      BY <1>0, <3>1 DEF TypeOK
    <3>3. \A j \in Conns : (In(j, backlog)' <=> In(j, backlog)) /\ (IsOpen(j)' <=> IsOpen(j)) => PlaceOf(j)'
      BY <1>0, <3>1, <3>2 DEF PlaceInv, PlaceOf
    <3> QED  BY <1>0, <3>1, <3>3, Unmoved
  <2>3. CASE SendLine(k)
    <3>1. /\ client[k] = "agreed" /\ k \in tls
          /\ \/ half' = [half EXCEPT ![k] = TRUE] /\ UNCHANGED arrived
             \/ arrived' = [arrived EXCEPT ![k] = Append(@, <<k, wrote'[k]>>)] /\ UNCHANGED half
          /\ UNCHANGED <<client, backlog, sock, tls, afds, pc, fd>>
      BY <2>3 DEF SendLine
    <3>2. IsOpen(k)
      BY <1>0, <3>1 DEF PlaceInv, PlaceOf
    <3>3. \A j \in Conns : j # k => half'[j] = half[j] /\ arrived'[j] = arrived[j]
      BY <1>0, <3>1 DEF TypeOK
    <3>4. \A j \in Conns : (In(j, backlog)' <=> In(j, backlog)) /\ (IsOpen(j)' <=> IsOpen(j)) => PlaceOf(j)'
      BY <1>0, <3>1, <3>2, <3>3 DEF PlaceInv, PlaceOf
    <3> QED  BY <1>0, <3>1, <3>4, Unmoved
  <2>4. CASE RestArrives(k)
    <3>1. /\ half[k] /\ half' = [half EXCEPT ![k] = FALSE]
          /\ arrived' = [arrived EXCEPT ![k] = Append(@, <<k, wrote[k]>>)]
          /\ UNCHANGED <<client, backlog, sock, tls, afds, pc, fd>>
      BY <2>4 DEF RestArrives
    <3>2. client[k] = "agreed" /\ k \in tls /\ IsOpen(k)
      BY <1>0, <3>1 DEF PlaceInv, PlaceOf
    <3>3. /\ \A j \in Conns : j # k => half'[j] = half[j] /\ arrived'[j] = arrived[j]
          /\ ~ half'[k]
      BY <1>0, <3>1 DEF TypeOK
    <3>4. \A j \in Conns : (In(j, backlog)' <=> In(j, backlog)) /\ (IsOpen(j)' <=> IsOpen(j)) => PlaceOf(j)'
      BY <1>0, <3>1, <3>2, <3>3 DEF PlaceInv, PlaceOf
    <3> QED  BY <1>0, <3>1, <3>4, Unmoved
  <2>5. CASE Close(k)
    <3>1. /\ client[k] \in {"open", "agreed"} /\ client' = [client EXCEPT ![k] = "closed"]
          /\ half' = [half EXCEPT ![k] = FALSE]
          /\ UNCHANGED <<arrived, backlog, sock, tls, afds, pc, fd>>
      BY <2>5 DEF Close
    <3>2. \A j \in Conns : /\ client'[j] = IF j = k THEN "closed" ELSE client[j]
                           /\ half'[j] = IF j = k THEN FALSE ELSE half[j]
      BY <1>0, <3>1 DEF TypeOK
    <3>3. ASSUME NEW j \in Conns, In(j, backlog)' <=> In(j, backlog), IsOpen(j)' <=> IsOpen(j)
          PROVE  PlaceOf(j)'
      <4>1. PlaceOf(j)
        BY <1>0 DEF PlaceInv
      <4>2. CASE j = k
        <5>1. client'[j] = "closed" /\ ~ half'[j] /\ client[j] # "off"
          BY <1>2, <3>1, <3>2, <4>2
        <5>2. UNCHANGED <<arrived, tls>>
          BY <3>1
        <5> QED  BY <3>1, <3>3, <4>1, <4>2, <5>1, <5>2 DEF PlaceOf
      <4>3. CASE j # k
        BY <3>1, <3>2, <3>3, <4>1, <4>3 DEF PlaceOf
      <4> QED  BY <4>2, <4>3
    <3> QED  BY <1>0, <3>1, <3>3, Unmoved
  <2> QED  BY <1>2, <2>1, <2>2, <2>3, <2>4, <2>5 DEF Client
<1>3. CASE Select \/ AcceptPastEnd \/ ReadFails \/ SSL_write \/ WriteFails \/ EndScan
  <2>1. UNCHANGED <<client, half, arrived, backlog, sock, tls, afds>> /\ (pc' # "shake")
    BY <1>3 DEF Select, AcceptPastEnd, ReadFails, SSL_write, WriteFails, EndScan
  <2> QED  BY <1>1, <2>1
<1>4. CASE Accept
  <2>1. PICK f \in FDs : f = Lowest(Unused) /\ sock[f] = None /\ f \notin afds
    BY <1>0, <1>4, AcceptFacts DEF Accept
  <2>2. backlog \in Seq(Conns) /\ backlog # << >> /\ Distinct(backlog)
    BY <1>0, <1>4 DEF Accept, ServerInv, TypeOK, PlaceInv
  <2>3. PICK k \in Conns : k = Head(backlog)
    BY <2>2
  <2>4. /\ sock' = [sock EXCEPT ![f] = k] /\ backlog' = Tail(backlog)
        /\ afds' = afds \cup {f} /\ fd' = f /\ UNCHANGED <<client, half, arrived, tls>>
    BY <1>4, <2>1, <2>3 DEF Accept
  <2>5. In(k, backlog) /\ Distinct(backlog)'
    <3>1. In(Head(backlog), backlog) /\ Distinct(Tail(backlog))
      BY <2>2, Taken, Zenon
    <3> QED  BY <2>3, <2>4, <3>1 DEF Distinct
  <2>6. \A j \in Conns : In(j, backlog)' <=> In(j, backlog) /\ j # k
    <3>1. \A j : In(j, Tail(backlog)) <=> In(j, backlog) /\ j # Head(backlog)
      BY <2>2, Taken, Zenon
    <3> QED  BY <2>3, <2>4, <3>1 DEF In
  <2>7. \A g \in FDs : sock'[g] = IF g = f THEN k ELSE sock[g]
    BY <1>0, <2>4 DEF TypeOK
  <2>8. \A j \in Conns : IsOpen(j)' <=> IsOpen(j) \/ j = k
    BY <2>1, <2>7, NoneAssumption DEF IsOpen
  <2>9. ASSUME NEW j \in Conns PROVE PlaceOf(j)'
    BY <1>0, <2>4, <2>5, <2>6, <2>8 DEF PlaceInv, PlaceOf
  <2>10. ~ IsOpen(k)
    BY <1>0, <2>5 DEF PlaceInv, PlaceOf
  <2>11. \A g, h \in afds' : sock'[g] = sock'[h] => g = h
    BY <1>0, <2>4, <2>7, <2>10 DEF PlaceInv, IsOpen, TypeOK
  <2> QED  BY <2>4, <2>5, <2>9, <2>11 DEF PlaceInv
<1>5. CASE SSL_accept
  <2>1. PICK k \in Conns : k = ssl[fd] /\ fd \in afds /\ sock[fd] = k /\ fd \in FDs
    BY <1>0, <1>5 DEF SSL_accept, ServerInv, PlaceInv
  <2>2. /\ tls' = IF client[k] = "agreed" THEN tls \cup {k} ELSE tls
        /\ pc' = "scan" /\ UNCHANGED <<client, half, arrived, backlog, sock, afds>>
    BY <1>5, <2>1 DEF SSL_accept
  <2>3. IsOpen(k)
    BY <2>1 DEF IsOpen
  <2>4. \A j \in Conns : (In(j, backlog)' <=> In(j, backlog)) /\ (IsOpen(j)' <=> IsOpen(j)) => PlaceOf(j)'
    BY <1>0, <2>2, <2>3 DEF PlaceInv, PlaceOf
  <2> QED  BY <1>0, <2>2, <2>4, Unmoved
<1>6. CASE ReadLine
  <2>1. PICK k \in Conns : k = ssl[ReadyFd]
    BY <1>0, <1>6, ReadyFdFacts DEF ReadLine
  <2>2. /\ k \in tls /\ arrived[k] # << >> /\ arrived' = [arrived EXCEPT ![k] = Tail(@)]
        /\ pc' = "write" /\ UNCHANGED <<client, half, backlog, sock, tls, afds>>
    BY <1>6, <2>1 DEF ReadLine
  <2>3. \A j \in Conns : arrived'[j] # << >> => arrived[j] # << >>
    BY <1>0, <2>2 DEF TypeOK
  <2>4. \A j \in Conns : (In(j, backlog)' <=> In(j, backlog)) /\ (IsOpen(j)' <=> IsOpen(j)) => PlaceOf(j)'
    BY <1>0, <2>2, <2>3 DEF PlaceInv, PlaceOf
  <2> QED  BY <1>0, <2>2, <2>4, Unmoved
<1>7. CASE CloseConn
  <2>1. PICK f \in FDs : f = ReadyFd /\ f \in afds /\ ssl[f] = sock[f] /\ ssl[f] \in Conns
    BY <1>0, <1>7, ReadyFdFacts DEF CloseConn, GoneNow
  <2>2. PICK k \in Conns : k = sock[f]
    BY <2>1
  <2>3. /\ client[k] = "closed" /\ arrived[k] = << >> /\ sock' = [sock EXCEPT ![f] = None]
        /\ afds' = afds \ {f} /\ pc = "scan"
        /\ UNCHANGED <<client, half, arrived, backlog, tls, pc, fd>>
    BY <1>7, <2>1, <2>2 DEF CloseConn, GoneNow
  <2>4. \A g \in FDs : sock'[g] = IF g = f THEN None ELSE sock[g]
    BY <1>0, <2>3 DEF TypeOK
  <2>5. \A j \in Conns : (IsOpen(j)' => IsOpen(j)) /\ (j # k => (IsOpen(j) => IsOpen(j)'))
    BY <2>2, <2>4, NoneAssumption DEF IsOpen
  <2>6. \A j \in Conns : In(j, backlog)' <=> In(j, backlog)
    BY <2>3 DEF In
  <2>7. ASSUME NEW j \in Conns PROVE PlaceOf(j)'
    BY <1>0, <2>3, <2>5, <2>6 DEF PlaceInv, PlaceOf
  <2>8. \A g, h \in afds' : sock'[g] = sock'[h] => g = h
    BY <1>0, <2>3, <2>4 DEF PlaceInv, TypeOK
  <2>9. Distinct(backlog)'
    BY <1>0, <2>3 DEF PlaceInv, Distinct
  <2> QED  BY <2>3, <2>7, <2>8, <2>9 DEF PlaceInv
<1>8. CASE UNCHANGED vars
  BY <1>1, <1>8 DEF vars
<1> QED  BY <1>2, <1>3, <1>4, <1>5, <1>6, <1>7, <1>8 DEF Next, Server, Done

\* A sequence that something was appended to is not empty.
LEMMA AppendNotEmpty ==
  ASSUME NEW S, NEW s \in Seq(S), NEW e
  PROVE  Append(s, e) # << >>
<1>1. Len(Append(s, e)) = Len(s) + 1 /\ Len(s) \in Nat
  OBVIOUS
<1> QED  BY <1>1

\* Each step leaves the descriptors still to look at ready.
LEMMA NextReadyInv == ScanInv /\ [Next]_vars => ReadyInv'
<1> SUFFICES ASSUME ScanInv, [Next]_vars PROVE ReadyInv'
  OBVIOUS
<1>0. TypeOK /\ ServerInv /\ PlaceInv /\ ReadyInv /\ IInv
  BY DEF ScanInv, IInv
<1>00. rfds \subseteq afds /\ afds \subseteq FDs
  BY <1>0 DEF TypeOK
<1> USE DEF clientVars, serverVars
<1> DEFINE Busy == {"accept", "shake", "scan", "write"}
\* A step that takes nothing from the connections of those left to look at.
<1>1. ASSUME pc' \in Busy => pc \in Busy, rfds' \subseteq rfds,
             \A f \in rfds' : Ready(f) => Ready(f)'
      PROVE  ReadyInv'
  BY <1>0, <1>1 DEF ReadyInv
<1>2. ASSUME NEW k \in Conns, Client(k) PROVE ReadyInv'
  <2>1. UNCHANGED <<sock, rfds, pc>>
    BY <1>2 DEF Client, Connect, Agree, SendLine, RestArrives, Close
  <2>2. ASSUME NEW j \in Conns
        PROVE  (arrived[j] # << >> \/ half[j] \/ client[j] = "closed")
                 => (arrived'[j] # << >> \/ half'[j] \/ client'[j] = "closed")
    <3>1. CASE Connect(k) \/ Agree(k)
      BY <1>0, <3>1 DEF Connect, Agree, TypeOK
    <3>2. CASE SendLine(k)
      <4>1. CASE half' = [half EXCEPT ![k] = TRUE] /\ UNCHANGED <<arrived, client>>
        BY <1>0, <4>1 DEF TypeOK
      <4>2. CASE arrived' = [arrived EXCEPT ![k] = Append(@, <<k, wrote'[k]>>)] /\ UNCHANGED <<half, client>>
        <5>1. arrived[k] \in Seq(Line) /\ Append(arrived[k], <<k, wrote'[k]>>) # << >>
          BY <1>0, <1>2, AppendNotEmpty DEF TypeOK
        <5> QED  BY <1>0, <4>2, <5>1 DEF TypeOK
      <4> QED  BY <3>2, <4>1, <4>2 DEF SendLine
    <3>3. CASE RestArrives(k)
      <4>1. arrived[k] \in Seq(Line) /\ Append(arrived[k], <<k, wrote[k]>>) # << >>
        BY <1>0, <1>2, AppendNotEmpty DEF TypeOK
      <4> QED  BY <1>0, <3>3, <4>1 DEF RestArrives, TypeOK
    <3>4. CASE Close(k)
      BY <1>0, <3>4 DEF Close, TypeOK
    <3> QED  BY <1>2, <3>1, <3>2, <3>3, <3>4 DEF Client
  <2>3. ASSUME NEW f \in rfds, Ready(f) PROVE Ready(f)'
    <3>1. sock[f] \in Conns
      BY <1>0, <1>00, <2>3 DEF Ready, TypeOK
    <3> QED  BY <2>1, <2>2, <2>3, <3>1 DEF Ready
  <2> QED  BY <1>1, <2>1, <2>3
<1>3. CASE Select
  <2>1. rfds' = {f \in afds : Ready(f)} /\ UNCHANGED <<client, half, arrived, sock>>
    BY <1>3 DEF Select
  <2> QED  BY <2>1 DEF ReadyInv, Ready
<1>4. CASE Accept
  <2>1. PICK f \in FDs : f = Lowest(Unused) /\ f \notin afds
    BY <1>0, <1>4, AcceptFacts DEF Accept
  <2>2. /\ sock' = [sock EXCEPT ![f] = Head(backlog)] /\ pc = "accept"
        /\ UNCHANGED <<client, half, arrived, rfds>>
    BY <1>4, <2>1 DEF Accept
  <2>3. ASSUME NEW g \in rfds, Ready(g) PROVE Ready(g)'
    <3>1. sock'[g] = sock[g]
      BY <1>0, <1>00, <2>1, <2>2 DEF TypeOK
    <3> QED  BY <2>2, <2>3, <3>1 DEF Ready
  <2> QED  BY <1>1, <2>2, <2>3
<1>5. CASE SSL_accept \/ SSL_write
  <2>1. pc \in Busy /\ UNCHANGED <<client, half, arrived, sock, rfds>>
    BY <1>5 DEF SSL_accept, SSL_write
  <2> QED  BY <1>1, <2>1 DEF Ready
<1>6. CASE AcceptPastEnd \/ ReadFails \/ WriteFails \/ EndScan
  <2>1. pc' \notin Busy
    BY <1>6 DEF AcceptPastEnd, ReadFails, WriteFails, EndScan
  <2> QED  BY <2>1 DEF ReadyInv
<1>7. CASE ReadLine
  <2>1. PICK f \in FDs : f = ReadyFd /\ f \in afds /\ ssl[f] = sock[f] /\ ssl[f] \in Conns
    BY <1>0, <1>7, ReadyFdFacts DEF ReadLine
  <2>2. /\ arrived' = [arrived EXCEPT ![sock[f]] = Tail(@)] /\ rfds' = rfds \ {f}
        /\ pc = "scan" /\ UNCHANGED <<client, half, sock>>
    BY <1>7, <2>1 DEF ReadLine
  <2>3. ASSUME NEW g \in rfds', Ready(g) PROVE Ready(g)'
    <3>1. g \in afds /\ g # f
      BY <1>00, <2>2
    <3>2. sock[g] # sock[f]
      BY <1>0, <2>1, <3>1 DEF PlaceInv
    <3>3. arrived'[sock[g]] = arrived[sock[g]]
      BY <2>2, <3>2, <1>0, <1>00, <2>1, <2>3, <3>1 DEF TypeOK, Ready
    <3> QED  BY <2>2, <2>3, <3>3 DEF Ready
  <2> QED  BY <1>1, <2>2, <2>3
<1>8. CASE CloseConn
  <2>1. /\ sock' = [sock EXCEPT ![ReadyFd] = None] /\ rfds' = rfds \ {ReadyFd}
        /\ pc = "scan" /\ UNCHANGED <<client, half, arrived>>
    BY <1>8 DEF CloseConn, GoneNow
  <2>2. ASSUME NEW g \in rfds', Ready(g) PROVE Ready(g)'
    <3>1. sock'[g] = sock[g]
      BY <1>0, <1>00, <2>1 DEF TypeOK
    <3> QED  BY <2>1, <2>2, <3>1 DEF Ready
  <2> QED  BY <1>1, <2>1, <2>2
<1>9. CASE UNCHANGED vars
  BY <1>1, <1>9 DEF vars, Ready
<1> QED  BY <1>2, <1>3, <1>4, <1>5, <1>6, <1>7, <1>8, <1>9 DEF Next, Server, Done

\* The server stands still only where it has served everything, has ended, or
\* waits for one client, which is still there: to shake hands or to send the
\* rest of its line.  It is never in a read of a connection with nothing under
\* way, although rfds is older than the connection just accepted and served.
THEOREM StandsStill == Spec => []StandsStillOnlyIf
<1>1. Init => PlaceInv /\ ReadyInv
  <2> SUFFICES ASSUME Init PROVE PlaceInv /\ ReadyInv
    OBVIOUS
  <2>1. \A k \in Conns : ~ IsOpen(k) /\ ~ In(k, backlog)
    <3>1. DOMAIN << >> = {}
      OBVIOUS
    <3> QED  BY <3>1, NoneAssumption DEF Init, IsOpen, In
  <2>2. \A k \in Conns : PlaceOf(k)
    BY <2>1 DEF Init, PlaceOf
  <2>3. PlaceInv
    BY <2>2 DEF Init, PlaceInv, Distinct
  <2> QED  BY <2>3 DEF Init, ReadyInv
<1>2. ScanInv /\ [Next]_vars => (PlaceInv /\ ReadyInv)'
  BY NextPlaceInv, NextReadyInv
<1>3. ASSUME ScanInv PROVE StandsStillOnlyIf
  <2>0. TypeOK /\ ServerInv /\ PlaceInv /\ ReadyInv /\ IInv
    BY <1>3 DEF ScanInv, IInv
  <2> SUFFICES ASSUME ~ ServerCanRun, pc \notin {"exit", "undefined"},
                      \A k \in Conns : ~ HeldUpBy(k)
               PROVE  AllServed
    BY DEF StandsStillOnlyIf
  <2>1. pc \in {"select", "shake", "scan"}
    BY <2>0 DEF TypeOK, ServerCanRun
  <2>2. CASE pc = "shake"
    BY <2>0, <2>2 DEF ServerCanRun, HeldUpBy, ServerInv
  <2>3. CASE pc = "scan"
    <3>1. rfds # {} /\ ~ ReadReturns(ssl[ReadyFd])
      BY <2>3 DEF ServerCanRun
    <3>2. PICK k \in Conns : k = ssl[ReadyFd] /\ sock[ReadyFd] = k /\ ReadyFd \in rfds
      BY <2>0, <3>1, ReadyFdFacts
    <3>3. arrived[k] # << >> \/ half[k] \/ client[k] = "closed"
      BY <2>0, <2>3, <3>2 DEF ReadyInv, Ready
    <3>4. PlaceOf(k)
      BY <2>0 DEF PlaceInv
    <3> QED  BY <2>3, <3>1, <3>2, <3>3, <3>4 DEF ReadReturns, HeldUpBy, PlaceOf
  <2>4. CASE pc = "select"
    <3>1. backlog = << >> /\ \A f \in afds : ~ Ready(f)
      BY <2>4 DEF ServerCanRun
    <3> SUFFICES ASSUME NEW k \in Conns
                 PROVE  /\ client[k] \in {"open", "agreed"} => IsOpen(k)
                        /\ client[k] = "closed" => ~ IsOpen(k)
                        /\ ~ half[k] /\ arrived[k] = << >>
      BY DEF AllServed
    <3>2. ~ In(k, backlog) /\ PlaceOf(k)
      BY <2>0, <3>1 DEF In, PlaceInv
    <3>3. ASSUME IsOpen(k) PROVE ~ (arrived[k] # << >> \/ half[k] \/ client[k] = "closed")
      <4>1. PICK f \in FDs : sock[f] = k
        BY <3>3 DEF IsOpen
      <4>2. f \in afds /\ k # None
        BY <2>0, <4>1, NoneAssumption DEF ServerInv
      <4> QED  BY <3>1, <4>1, <4>2 DEF Ready
    <3> QED  BY <3>2, <3>3 DEF PlaceOf
  <2> QED  BY <2>1, <2>2, <2>3, <2>4
<1>4. Spec => []ScanInv
  BY Invariance, <1>1, <1>2, PTL DEF Spec, ScanInv
<1> QED  BY <1>3, <1>4, PTL
=============================================================================
