------------------------------ MODULE PPReceive ------------------------------
(***************************************************************************)
(* The receiving half of "Full Network Stack/PPprotocol.cpp": a thread     *)
(* that receives datagrams, and seven protocol threads joined by pipes     *)
(* that strip one header each and route by its hlp field, up to a counter  *)
(* per application.                                                        *)
(*                                                                         *)
(* There is one receive buffer, the global buf, and a Message holds        *)
(* pointers into it, never a copy.  A layer that strips its header reads   *)
(* whatever buf holds then, which a later datagram may have replaced, and  *)
(* which recvfrom may be replacing at that moment.                         *)
(***************************************************************************)
EXTENDS Protocols, Sequences

CONSTANTS MaxRecv,  \* datagrams that arrive
          PipeCap   \* units a pipe holds before a write to it blocks

ASSUME MaxRecvAssumption == MaxRecv \in Nat
ASSUME PipeCapAssumption == PipeCap \in Nat \ {0}

BUFSIZE == 2048             \* bytes of buf, and of every Message made of it

\* The fields of buf the stack routes by: hlp of the header at offset 16 (IP)
\* and at offset 36 (TCP or UDP; their headers have one size).
Fields == {16, 36}

\* Mutation: the two int fields of the headers in the wrong order.
FrameMsglen(a, f) == IF f = 16 THEN 100 + SizeOf(a) + 12 ELSE 100 + SizeOf(a)

\* A frame of application a, as the sending half builds it: see WireFraming
\* in PPSend.
FrameField(a, f) == IF f = 16 THEN Transport(a) ELSE a

VARIABLES rx,       \* rx[d]: the application the d-th datagram is addressed to
          buf,      \* buf[off]: the hlp byte at each routing offset
          copying,  \* fields of buf the current recvfrom has yet to fill
          stage,    \* stage[p]: where p's loop stands
          hand,     \* hand[p]: the Message (a datagram number) p works on, or 0
          off,      \* off[d]: bytes stripped from the front of Message d
          hlp,      \* hlp[p]: the hlp field p has just stripped
          recvPipe, \* recvPipe[p]: Messages queued for p's receive thread
          counted,  \* counted[a]: Messages a's thread counted, oldest first
          dropped,  \* Messages no branch of a demultiplexer took
          until     \* history: until[d]: the last datagram whose recvfrom began
                    \* while d's transport header was still in buf

bufVars == <<buf, copying>>
history == <<rx, until>>
vars == <<rx, buf, copying, stage, hand, off, hlp, recvPipe, counted, dropped, until>>

Received == 1..Len(rx)

Init == /\ rx       = << >>
        /\ buf      = [f \in Fields |-> 0]
        /\ copying  = {}
        /\ stage    = [p \in Protos |-> "read"]
        /\ hand     = [p \in Protos |-> 0]
        /\ off      = [d \in 1..MaxRecv |-> 0]
        /\ hlp      = [p \in Protos |-> 0]
        /\ recvPipe = [p \in Protos |-> << >>]
        /\ counted  = [a \in AppProtos |-> << >>]
        /\ dropped  = {}
        /\ until    = [d \in 1..MaxRecv |-> 0]

-----------------------------------------------------------------------------
(* The receiving thread.                                                   *)

\* Every Message whose transport header has not been stripped yet.
Unrouted == {d \in Received : off[d] <= 36}

\* recvfrom returns a datagram of some application: its bytes go into buf while
\* the other threads run.
RecvFrom(a) ==
  /\ stage[Ethernet] = "read"
  /\ Len(rx) < MaxRecv
  /\ rx' = Append(rx, a)
  /\ until' = [d \in 1..MaxRecv |-> IF d \in Unrouted \cup {Len(rx')} THEN Len(rx') ELSE until[d]]
  /\ copying' = Fields
  /\ stage' = [stage EXCEPT ![Ethernet] = "copy"]
  /\ UNCHANGED <<buf, hand, off, hlp, recvPipe, counted, dropped>>

CopyField(f) ==
  /\ f \in copying
  /\ buf' = [buf EXCEPT ![f] = FrameField(rx[Len(rx)], f)]
  /\ copying' = copying \ {f}
  /\ UNCHANGED <<history, stage, hand, off, hlp, recvPipe, counted, dropped>>

\* Build the Message over buf and strip the Ethernet header.
NewMessage ==
  /\ stage[Ethernet] = "copy"
  /\ copying = {}
  /\ hand' = [hand EXCEPT ![Ethernet] = Len(rx)]
  /\ off' = [off EXCEPT ![Len(rx)] = SizeOf(Ethernet)]
  /\ stage' = [stage EXCEPT ![Ethernet] = "write"]
  /\ UNCHANGED <<history, bufVars, hlp, recvPipe, counted, dropped>>

\* Mutation: the memset that is commented out after the write comes back.
WriteToIPAndClear ==
  /\ stage[Ethernet] = "write"
  /\ Len(recvPipe[IP]) < PipeCap
  /\ recvPipe' = [recvPipe EXCEPT ![IP] = Append(@, hand[Ethernet])]
  /\ buf' = [f \in Fields |-> 0]
  /\ hand' = [hand EXCEPT ![Ethernet] = 0]
  /\ stage' = [stage EXCEPT ![Ethernet] = "read"]
  /\ UNCHANGED <<history, copying, off, hlp, counted, dropped>>

WriteToIP ==
  /\ stage[Ethernet] = "write"
  /\ Len(recvPipe[IP]) < PipeCap
  /\ recvPipe' = [recvPipe EXCEPT ![IP] = Append(@, hand[Ethernet])]
  /\ hand' = [hand EXCEPT ![Ethernet] = 0]
  /\ stage' = [stage EXCEPT ![Ethernet] = "read"]
  /\ UNCHANGED <<history, bufVars, off, hlp, counted, dropped>>

read_from_UDP == \/ \E a \in Apps : RecvFrom(a)
                 \/ \E f \in Fields : CopyField(f)
                 \/ NewMessage
                 \/ WriteToIP

-----------------------------------------------------------------------------
(* The protocol threads.                                                   *)

\* Mutation: the newest Message first, as from a stack.
ReadNewestUnit(p) ==
  LET last == Len(recvPipe[p]) IN
  /\ stage[p] = "read"
  /\ recvPipe[p] # << >>
  /\ hand' = [hand EXCEPT ![p] = recvPipe[p][last]]
  /\ recvPipe' = [recvPipe EXCEPT ![p] = SubSeq(@, 1, last - 1)]
  /\ stage' = [stage EXCEPT ![p] = "got"]
  /\ UNCHANGED <<history, bufVars, off, hlp, counted, dropped>>

ReadUnit(p) ==
  /\ stage[p] = "read"
  /\ recvPipe[p] # << >>
  /\ hand' = [hand EXCEPT ![p] = Head(recvPipe[p])]
  /\ recvPipe' = [recvPipe EXCEPT ![p] = Tail(@)]
  /\ stage' = [stage EXCEPT ![p] = "got"]
  /\ UNCHANGED <<history, bufVars, off, hlp, counted, dropped>>

\* Strip the header in front of the Message: its hlp is read from buf now.
StripHdr(p) ==
  LET d == hand[p] IN
  /\ stage[p] = "got"
  /\ hlp' = [hlp EXCEPT ![p] = buf[off[d]]]
  /\ off' = [off EXCEPT ![d] = @ + SizeOf(p)]
  /\ stage' = [stage EXCEPT ![p] = "route"]
  /\ UNCHANGED <<history, bufVars, hand, recvPipe, counted, dropped>>

\* The pipes a layer routes to, by the hlp value that selects each.
Routes(p) == IF p = IP THEN {TCP, UDP}
             ELSE IF p = TCP THEN {FTP, Telnet} ELSE {RDP, DNSC}

\* Mutation: a pipe that does not block, and a write whose failure nobody sees.
DemultiplexNonBlocking(p) ==
  /\ stage[p] = "route"
  /\ hlp[p] \in Routes(p)
  /\ recvPipe' = IF Len(recvPipe[hlp[p]]) < PipeCap
                   THEN [recvPipe EXCEPT ![hlp[p]] = Append(@, hand[p])]
                   ELSE recvPipe
  /\ hand' = [hand EXCEPT ![p] = 0]
  /\ hlp' = [hlp EXCEPT ![p] = 0]
  /\ stage' = [stage EXCEPT ![p] = "read"]
  /\ UNCHANGED <<history, bufVars, off, counted, dropped>>

\* The hlp names a pipe: write the Message to it, once it has room.
Demultiplex(p) ==
  /\ stage[p] = "route"
  /\ hlp[p] \in Routes(p)
  /\ Len(recvPipe[hlp[p]]) < PipeCap
  /\ recvPipe' = [recvPipe EXCEPT ![hlp[p]] = Append(@, hand[p])]
  /\ hand' = [hand EXCEPT ![p] = 0]
  /\ hlp' = [hlp EXCEPT ![p] = 0]
  /\ stage' = [stage EXCEPT ![p] = "read"]
  /\ UNCHANGED <<history, bufVars, off, counted, dropped>>

\* It names none: the loop goes on to the next unit and the Message is lost.
FallThrough(p) ==
  /\ stage[p] = "route"
  /\ hlp[p] \notin Routes(p)
  /\ dropped' = dropped \cup {hand[p]}
  /\ hand' = [hand EXCEPT ![p] = 0]
  /\ hlp' = [hlp EXCEPT ![p] = 0]
  /\ stage' = [stage EXCEPT ![p] = "read"]
  /\ UNCHANGED <<history, bufVars, off, recvPipe, counted>>

RoutingThread(p) == ReadUnit(p) \/ StripHdr(p) \/ Demultiplex(p) \/ FallThrough(p)

IPRecvFunc  == RoutingThread(IP)
TCPRecvFunc == RoutingThread(TCP)
UDPRecvFunc == RoutingThread(UDP)

\* An application's thread strips its header, whose fields nothing reads,
\* flattens the rest and counts.
Count(a) ==
  LET d == hand[a] IN
  /\ stage[a] = "got"
  /\ off' = [off EXCEPT ![d] = @ + SizeOf(a)]
  /\ counted' = [counted EXCEPT ![a] = Append(@, d)]
  /\ hand' = [hand EXCEPT ![a] = 0]
  /\ stage' = [stage EXCEPT ![a] = "read"]
  /\ UNCHANGED <<history, bufVars, hlp, recvPipe, dropped>>

CountingThread(a) == ReadUnit(a) \/ Count(a)

FTPRecvFunc    == CountingThread(FTP)
TelnetRecvFunc == CountingThread(Telnet)
RDPRecvFunc    == CountingThread(RDP)
DNSCRecvFunc   == CountingThread(DNSC)

\* No more datagrams arrive and every thread waits to read.
Idle == /\ Len(rx) = MaxRecv
        /\ \A p \in Protos : stage[p] = "read" /\ recvPipe[p] = << >>
        /\ UNCHANGED vars

Next == \/ read_from_UDP \/ IPRecvFunc \/ TCPRecvFunc \/ UDPRecvFunc
        \/ FTPRecvFunc \/ TelnetRecvFunc \/ RDPRecvFunc \/ DNSCRecvFunc
        \/ Idle

Spec == Init /\ [][Next]_vars
-----------------------------------------------------------------------------
(* Each thread that can run is eventually run.  Nothing makes datagrams     *)
(* arrive.                                                                 *)
Handling == (\E f \in Fields : CopyField(f)) \/ NewMessage \/ WriteToIP

Fairness == /\ WF_vars(Handling)
            /\ \A p \in {IP, TCP, UDP} : WF_vars(RoutingThread(p))
            /\ \A a \in AppProtos : WF_vars(CountingThread(a))

FairSpec == Spec /\ Fairness

-----------------------------------------------------------------------------
Stages == {"read", "copy", "got", "route", "write"}

TypeOK == /\ rx \in Seq(Apps) /\ Len(rx) <= MaxRecv
          /\ buf \in [Fields -> 0..8]
          /\ copying \subseteq Fields
          /\ stage \in [Protos -> Stages]
          /\ hand \in [Protos -> 0..MaxRecv]
          /\ off \in [1..MaxRecv -> 0..BUFSIZE]
          /\ hlp \in [Protos -> 0..8]
          /\ recvPipe \in [Protos -> Seq(1..MaxRecv)]
          /\ \A p \in Protos : Len(recvPipe[p]) <= PipeCap
          /\ counted \in [AppProtos -> Seq(1..MaxRecv)]
          /\ dropped \subseteq 1..MaxRecv
          /\ until \in [1..MaxRecv -> 0..MaxRecv]

CountedBy(a, d) == \E k \in DOMAIN counted[a] : counted[a][k] = d

\* Where the Message of datagram d is.
Places(d) ==
  LET queued(p)  == {<<"pipe", p, k>> : k \in {k \in DOMAIN recvPipe[p] : recvPipe[p][k] = d}}
      countedBy(a) == {<<"counted", a, k>> : k \in {k \in DOMAIN counted[a] : counted[a][k] = d}}
  IN {<<"arriving", 0, 0>> : x \in {x \in {d} : d = Len(rx) /\ stage[Ethernet] = "copy"}}
     \cup {<<"hand", p, 0>> : p \in {p \in Protos : hand[p] = d}}
     \cup (UNION {queued(p) : p \in Protos})
     \cup (UNION {countedBy(a) : a \in AppProtos})
     \cup {<<"dropped", 0, 0>> : x \in {d} \cap dropped}

\* Every datagram received is in exactly one place: arriving, held by one
\* thread, queued once, counted once by one application, or dropped once.
\* Whatever happens to buf, no Message is duplicated or forgotten.
Accounting == \A d \in 1..MaxRecv :
                IF d \in Received THEN \E x \in Places(d) : Places(d) = {x}
                                  ELSE Places(d) = {}

\* A Message is counted by an application only if it, or a datagram whose
\* recvfrom began before its transport header was stripped, is addressed to that
\* application, and dropped only if two of these use different transports.  So a
\* sender that leaves the receiver that much time is counted right; and buf
\* never holds older bytes than the Messages that are read through it.
RoutedByOverlapping ==
  \A d \in Received :
    /\ \A a \in AppProtos : CountedBy(a, d) => \E e \in d..until[d] : rx[e] = a
    /\ d \in dropped => \E e, f \in d..until[d] : Transport(rx[e]) # Transport(rx[f])

\* Each application counts Messages in the order they arrived, whatever routes
\* the overrun ones take.
CountedInOrder ==
  \A a \in AppProtos : \A j, k \in DOMAIN counted[a] :
     j < k => counted[a][j] < counted[a][k]

\* Every datagram received is eventually counted by some application or
\* dropped: the pipes form no cycle, so full ones only delay.
EventuallySettled ==
  \A d \in 1..MaxRecv : d \in Received ~>
     (d \in dropped \/ \E a \in AppProtos : CountedBy(a, d))

\* What the comments on TCPRecvFunc and UDPRecvFunc promise ("write to
\* recvFTPPipe or recvTelnetPipe based on the hlp field"): an application
\* counts only the Messages addressed to it.  The code breaks it.
RoutedByOwnHeader ==
  \A a \in AppProtos : \A d \in Received : CountedBy(a, d) => rx[d] = a
=============================================================================
