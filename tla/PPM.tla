--------------------------------- MODULE PPM ---------------------------------
(***************************************************************************)
(* The process-per-message stack, "Full Network Stack/PPM.cpp".  A message *)
(* is sent by the thread of its application, which calls the layers as     *)
(* functions down to sendto.  A datagram received is given to a thread of  *)
(* the slot pool, which calls the layers up to the application, counts it  *)
(* there, and then becomes one more receiver: the last call of a delivery  *)
(* is IN_sock_RecvFunc, which never returns.                               *)
(*                                                                         *)
(* All receivers share buf, to which Messages only point, and remaddr, to  *)
(* which the sending threads send.  The counters are plain ints: x++ is a  *)
(* load and a store.                                                       *)
(***************************************************************************)
EXTENDS Protocols, Sequences, FiniteSets

CONSTANTS N,            \* messages each application sends: 10 in the program
          MaxRecv,      \* datagrams that arrive (bound)
          MaxTraffic,   \* datagrams sent and received together (bound)
          threadCount   \* slots of the pool th: 25 in the program

ASSUME NAssumption       == N \in Nat
ASSUME MaxRecvAssumption == MaxRecv \in Nat
ASSUME TrafficAssumption == MaxTraffic \in Nat
ASSUME CountAssumption   == threadCount \in Nat

(* Sending.  A layer puts its header, here the id it is called with, before *)
(* the message and calls the layer below.                                  *)
send_Ethernet(arg1, m) == <<arg1>> \o m
send_IP(arg1, m)     == send_Ethernet(2, <<arg1>> \o m)
send_UDP(arg1, m)    == send_IP(4, <<arg1>> \o m)
send_TCP(arg1, m)    == send_IP(3, <<arg1>> \o m)

\* Mutation: copied from send_RDP, with its id.
send_DNSAsRDP(arg1, m) == send_UDP(7, <<arg1>> \o m)

send_DNS(arg1, m)    == send_UDP(8, <<arg1>> \o m)
send_RDP(arg1, m)    == send_UDP(7, <<arg1>> \o m)
send_Telnet(arg1, m) == send_TCP(6, <<arg1>> \o m)
send_FTP(arg1, m)    == send_TCP(5, <<arg1>> \o m)

\* The headers of a datagram of application a, outermost first.
Frame(a) == CASE a = FTP    -> send_FTP(5, << >>)
              [] a = Telnet -> send_Telnet(6, << >>)
              [] a = RDP    -> send_RDP(7, << >>)
              [] a = DNSC   -> send_DNS(8, << >>)

\* The fields of buf the layers route by: the hlp of the second header (IP) and
\* of the third (TCP or UDP, which have one size).
Fields == {2, 3}

Slots     == 0..(threadCount - 1)
Datagrams == 1..MaxRecv
First     == 0                       \* IN_sock_RecvThread
Receivers == {First} \cup Datagrams  \* d is the pool thread that delivers d
NoSlot    == threadCount
SendCount == 0                       \* send_FTP_counter, which all applications use
Counters  == {SendCount} \cup AppProtos

VARIABLES remaddr,  \* "none", the peer's "in" port or its "out" port
          main,     \* main has set remaddr
          app,      \* app[a]: the thread of application a: where it stands, its
                    \* loop counter, what it loaded of the counter
          sent,     \* the datagrams sent: application and destination
          exited,   \* the process has ended
          rx,       \* rx[d]: the application the d-th datagram is addressed to
          buf,      \* buf[f]: the hlp at each routing field
          copying,  \* copying[r]: fields r's recvfrom has yet to fill
          stage,    \* stage[r]: where receiver or delivery r stands
          hand,     \* hand[r]: the datagram r has received last
          i,        \* i[r]: the loop index in the pool's functions
          flags,    \* flags[s]: TRUE while slot s is free
          slot,     \* slot[d]: the slot claimed for d, or NoSlot
          joined,   \* deliveries whose slave has freed their slot
          dest,     \* dest[d]: the application d is delivered to, 0 while unknown
          lost,     \* datagrams no slot was found for
          counter,  \* counter[c]
          reg,      \* reg[d]: what delivery d loaded of its counter
          mixed,    \* history: mixed[d]: datagrams whose bytes d's Message can meet
          doubtful, \* history: slots claimed twice
          raced     \* history: counters loaded between a load and its store

sendVars  == <<main, app, sent, exited>>
bufVars   == <<rx, buf, copying, mixed>>
poolVars  == <<i, flags, slot, joined, lost, doubtful>>
countVars == <<counter, reg, raced>>
vars == <<remaddr, sendVars, bufVars, stage, hand, poolVars, dest, countVars>>

Init == /\ remaddr = "none" /\ main = FALSE
        /\ app = [a \in Apps |-> [at |-> "send", n |-> 0, reg |-> 0]]
        /\ sent = {} /\ exited = FALSE
        /\ rx = << >> /\ buf = [f \in Fields |-> 0]
        /\ copying = [r \in Receivers |-> {}]
        /\ stage = [r \in Receivers |-> IF r = First THEN "recv" ELSE "none"]
        /\ hand = [r \in Receivers |-> r]
        /\ i = [r \in Receivers |-> 0]
        /\ flags = [s \in Slots |-> TRUE]
        /\ slot = [d \in Datagrams |-> NoSlot]
        /\ joined = {} /\ lost = {} /\ doubtful = {} /\ raced = {}
        /\ dest = [d \in Datagrams |-> 0]
        /\ counter = [c \in Counters |-> 0]
        /\ reg = [d \in Datagrams |-> 0]
        /\ mixed = [d \in Datagrams |-> {}]

Goto(r, to) == stage' = [stage EXCEPT ![r] = to]

\* Some thread has loaded counter c and not stored it yet.
Storing(c) == \/ c = SendCount /\ \E a \in Apps : app[a].at = "store"
              \/ \E d \in Datagrams : stage[d] = "store" /\ dest[d] = c

-----------------------------------------------------------------------------
(* main and the threads of the applications.                               *)

\* main fills remaddr a second after it has started the first receiver, and
\* then creates the threads of the applications.
SetRemaddr ==
  /\ ~ main
  /\ main' = TRUE
  /\ remaddr' = "in"
  /\ UNCHANGED <<app, sent, exited, bufVars, stage, hand, poolVars, dest, countVars>>

Traffic == Cardinality(sent) + Len(rx)

\* Mutation: one round too many.
SendOneTooMany(a) ==
  /\ main
  /\ app[a].at = "send" /\ app[a].n <= N /\ Traffic < MaxTraffic
  /\ app' = [app EXCEPT ![a].at = "load", ![a].n = @ + 1]
  /\ sent' = sent \cup {[app |-> a, n |-> app'[a].n, to |-> remaddr, arrived |-> Len(rx)]}
  /\ UNCHANGED <<remaddr, main, exited, bufVars, stage, hand, poolVars, dest, countVars>>

\* Mutation: the threads are created before remaddr is filled.
SendMessageEarly(a) ==
  /\ app[a].at = "send" /\ app[a].n < N /\ Traffic < MaxTraffic
  /\ app' = [app EXCEPT ![a].at = "load", ![a].n = @ + 1]
  /\ sent' = sent \cup {[app |-> a, n |-> app'[a].n, to |-> remaddr, arrived |-> Len(rx)]}
  /\ UNCHANGED <<remaddr, main, exited, bufVars, stage, hand, poolVars, dest, countVars>>

\* A round of an application's loop: a new Message goes down the layers, and
\* sendto takes the address remaddr holds by then.
SendMessage(a) ==
  /\ main
  /\ app[a].at = "send" /\ app[a].n < N /\ Traffic < MaxTraffic
  /\ app' = [app EXCEPT ![a].at = "load", ![a].n = @ + 1]
  /\ sent' = sent \cup {[app |-> a, n |-> app'[a].n, to |-> remaddr, arrived |-> Len(rx)]}
  /\ UNCHANGED <<remaddr, main, exited, bufVars, stage, hand, poolVars, dest, countVars>>

\* sendto fails: exit(1).
SendFails(a) ==
  /\ main
  /\ app[a].at = "send" /\ app[a].n < N
  /\ exited' = TRUE
  /\ UNCHANGED <<remaddr, main, app, sent, bufVars, stage, hand, poolVars, dest, countVars>>

\* send_FTP_counter++, whatever the application.
LoadSent(a) ==
  /\ app[a].at = "load"
  /\ app' = [app EXCEPT ![a].at = "store", ![a].reg = counter[SendCount]]
  /\ raced' = IF Storing(SendCount) THEN raced \cup {SendCount} ELSE raced
  /\ UNCHANGED <<remaddr, main, sent, exited, bufVars, stage, hand, poolVars, dest, counter, reg>>

StoreSent(a) ==
  /\ app[a].at = "store"
  /\ app' = [app EXCEPT ![a].at = "send", ![a].reg = 0]
  /\ counter' = [counter EXCEPT ![SendCount] = app[a].reg + 1]
  /\ UNCHANGED <<remaddr, main, sent, exited, bufVars, stage, hand, poolVars, dest, reg, raced>>

AppThread(a) == SendMessage(a) \/ LoadSent(a) \/ StoreSent(a)

-----------------------------------------------------------------------------
(* A receiver: IN_sock_RecvFunc.                                           *)

\* Messages whose third header has not been read yet.
Unrouted == {d \in 1..Len(rx) : /\ d \notin lost
                                /\ stage[d] \in {"none", "ip", "tcp", "udp"}}

\* recvfrom takes the next datagram for receiver r and starts to store its bytes.
RecvFrom(r, a) ==
  LET d == Len(rx) + 1 IN
  /\ stage[r] = "recv"
  /\ d \in Datagrams /\ Traffic < MaxTraffic
  /\ rx' = Append(rx, a)
  /\ hand' = [hand EXCEPT ![r] = d]
  /\ copying' = [copying EXCEPT ![r] = Fields]
  /\ mixed' = [e \in Datagrams |->
                 IF e = d THEN {d} \cup {hand[q] : q \in {q \in Receivers : copying[q] # {}}}
                 ELSE IF e \in Unrouted THEN mixed[e] \cup {d} ELSE mixed[e]]
  /\ Goto(r, "copy")
  /\ UNCHANGED <<remaddr, sendVars, buf, poolVars, dest, countVars>>

CopyField(r, f) ==
  /\ f \in copying[r]
  /\ buf' = [buf EXCEPT ![f] = Frame(rx[hand[r]])[f]]
  /\ copying' = [copying EXCEPT ![r] = @ \ {f}]
  /\ UNCHANGED <<remaddr, sendVars, rx, mixed, stage, hand, poolVars, dest, countVars>>

\* recvfrom stores the sender's address and returns.  rec = recvfrom(...) > 0
\* makes rec 1: the byte set to '\0' is in the first header, which nothing
\* routes by.  The Message made points to buf.
NewMessage(r) ==
  /\ stage[r] = "copy" /\ copying[r] = {}
  /\ remaddr' = "out"
  /\ i' = [i EXCEPT ![r] = 0]
  /\ Goto(r, "avail")
  /\ UNCHANGED <<sendVars, bufVars, hand, flags, slot, joined, lost, doubtful, dest, countVars>>

\* The message in r's hand is forgotten.
Drop(r) == /\ lost' = lost \cup {hand[r]}
           /\ i' = [i EXCEPT ![r] = 0]
           /\ Goto(r, "recv")
           /\ UNCHANGED <<flags, slot, joined, doubtful, hand>>

\* A round of a loop over the slots, which goes on to stage "to" at a free one.
LookAt(r, to, n) ==
  /\ i[r] \in Slots
  /\ IF flags[i[r]] THEN Goto(r, to) /\ i' = [i EXCEPT ![r] = n]
                     ELSE i' = [i EXCEPT ![r] = @ + 1] /\ UNCHANGED stage
  /\ UNCHANGED <<flags, slot, joined, lost, doubtful, hand>>

\* Mutation: it goes on looking until a slot is free.
thread_avail_Polling(r) ==
  /\ stage[r] = "avail"
  /\ \/ LookAt(r, "look", 0)
     \/ /\ i[r] = threadCount
        /\ i' = [i EXCEPT ![r] = 0]
        /\ UNCHANGED <<stage, hand, flags, slot, joined, lost, doubtful>>
  /\ UNCHANGED <<remaddr, sendVars, bufVars, dest, countVars>>

thread_avail(r) ==
  /\ stage[r] = "avail"
  /\ \/ LookAt(r, "look", 0)
     \/ i[r] = threadCount /\ Drop(r)
  /\ UNCHANGED <<remaddr, sendVars, bufVars, dest, countVars>>

\* dispatch_thread clears the flag it has seen set.
Claim(r) ==
  /\ stage[r] = "claim"
  /\ flags' = [flags EXCEPT ![i[r]] = FALSE]
  /\ slot' = [slot EXCEPT ![hand[r]] = i[r]]
  /\ doubtful' = IF flags[i[r]] THEN doubtful ELSE doubtful \cup {i[r]}
  /\ Goto(r, "create")
  /\ UNCHANGED <<i, joined, lost, hand>>

\* It creates a thread that starts in deliver_Ethernet, and the slave.
Create(r) ==
  /\ stage[r] = "create"
  /\ stage' = [stage EXCEPT ![r] = "recv", ![hand[r]] = "ip"]
  /\ i' = [i EXCEPT ![r] = 0]
  /\ UNCHANGED <<flags, slot, joined, lost, doubtful, hand>>

dispatch_thread(r) ==
  /\ \/ stage[r] = "look" /\ LookAt(r, "claim", i[r])
     \/ stage[r] = "look" /\ i[r] = threadCount /\ Drop(r)
     \/ Claim(r)
     \/ Create(r)
  /\ UNCHANGED <<remaddr, sendVars, bufVars, dest, countVars>>

-----------------------------------------------------------------------------
(* A delivery.  A layer strips its header as buf holds it now and calls the *)
(* layer the header names; if it names none the call returns, and with it  *)
(* the thread.                                                             *)

deliver_IP(d) ==
  LET ID == buf[2] IN
  /\ stage[d] = "ip"
  /\ Goto(d, IF ID = 3 THEN "tcp" ELSE IF ID = 4 THEN "udp" ELSE "ended")
  /\ UNCHANGED <<remaddr, sendVars, bufVars, hand, poolVars, dest, countVars>>

\* It strips a header nothing routes by and calls deliver_IP.
deliver_Ethernet(d) == deliver_IP(d)

\* The application below which the transport at stage "at" finds the id, or 0.
Upper(at, ID) == IF ID \in (IF at = "tcp" THEN {5, 6} ELSE {7, 8}) THEN ID ELSE 0

DeliverTransport(d, at) ==
  LET a == Upper(at, buf[3]) IN
  /\ stage[d] = at
  /\ dest' = [dest EXCEPT ![d] = a]
  /\ Goto(d, IF a = 0 THEN "ended" ELSE "load")
  /\ UNCHANGED <<remaddr, sendVars, bufVars, hand, poolVars, countVars>>

deliver_TCP(d) == DeliverTransport(d, "tcp")
deliver_UDP(d) == DeliverTransport(d, "udp")

\* Mutation: Telnet's function was copied from FTP's, counter and all.
CopiedCounterOf(a) == IF a = Telnet THEN FTP ELSE a

\* deliver_FTP_counter and the like.
CounterOf(a) == a

\* An application strips and prints the rest, counts, and calls
\* IN_sock_RecvFunc.
LoadCounter(d) ==
  LET c == CounterOf(dest[d]) IN
  /\ stage[d] = "load"
  /\ reg' = [reg EXCEPT ![d] = counter[c]]
  /\ raced' = IF Storing(c) THEN raced \cup {c} ELSE raced
  /\ Goto(d, "store")
  /\ UNCHANGED <<remaddr, sendVars, bufVars, hand, poolVars, dest, counter>>

StoreCounter(d) ==
  /\ stage[d] = "store"
  /\ counter' = [counter EXCEPT ![CounterOf(dest[d])] = reg[d] + 1]
  /\ reg' = [reg EXCEPT ![d] = 0]
  /\ Goto(d, "recv")
  /\ UNCHANGED <<remaddr, sendVars, bufVars, hand, poolVars, dest, raced>>

DeliverTo(a, d) == dest[d] = a /\ (LoadCounter(d) \/ StoreCounter(d))

deliver_FTP(d)    == DeliverTo(FTP, d)
deliver_Telnet(d) == DeliverTo(Telnet, d)
deliver_RDP(d)    == DeliverTo(RDP, d)
deliver_DNS(d)    == DeliverTo(DNSC, d)

Delivery(d) == \/ deliver_Ethernet(d) \/ deliver_TCP(d) \/ deliver_UDP(d)
               \/ deliver_FTP(d) \/ deliver_Telnet(d) \/ deliver_RDP(d) \/ deliver_DNS(d)

\* Mutation: the join not waited for.
FreeAtOnce(d) ==
  /\ slot[d] # NoSlot /\ d \notin joined /\ stage[d] # "none"
  /\ flags' = [flags EXCEPT ![slot[d]] = TRUE]
  /\ joined' = joined \cup {d}
  /\ UNCHANGED <<remaddr, sendVars, bufVars, stage, hand, i, slot, lost, doubtful, dest, countVars>>

\* d's slave has joined it and frees the slot.  In a slot claimed twice the id
\* it joins may not be d's, or one joined twice, and the join return any time.
FreeSlot(d) ==
  /\ slot[d] # NoSlot /\ d \notin joined /\ stage[d] # "none"
  /\ stage[d] = "ended" \/ slot[d] \in doubtful
  /\ flags' = [flags EXCEPT ![slot[d]] = TRUE]
  /\ joined' = joined \cup {d}
  /\ UNCHANGED <<remaddr, sendVars, bufVars, stage, hand, i, slot, lost, doubtful, dest, countVars>>

-----------------------------------------------------------------------------
\* What receiver r does once recvfrom has a datagram for it.
Handle(r) == \/ \E f \in Fields : CopyField(r, f)
             \/ NewMessage(r) \/ thread_avail(r) \/ dispatch_thread(r)

IN_sock_RecvFunc(r) == (\E a \in Apps : RecvFrom(r, a)) \/ Handle(r)

Step == \/ SetRemaddr
        \/ \E a \in Apps : AppThread(a) \/ SendFails(a)
        \/ \E r \in Receivers : IN_sock_RecvFunc(r)
        \/ \E d \in Datagrams : Delivery(d) \/ FreeSlot(d)

\* The process has ended, or main spins and nothing else is left to do.
Quiet == /\ \/ exited
            \/ /\ main
               /\ \A a \in Apps : app[a].at = "send" /\ (app[a].n = N \/ Traffic >= MaxTraffic)
               /\ Len(rx) = MaxRecv \/ Traffic >= MaxTraffic
               /\ \A r \in Receivers : stage[r] \in {"none", "recv", "ended"}
         /\ UNCHANGED vars

Next == (~ exited /\ Step) \/ Quiet

Spec == Init /\ [][Next]_vars

\* Applications, receivers and deliveries that can run are eventually run;
\* nothing is assumed of slaves (FreeSlot), of the arrival of datagrams or of
\* sendto.
Fairness == /\ \A a \in Apps : WF_vars(~ exited /\ AppThread(a))
            /\ \A r \in Receivers : WF_vars(~ exited /\ Handle(r))
            /\ \A d \in Datagrams : WF_vars(~ exited /\ Delivery(d))

FairSpec == Spec /\ Fairness

-----------------------------------------------------------------------------
Stages == {"none", "recv", "copy", "avail", "look", "claim", "create",
           "ip", "tcp", "udp", "load", "store", "ended"}

TypeOK == /\ remaddr \in {"none", "in", "out"} /\ main \in BOOLEAN /\ exited \in BOOLEAN
          /\ app \in [Apps -> [at : {"send", "load", "store"}, n : 0..N, reg : Nat]]
          /\ sent \subseteq [app : Apps, n : 1..N, to : {"none", "in", "out"}, arrived : 0..MaxRecv]
          /\ rx \in Seq(Apps) /\ Len(rx) <= MaxRecv
          /\ buf \in [Fields -> 0..8]
          /\ copying \in [Receivers -> SUBSET Fields]
          /\ stage \in [Receivers -> Stages]
          /\ hand \in [Receivers -> Receivers]
          /\ i \in [Receivers -> 0..threadCount]
          /\ flags \in [Slots -> BOOLEAN]
          /\ slot \in [Datagrams -> 0..threadCount]
          /\ joined \subseteq Datagrams /\ lost \subseteq Datagrams
          /\ dest \in [Datagrams -> AppProtos \cup {0}]
          /\ counter \in [Counters -> Nat]
          /\ reg \in [Datagrams -> Nat]
          /\ mixed \in [Datagrams -> SUBSET Datagrams]
          /\ doubtful \subseteq Slots
          /\ raced \subseteq Counters

\* Everything sent goes to the peer: to its IN port, or, because a receiver
\* has stored the source of a datagram in remaddr, to its OUT port; the latter
\* only after a datagram has arrived, and never to no address at all.
SentToPeer == \A s \in sent : s.to = "in" \/ (s.to = "out" /\ s.arrived > 0)

\* A message is delivered to an application only if it, or a datagram whose
\* bytes were stored over or under it while it was being routed, is addressed
\* to that application; and it is unroutable only if two of these use different
\* transports.  With one receiver per delivery the other may also be an older
\* datagram, whose recvfrom is still storing when this one's has begun.
RoutedByOverlapping ==
  \A d \in 1..Len(rx) :
    /\ dest[d] # 0 => \E e \in mixed[d] : rx[e] = dest[d]
    /\ stage[d] = "ended" => \E e, f \in mixed[d] : Transport(rx[e]) # Transport(rx[f])

\* A slot that is not claimed twice is used up by the first message delivered
\* in it: it is never free again and no second message is delivered in it.  So
\* at most threadCount messages are ever delivered while no slot is in doubt.
SlotsUsedUp ==
  \A s \in Slots \ doubtful : \A d, e \in {d \in Datagrams : slot[d] = s /\ dest[d] # 0} :
     d = e /\ ~ flags[s]

\* Each counter is at most the number of messages that passed it, and exactly
\* that unless two threads were between its load and its store at once.
CountersExactUnlessRaced ==
  /\ \A a \in AppProtos :
       LET passed == Cardinality({d \in Datagrams : dest[d] = a /\ stage[d] \notin {"load", "store"}})
       IN counter[a] <= passed /\ (a \notin raced => counter[a] = passed)
  /\ LET passed == Cardinality({s \in sent : app[s.app].n > s.n \/ app[s.app].at = "send"})
     IN counter[SendCount] <= passed /\ (SendCount \notin raced => counter[SendCount] = passed)

\* Every datagram received is eventually delivered and counted, dropped for
\* want of a slot, or returned from as unroutable, unless the process ends:
\* no delivery is stuck behind the pool, however many slots are used up.
EventuallySettled ==
  \A d \in Datagrams : d <= Len(rx) ~>
     \/ exited \/ d \in lost \/ stage[d] = "ended"
     \/ dest[d] # 0 /\ stage[d] \notin {"load", "store"}
=============================================================================
