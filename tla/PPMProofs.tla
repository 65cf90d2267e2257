------------------------------ MODULE PPMProofs ------------------------------
(***************************************************************************)
(* Theorems about PPM, for any applications, messages, datagrams and slots. *)
(***************************************************************************)
EXTENDS PPM, FiniteSetTheorems, SequenceTheorems, TLAPS

-----------------------------------------------------------------------------
(* The invariant, in parts.                                                *)

\* A receiver has a datagram to give to the pool.
Busy(r) == stage[r] \in {"copy", "avail", "look", "claim", "create"}

\* The datagram in its hand is its alone, and no thread delivers it yet.
HandInv ==
  /\ \A r \in Receivers : /\ copying[r] # {} => stage[r] = "copy"
                          /\ Busy(r) => /\ hand[r] \in 1..Len(rx)
                                        /\ stage[hand[r]] = "none" /\ hand[r] \notin lost
                          /\ stage[r] \in {"claim", "create"} => i[r] \in Slots
  /\ \A q, r \in Receivers : Busy(q) /\ Busy(r) /\ hand[q] = hand[r] => q = r

\* Only a datagram that is received is delivered, and has an application once
\* it has been routed.
DeliveryInv ==
  \A d \in Datagrams :
    /\ stage[d] # "none" \/ d \in lost \/ slot[d] # NoSlot => d \in 1..Len(rx)
    /\ dest[d] # 0 <=> stage[d] \notin {"none", "ip", "tcp", "udp", "ended"}
    /\ d \in lost => stage[d] = "none"

TypeInv == TypeOK /\ HandInv /\ DeliveryInv

\* remaddr is set before anything is sent, and a receiver changes it only when
\* a datagram has arrived.
SendInv == /\ main => remaddr # "none"
           /\ remaddr = "out" => rx # << >>
           /\ SentToPeer

\* A datagram has its slot from the claim on, and keeps it until the slave has
\* joined its delivery.
SlotInv ==
  /\ \A r \in Receivers : /\ Busy(r) /\ stage[r] # "create" => slot[hand[r]] = NoSlot
                          /\ stage[r] = "create" => slot[hand[r]] = i[r]
  /\ \A d \in joined : slot[d] # NoSlot /\ stage[d] # "none" /\ (slot[d] \in doubtful \/ stage[d] = "ended")
  /\ \A s \in Slots \ doubtful :
       /\ \A d, e \in Datagrams \ joined : slot[d] = s /\ slot[e] = s => d = e
       /\ flags[s] => \A d \in Datagrams \ joined : slot[d] # s

\* A datagram d can meet the value v at field f.
Seen(d, f, v) == \E e \in mixed[d] : Frame(rx[e])[f] = v

\* What buf holds while d is not routed is from a datagram it can meet, unless
\* d's own is still to be stored there.
MixAt(d) ==
  /\ d \in Unrouted =>
       /\ d \in mixed[d]
       /\ \A q \in Receivers : copying[q] # {} => hand[q] \in mixed[d]
       /\ \A f \in Fields : (\A q \in Receivers : hand[q] = d => f \notin copying[q]) => Seen(d, f, buf[f])
  /\ mixed[d] \subseteq 1..Len(rx)
  /\ stage[d] = "tcp" => Seen(d, 2, TCP)
  /\ stage[d] = "udp" => Seen(d, 2, UDP)

MixInv == (\A d \in 1..Len(rx) : MixAt(d)) /\ RoutedByOverlapping

\* The deliveries that have counted for application a, and the messages counted
\* as sent.
Passed(a)  == {d \in Datagrams : dest[d] = a /\ stage[d] \notin {"load", "store"}}
PassedSent == {s \in sent : app[s.app].n > s.n \/ app[s.app].at = "send"}

\* Delivery d is between the load and the store of application a's counter.
Counts(d, a) == stage[d] = "store" /\ dest[d] = a

\* The counter and what a delivery has loaded of it are at most what has passed;
\* with no race they are that, and one delivery at most has loaded it.
CountedAt(a) ==
  /\ counter[a] <= Cardinality(Passed(a))
  /\ \A d \in Datagrams : Counts(d, a) => reg[d] <= Cardinality(Passed(a))
  /\ a \notin raced => counter[a] = Cardinality(Passed(a))
  /\ a \notin raced => \A d, e \in Datagrams : Counts(d, a) /\ Counts(e, a) => reg[d] = counter[a] /\ d = e

DeliverCountInv == \A a \in AppProtos : CountedAt(a)

\* The same of the applications and their counter.
SendCountInv ==
  /\ counter[SendCount] <= Cardinality(PassedSent)
  /\ \A a \in Apps : app[a].at = "store" => app[a].reg <= Cardinality(PassedSent)
  /\ SendCount \notin raced => counter[SendCount] = Cardinality(PassedSent)
  /\ SendCount \notin raced => \A a, c \in Apps : app[a].at = "store" /\ app[c].at = "store" =>
       app[a].reg = counter[SendCount] /\ a = c

\* Each message sent is its application's last or an earlier one.
SentInv ==
  /\ \A s \in sent : s.n <= app[s.app].n
  /\ \A s, t \in sent : s.app = t.app /\ s.n = t.n => s = t
  /\ \A a \in Apps : app[a].at # "send" => \E s \in sent : s.app = a /\ s.n = app[a].n
  /\ IsFiniteSet(sent)
-----------------------------------------------------------------------------
(* Constants.                                                              *)
LEMMA Constants ==
  /\ First = 0 /\ Datagrams = 1..MaxRecv /\ Receivers = 0..MaxRecv /\ MaxRecv \in Nat
  /\ Datagrams \subseteq Receivers /\ First \in Receivers \ Datagrams
  /\ Slots = 0..(threadCount - 1) /\ NoSlot = threadCount /\ threadCount \in Nat
  /\ Slots \subseteq 0..threadCount /\ NoSlot \in (0..threadCount) \ Slots
  /\ Apps \subseteq AppProtos /\ AppProtos = {5, 6, 7, 8} /\ 0 \notin AppProtos
  /\ SendCount = 0 /\ Counters = {0, 5, 6, 7, 8}
  BY MaxRecvAssumption, CountAssumption, AppsAssumption
     DEF First, Datagrams, Receivers, Slots, NoSlot, AppProtos, SendCount, Counters, FTP, Telnet, RDP, DNSC

\* A header before others: it comes first and they move up by one.
Put(h, s) == <<h>> \o s

LEMMA Header ==
  ASSUME NEW h \in Nat, NEW s \in Seq(Nat)
  PROVE  /\ Put(h, s) \in Seq(Nat) /\ Len(Put(h, s)) = Len(s) + 1
         /\ Put(h, s)[1] = h
         /\ \A n \in 1..Len(s) : Put(h, s)[n + 1] = s[n]
<1>1. <<h>> \in Seq(Nat) /\ Len(<<h>>) = 1 /\ <<h>>[1] = h
  OBVIOUS
<1>2. \A n \in 1..Len(s) : (<<h>> \o s)[n + 1] = s[n + 1 - 1]
  BY <1>1
<1> QED  BY <1>1, <1>2 DEF Put

\* The transport's header is above that of the Ethernet layer, and the
\* application's id in it.
LEMMA SendFrame ==
  ASSUME NEW t \in Nat, NEW a \in Nat
  PROVE  /\ send_IP(t, <<a>> \o (<<a>> \o << >>))[2] = t
         /\ send_IP(t, <<a>> \o (<<a>> \o << >>))[3] = a
<1> DEFINE u == Put(a, << >>)
           v == Put(a, u)
           w == Put(t, v)
<1>1. u \in Seq(Nat)
  <2>1. << >> \in Seq(Nat)
    OBVIOUS
  <2> QED  BY <2>1, Header
<1>2. v \in Seq(Nat) /\ Len(v) = Len(u) + 1 /\ v[1] = a
  BY <1>1, Header
<1>3. w \in Seq(Nat) /\ Len(w) = Len(v) + 1 /\ w[1] = t /\ \A n \in 1..Len(v) : w[n + 1] = v[n]
  BY <1>2, Header
<1>4. \A n \in 1..Len(w) : Put(2, w)[n + 1] = w[n]
  BY <1>3, Header
<1>5. send_IP(t, <<a>> \o (<<a>> \o << >>)) = Put(2, w)
  BY DEF send_IP, send_Ethernet, Put
<1> HIDE DEF u, v, w
<1>6. Len(u) \in Nat /\ 1 \in 1..Len(v) /\ 1 \in 1..Len(w) /\ 2 \in 1..Len(w)
  BY <1>1, <1>2, <1>3
<1>7. Put(2, w)[1 + 1] = w[1] /\ Put(2, w)[2 + 1] = w[2] /\ w[1 + 1] = v[1]
  BY <1>3, <1>4, <1>6
<1> QED  BY <1>2, <1>3, <1>5, <1>7

\* What the layers make of a message of each application.
LEMMA FrameFacts == \A a \in AppProtos : Frame(a)[2] = Transport(a) /\ Frame(a)[3] = a
<1>1. \A a \in AppProtos :
        Frame(a) = send_IP(Transport(a), <<a>> \o (<<a>> \o << >>))
  BY DEF AppProtos, Frame, Transport, send_FTP, send_Telnet, send_RDP, send_DNS, send_TCP, send_UDP,
         FTP, Telnet, RDP, DNSC, TCP, UDP
<1>2. \A a \in AppProtos : a \in Nat /\ Transport(a) \in Nat
  BY Constants DEF Transport, TCP, UDP
<1>3. ASSUME NEW a \in AppProtos PROVE Frame(a)[2] = Transport(a) /\ Frame(a)[3] = a
  <2>1. /\ send_IP(Transport(a), <<a>> \o (<<a>> \o << >>))[2] = Transport(a)
        /\ send_IP(Transport(a), <<a>> \o (<<a>> \o << >>))[3] = a
    BY <1>2, SendFrame
  <2> QED  BY <1>1, <2>1
<1> QED  BY <1>3

-----------------------------------------------------------------------------
(* Types, those of the senders and of the receivers apart.                 *)
Thread == [at : {"send", "load", "store"}, n : 0..N, reg : Nat]

SendTypes == /\ remaddr \in {"none", "in", "out"} /\ main \in BOOLEAN /\ exited \in BOOLEAN
             /\ app \in [Apps -> Thread]
             /\ sent \subseteq [app : Apps, n : 1..N, to : {"none", "in", "out"}, arrived : 0..MaxRecv]

BufTypes  == /\ rx \in Seq(Apps) /\ Len(rx) <= MaxRecv
             /\ buf \in [Fields -> 0..8]
             /\ copying \in [Receivers -> SUBSET Fields]
             /\ mixed \in [Datagrams -> SUBSET Datagrams]

PoolTypes == /\ stage \in [Receivers -> Stages]
             /\ hand \in [Receivers -> Receivers]
             /\ i \in [Receivers -> 0..threadCount]
             /\ flags \in [Slots -> BOOLEAN]
             /\ slot \in [Datagrams -> 0..threadCount]
             /\ joined \subseteq Datagrams /\ lost \subseteq Datagrams
             /\ dest \in [Datagrams -> AppProtos \cup {0}]
             /\ doubtful \subseteq Slots

CountTypes == /\ counter \in [Counters -> Nat]
              /\ reg \in [Datagrams -> Nat]
              /\ raced \subseteq Counters

LEMMA Types == TypeOK <=> SendTypes /\ BufTypes /\ PoolTypes /\ CountTypes
  BY DEF TypeOK, SendTypes, Thread, BufTypes, PoolTypes, CountTypes

LEMMA TypesNext == TypeOK' <=> SendTypes' /\ BufTypes' /\ PoolTypes' /\ CountTypes'
  BY DEF TypeOK, SendTypes, Thread, BufTypes, PoolTypes, CountTypes

LEMMA InitTypeInv == Init => TypeInv
<1> SUFFICES ASSUME Init PROVE TypeInv
  OBVIOUS
<1> USE Constants DEF Init
<1>1. SendTypes
  <2>1. [at |-> "send", n |-> 0, reg |-> 0] \in Thread
    BY NAssumption DEF Thread
  <2> QED  BY <2>1 DEF SendTypes
<1>2. BufTypes
  <2>1. rx \in Seq(Apps) /\ Len(rx) = 0
    OBVIOUS
  <2> QED  BY <2>1 DEF BufTypes, Fields
<1>3. PoolTypes /\ CountTypes
  BY DEF PoolTypes, CountTypes, Stages
<1>4. HandInv
  BY DEF HandInv, Busy
<1>5. DeliveryInv
  BY DEF DeliveryInv
<1> QED  BY <1>1, <1>2, <1>3, <1>4, <1>5, Types DEF TypeInv

\* main and the applications do not touch what is received.
LEMMA SendTypeInv ==
  ASSUME TypeInv, SetRemaddr \/ \E a \in Apps : AppThread(a) \/ SendFails(a)
  PROVE  TypeInv'
<1> USE DEF TypeInv
<1>1. UNCHANGED <<rx, buf, copying, mixed, stage, hand, i, flags, slot, joined, lost, doubtful, dest, reg>>
  BY DEF SetRemaddr, AppThread, SendMessage, SendFails, LoadSent, StoreSent, bufVars, poolVars, countVars
<1>2. HandInv' /\ DeliveryInv'
  BY <1>1 DEF HandInv, Busy, DeliveryInv
<1>3. BufTypes' /\ PoolTypes'
  BY <1>1, Types DEF BufTypes, PoolTypes
<1>4. SendTypes /\ CountTypes /\ Len(rx) \in 0..MaxRecv
  BY Constants, Types DEF BufTypes
<1>5. CASE SetRemaddr
  <2>1. SendTypes' /\ CountTypes'
    BY <1>4, <1>5 DEF SetRemaddr, SendTypes, CountTypes, countVars
  <2> QED  BY <1>2, <1>3, <2>1, TypesNext
<1>6. ASSUME NEW a \in Apps, SendMessage(a) PROVE TypeInv'
  <2>1. app[a].n + 1 \in 1..N /\ app[a] \in Thread
    BY <1>4, <1>6, NAssumption DEF SendTypes, SendMessage, Thread
  <2>2. app' \in [Apps -> Thread] /\ app'[a].n = app[a].n + 1
    BY <1>4, <1>6, <2>1, NAssumption DEF SendTypes, SendMessage, Thread
  <2>3. sent' \subseteq [app : Apps, n : 1..N, to : {"none", "in", "out"}, arrived : 0..MaxRecv]
    BY <1>4, <1>6, <2>1, <2>2 DEF SendTypes, SendMessage
  <2>4. SendTypes' /\ CountTypes'
    BY <1>4, <1>6, <2>2, <2>3 DEF SendTypes, CountTypes, SendMessage, countVars
  <2> QED  BY <1>2, <1>3, <2>4, TypesNext
<1>7. ASSUME NEW a \in Apps, SendFails(a) PROVE TypeInv'
  <2>1. SendTypes' /\ CountTypes'
    BY <1>4, <1>7 DEF SendFails, SendTypes, CountTypes, countVars
  <2> QED  BY <1>2, <1>3, <2>1, TypesNext
<1>8. ASSUME NEW a \in Apps, LoadSent(a) PROVE TypeInv'
  <2>1. app[a] \in Thread /\ SendCount \in Counters /\ counter[SendCount] \in Nat
    BY <1>4, Constants DEF SendTypes, CountTypes
  <2>2. app' \in [Apps -> Thread]
    BY <1>4, <1>8, <2>1 DEF LoadSent, SendTypes, Thread
  <2>3. SendTypes'
    BY <1>4, <1>8, <2>2 DEF LoadSent, SendTypes
  <2>4. CountTypes'
    BY <1>4, <1>8, <2>1 DEF LoadSent, CountTypes, Thread
  <2> QED  BY <1>2, <1>3, <2>3, <2>4, TypesNext
<1>9. ASSUME NEW a \in Apps, StoreSent(a) PROVE TypeInv'
  <2>1. app[a] \in Thread /\ SendCount \in Counters /\ counter[SendCount] \in Nat
    BY <1>4, Constants DEF SendTypes, CountTypes
  <2>2. app' \in [Apps -> Thread]
    BY <1>4, <1>9, <2>1 DEF StoreSent, SendTypes, Thread
  <2>3. SendTypes'
    BY <1>4, <1>9, <2>2 DEF StoreSent, SendTypes
  <2>4. CountTypes'
    BY <1>4, <1>9, <2>1 DEF StoreSent, CountTypes, Thread
  <2> QED  BY <1>2, <1>3, <2>3, <2>4, TypesNext
<1> QED  BY <1>5, <1>6, <1>7, <1>8, <1>9 DEF AppThread

\* recvfrom takes a datagram that nobody has.
LEMMA RecvFromTypeInv ==
  ASSUME TypeInv, NEW r \in Receivers, NEW a \in Apps, RecvFrom(r, a)
  PROVE  TypeInv'
<1> DEFINE d == Len(rx) + 1
<1> USE DEF TypeInv
<1>1. /\ Len(rx) \in Nat /\ d \in Datagrams /\ d \in Receivers /\ d \notin 1..Len(rx)
      /\ rx \in Seq(Apps) /\ Len(rx) <= MaxRecv
  BY Types, Constants DEF RecvFrom, BufTypes
<1>2. /\ rx' \in Seq(Apps) /\ Len(rx') = d /\ 1..Len(rx) \subseteq 1..Len(rx') /\ d \in 1..Len(rx')
  BY <1>1 DEF RecvFrom
<1>3. stage[d] = "none" /\ d \notin lost /\ stage[r] = "recv" /\ r # d
  BY <1>1 DEF DeliveryInv, RecvFrom
<1>4. SendTypes' /\ CountTypes'
  BY Types DEF RecvFrom, SendTypes, CountTypes, sendVars, countVars
<1>5. PoolTypes /\ BufTypes
  BY Types
<1>6. BufTypes'
  <2>1. mixed' \in [Datagrams -> SUBSET Datagrams]
    <3>1. ASSUME NEW q \in Receivers, copying[q] # {} PROVE hand[q] \in Datagrams
      <4>1. hand[q] \in 1..Len(rx)
        BY <3>1 DEF HandInv, Busy
      <4> QED  BY <1>1, <4>1, Constants
    <3>2. {hand[q] : q \in {q \in Receivers : copying[q] # {}}} \subseteq Datagrams
      BY <3>1
    <3> QED  BY <1>1, <1>5, <3>2 DEF RecvFrom, BufTypes
  <2>2. copying' \in [Receivers -> SUBSET Fields]
    BY <1>5 DEF RecvFrom, BufTypes
  <2> QED  BY <1>1, <1>2, <1>5, <2>1, <2>2, Constants DEF RecvFrom, BufTypes
<1>7. PoolTypes'
  BY <1>1, <1>5 DEF RecvFrom, Goto, PoolTypes, poolVars, Stages
<1>8. /\ stage' = [stage EXCEPT ![r] = "copy"] /\ hand' = [hand EXCEPT ![r] = d]
      /\ copying' = [copying EXCEPT ![r] = Fields]
      /\ stage \in [Receivers -> Stages] /\ hand \in [Receivers -> Receivers]
      /\ copying \in [Receivers -> SUBSET Fields]
      /\ UNCHANGED <<i, lost, slot, dest>>
  BY <1>5 DEF RecvFrom, Goto, PoolTypes, BufTypes, poolVars
<1> HIDE DEF d
<1>9. HandInv'
  <2>1. ASSUME NEW q \in Receivers
        PROVE  /\ copying'[q] # {} => stage'[q] = "copy"
               /\ Busy(q)' => hand'[q] \in 1..Len(rx') /\ stage'[hand'[q]] = "none" /\ hand'[q] \notin lost'
               /\ stage'[q] \in {"claim", "create"} => i'[q] \in Slots
    <3>1. CASE q = r
      BY <1>1, <1>2, <1>3, <1>8, <3>1 DEF Busy
    <3>2. CASE q # r
      <4>1. Busy(q)' <=> Busy(q)
        BY <1>8, <3>2 DEF Busy
      <4>2. Busy(q) => hand[q] \in 1..Len(rx) /\ stage[hand[q]] = "none" /\ hand[q] # r
        BY <1>3 DEF HandInv
      <4> QED  BY <1>2, <1>8, <3>2, <4>1, <4>2 DEF HandInv
    <3> QED  BY <3>1, <3>2
  <2>2. ASSUME NEW p \in Receivers, NEW q \in Receivers, Busy(p)', Busy(q)', hand'[p] = hand'[q]
        PROVE  p = q
    <3>1. \A z \in Receivers \ {r} : Busy(z)' => Busy(z) /\ hand'[z] = hand[z] /\ hand[z] # d
      BY <1>1, <1>8 DEF Busy, HandInv
    <3>2. hand'[r] = d
      BY <1>8
    <3> QED  BY <2>2, <3>1, <3>2 DEF HandInv
  <2> QED  BY <2>1, <2>2 DEF HandInv
<1>10. DeliveryInv'
  BY <1>2, <1>3, <1>8, Constants DEF DeliveryInv
<1> QED  BY <1>4, <1>6, <1>7, <1>9, <1>10, TypesNext

\* A receiver that stays busy with its datagram.
LEMMA StaysBusy ==
  ASSUME TypeInv, NEW r \in Receivers, Busy(r), Busy(r)',
         NEW at \in Stages, stage' = [stage EXCEPT ![r] = at], at # "copy" => copying[r] = {},
         UNCHANGED <<rx, copying, hand, lost, slot, dest>>,
         \A q \in Receivers \ {r} : i'[q] = i[q],
         at \in {"claim", "create"} => i'[r] \in Slots
  PROVE  HandInv' /\ DeliveryInv'
<1> USE DEF TypeInv
<1>1. stage \in [Receivers -> Stages] /\ at \in {"copy", "avail", "look", "claim", "create"}
  BY Types DEF PoolTypes, Busy
<1>2. \A q \in Receivers : (Busy(q)' <=> Busy(q)) /\ (q # r => stage'[q] = stage[q])
  BY <1>1 DEF Busy
<1>3. \A q \in Receivers : Busy(q) => hand[q] # r
  BY DEF HandInv, Busy
<1>4. HandInv'
  BY <1>1, <1>2, <1>3, Constants DEF HandInv
<1>5. DeliveryInv'
  BY <1>1, <1>2, Constants DEF DeliveryInv, Busy
<1> QED  BY <1>4, <1>5

\* A receiver that gives its datagram up, or to a thread that delivers it.
LEMMA HandsOver ==
  ASSUME TypeInv, NEW r \in Receivers, Busy(r), copying[r] = {},
         NEW lose \in BOOLEAN,
         stage' = IF lose THEN [stage EXCEPT ![r] = "recv"]
                          ELSE [stage EXCEPT ![r] = "recv", ![hand[r]] = "ip"],
         lost' = IF lose THEN lost \cup {hand[r]} ELSE lost,
         UNCHANGED <<rx, copying, hand, slot, dest>>,
         \A q \in Receivers \ {r} : i'[q] = i[q]
  PROVE  HandInv' /\ DeliveryInv'
<1> DEFINE d == hand[r]
<1> USE DEF TypeInv
<1>1. stage \in [Receivers -> Stages] /\ d \in Datagrams /\ d \in Receivers /\ d \in 1..Len(rx)
  <2>1. d \in 1..Len(rx) /\ rx \in Seq(Apps) /\ Len(rx) <= MaxRecv
    BY Types DEF HandInv, BufTypes
  <2> QED  BY <2>1, Types, Constants DEF PoolTypes
<1>2. stage[d] = "none" /\ d # r /\ d \notin lost
  BY DEF HandInv, Busy
<1> HIDE DEF d
<1>3. \A q \in Receivers \ {r, d} : stage'[q] = stage[q]
  BY <1>1 DEF d
<1>4. stage'[r] = "recv" /\ stage'[d] = IF lose THEN "none" ELSE "ip"
  BY <1>1, <1>2 DEF d
<1>5. \A q \in Receivers : Busy(q)' => Busy(q) /\ q # r /\ q # d /\ hand[q] # r /\ hand[q] # d
  BY <1>2, <1>3, <1>4 DEF HandInv, Busy, d
<1>6. HandInv'
  <2>1. ASSUME NEW q \in Receivers
        PROVE  /\ copying'[q] # {} => stage'[q] = "copy"
               /\ Busy(q)' => hand'[q] \in 1..Len(rx') /\ stage'[hand'[q]] = "none" /\ hand'[q] \notin lost'
               /\ stage'[q] \in {"claim", "create"} => i'[q] \in Slots
    <3>1. CASE q \in {r, d}
      BY <1>2, <1>4, <3>1, <1>5 DEF HandInv
    <3>2. CASE q \notin {r, d}
      <4>1. Busy(q)' => hand[q] \in 1..Len(rx) /\ hand[q] \in Receivers \ {r, d} /\ stage[hand[q]] = "none"
        BY <1>5, Types DEF HandInv, PoolTypes
      <4>2. ASSUME Busy(q)'
            PROVE  hand'[q] \in 1..Len(rx') /\ stage'[hand'[q]] = "none" /\ hand'[q] \notin lost'
        <5>1. hand[q] \notin lost /\ hand[q] # d
          BY <1>5, <4>2 DEF HandInv
        <5>2. hand[q] \notin lost'
          BY <5>1 DEF d
        <5>3. stage'[hand[q]] = "none"
          BY <1>3, <4>1, <4>2
        <5> QED  BY <4>1, <4>2, <5>2, <5>3
      <4>3. stage'[q] = stage[q] /\ i'[q] = i[q]
        BY <1>3, <3>2
      <4> QED  BY <4>2, <4>3 DEF HandInv
    <3> QED  BY <3>1, <3>2
  <2> QED  BY <1>5, <2>1 DEF HandInv
<1>7. DeliveryInv'
  <2>1. ASSUME NEW e \in Datagrams
        PROVE  /\ stage'[e] # "none" \/ e \in lost' \/ slot'[e] # NoSlot => e \in 1..Len(rx')
               /\ dest'[e] # 0 <=> stage'[e] \notin {"none", "ip", "tcp", "udp", "ended"}
               /\ e \in lost' => stage'[e] = "none"
    <3>1. CASE e = d
      BY <1>1, <1>2, <1>4, <3>1 DEF DeliveryInv, d
    <3>2. CASE e = r
      BY <1>2, <1>4, <3>2 DEF DeliveryInv, Busy, d
    <3>3. CASE e \notin {r, d}
      BY <1>3, <3>3, Constants DEF DeliveryInv, d
    <3> QED  BY <3>1, <3>2, <3>3
  <2> QED  BY <2>1 DEF DeliveryInv
<1> QED  BY <1>6, <1>7

LEMMA CopyFieldTypeInv ==
  ASSUME TypeInv, NEW r \in Receivers, NEW f \in Fields, CopyField(r, f)
  PROVE  TypeInv'
<1> USE DEF TypeInv
<1>1. UNCHANGED <<remaddr, main, app, sent, exited, rx, mixed, stage, hand, i, flags, slot, joined, lost, doubtful,
                  dest, counter, reg, raced>>
  BY DEF CopyField, sendVars, poolVars, countVars
<1>2. BufTypes /\ hand[r] \in 1..Len(rx)
  BY Types DEF CopyField, HandInv, Busy
<1>3. Frame(rx[hand[r]])[f] \in 0..8
  <2>1. rx[hand[r]] \in AppProtos
    <3>1. rx[hand[r]] \in Apps
      BY <1>2 DEF BufTypes
    <3> QED  BY <3>1, Constants
  <2>2. Transport(rx[hand[r]]) \in 0..8 /\ rx[hand[r]] \in 0..8
    BY <2>1, Constants DEF Transport, TCP, UDP
  <2> QED  BY <2>1, <2>2, FrameFacts DEF Fields
<1>4. BufTypes'
  BY <1>1, <1>2, <1>3 DEF CopyField, BufTypes
<1>5. SendTypes' /\ PoolTypes' /\ CountTypes'
  BY <1>1, Types DEF SendTypes, PoolTypes, CountTypes
<1>6. \A q \in Receivers : copying'[q] \subseteq copying[q]
  BY <1>2 DEF CopyField, BufTypes
<1>7. HandInv'
  BY <1>1, <1>6 DEF HandInv, Busy
<1>8. DeliveryInv'
  BY <1>1 DEF DeliveryInv
<1> QED  BY <1>4, <1>5, <1>7, <1>8, TypesNext

LEMMA NewMessageTypeInv ==
  ASSUME TypeInv, NEW r \in Receivers, NewMessage(r)
  PROVE  TypeInv'
<1> USE DEF TypeInv
<1>1. UNCHANGED <<main, app, sent, exited, rx, buf, copying, mixed, hand, flags, slot, joined, lost, doubtful,
                  dest, counter, reg, raced>>
  BY DEF NewMessage, sendVars, bufVars, countVars
<1>2. SendTypes' /\ BufTypes' /\ CountTypes'
  BY <1>1, Types DEF NewMessage, SendTypes, BufTypes, CountTypes
<1>3. PoolTypes /\ PoolTypes'
  <2>1. PoolTypes /\ 0 \in 0..threadCount /\ "avail" \in Stages
    BY Types, Constants DEF Stages
  <2>2. stage' \in [Receivers -> Stages] /\ i' \in [Receivers -> 0..threadCount]
    BY <2>1 DEF NewMessage, Goto, PoolTypes
  <2> QED  BY <1>1, <2>1, <2>2 DEF PoolTypes
<1>4. HandInv' /\ DeliveryInv'
  <2>1. Busy(r) /\ Busy(r)' /\ "avail" \in Stages
    BY <1>3 DEF NewMessage, Goto, Busy, PoolTypes, Stages
  <2>2. stage' = [stage EXCEPT ![r] = "avail"] /\ copying[r] = {} /\ \A q \in Receivers \ {r} : i'[q] = i[q]
    BY <1>3 DEF NewMessage, Goto, PoolTypes
  <2> QED  BY <1>1, <2>1, <2>2, StaysBusy
<1> QED  BY <1>2, <1>3, <1>4, TypesNext

\* A round of a loop of the pool's functions.
LEMMA LookAtTypeInv ==
  ASSUME TypeInv, NEW r \in Receivers, NEW to, NEW n, LookAt(r, to, n),
         stage[r] \in {"avail", "look"}, (to = "look" /\ n = 0) \/ (to = "claim" /\ n = i[r]),
         UNCHANGED <<remaddr, sendVars, bufVars, dest, countVars>>
  PROVE  TypeInv'
<1> USE DEF TypeInv
<1>1. UNCHANGED <<main, app, sent, exited, rx, buf, copying, mixed, hand, flags, slot, joined, lost, doubtful,
                  dest, counter, reg, raced>>
  BY DEF LookAt, sendVars, bufVars, countVars
<1>2. SendTypes' /\ BufTypes' /\ CountTypes'
  BY <1>1, Types DEF SendTypes, BufTypes, CountTypes
<1>3. PoolTypes /\ i[r] \in Slots /\ i[r] + 1 \in 0..threadCount /\ n \in 0..threadCount
  <2>1. PoolTypes /\ i[r] \in Slots
    BY Types DEF LookAt
  <2> QED  BY <2>1, Constants
<1>4. PICK at \in Stages : stage' = [stage EXCEPT ![r] = at] /\ at \in {stage[r], to}
  BY <1>3 DEF LookAt, Goto, PoolTypes, Stages
<1>5. i' = [i EXCEPT ![r] = i[r] + 1] \/ i' = [i EXCEPT ![r] = n]
  BY <1>3 DEF LookAt
<1>6. PoolTypes'
  BY <1>1, <1>3, <1>4, <1>5 DEF PoolTypes
<1>7. at = "claim" => i'[r] = i[r]
  BY <1>3, <1>4 DEF LookAt, Goto, PoolTypes
<1>8. HandInv' /\ DeliveryInv'
  <2>1. Busy(r) /\ Busy(r)' /\ copying[r] = {} /\ at # "copy"
    BY <1>3, <1>4 DEF Busy, PoolTypes, HandInv
  <2>2. \A q \in Receivers \ {r} : i'[q] = i[q]
    BY <1>3, <1>5 DEF PoolTypes
  <2>3. at \in {"claim", "create"} => i'[r] \in Slots
    BY <1>3, <1>4, <1>7
  <2> QED  BY <1>1, <1>4, <2>1, <2>2, <2>3, StaysBusy
<1> QED  BY <1>2, <1>6, <1>8, TypesNext

\* A datagram no slot is found for.
LEMMA DropTypeInv ==
  ASSUME TypeInv, NEW r \in Receivers, Drop(r), stage[r] \in {"avail", "look"},
         UNCHANGED <<remaddr, sendVars, bufVars, dest, countVars>>
  PROVE  TypeInv'
<1> USE DEF TypeInv
<1>1. UNCHANGED <<main, app, sent, exited, rx, buf, copying, mixed, hand, flags, slot, joined, doubtful,
                  dest, counter, reg, raced>>
  BY DEF Drop, sendVars, bufVars, countVars
<1>2. SendTypes' /\ BufTypes' /\ CountTypes'
  BY <1>1, Types DEF SendTypes, BufTypes, CountTypes
<1>3. PoolTypes /\ Busy(r) /\ copying[r] = {}
  BY Types DEF Busy, HandInv
<1>4. hand[r] \in Datagrams
  BY <1>3, Types, Constants DEF HandInv, BufTypes
<1>5. PoolTypes'
  <2>1. 0 \in 0..threadCount /\ "recv" \in Stages
    BY Constants DEF Stages
  <2>2. stage' \in [Receivers -> Stages] /\ i' \in [Receivers -> 0..threadCount]
    BY <1>3, <2>1 DEF Drop, Goto, PoolTypes
  <2> QED  BY <1>1, <1>3, <1>4, <2>2 DEF Drop, PoolTypes
<1>6. HandInv' /\ DeliveryInv'
  <2>1. stage' = [stage EXCEPT ![r] = "recv"] /\ lost' = lost \cup {hand[r]}
    BY DEF Drop, Goto
  <2>2. \A q \in Receivers \ {r} : i'[q] = i[q]
    BY <1>3 DEF Drop, PoolTypes
  <2>3. TRUE \in BOOLEAN
    OBVIOUS
  <2> QED  BY <1>1, <1>3, <2>1, <2>2, <2>3, HandsOver
<1> QED  BY <1>2, <1>5, <1>6, TypesNext

LEMMA ClaimTypeInv ==
  ASSUME TypeInv, NEW r \in Receivers, Claim(r),
         UNCHANGED <<remaddr, sendVars, bufVars, dest, countVars>>
  PROVE  TypeInv'
<1> USE DEF TypeInv
<1>1. UNCHANGED <<main, app, sent, exited, rx, buf, copying, mixed, hand, i, joined, lost,
                  dest, counter, reg, raced>>
  BY DEF Claim, sendVars, bufVars, countVars
<1>2. SendTypes' /\ BufTypes' /\ CountTypes'
  BY <1>1, Types DEF SendTypes, BufTypes, CountTypes
<1>3. PoolTypes /\ Busy(r) /\ stage[r] = "claim" /\ i[r] \in Slots /\ copying[r] = {}
  BY Types DEF Claim, Busy, HandInv
<1>4. hand[r] \in Datagrams /\ hand[r] \in 1..Len(rx)
  BY <1>3, Types, Constants DEF HandInv, BufTypes
<1>5. stage' = [stage EXCEPT ![r] = "create"] /\ "create" \in Stages
  BY DEF Claim, Goto, Stages
<1>6. slot' = [slot EXCEPT ![hand[r]] = i[r]] /\ flags' = [flags EXCEPT ![i[r]] = FALSE]
      /\ doubtful' \subseteq doubtful \cup {i[r]}
  BY DEF Claim
<1>7. PoolTypes'
  <2>1. i[r] \in 0..threadCount
    BY <1>3, Constants
  <2> QED  BY <1>1, <1>3, <1>4, <1>5, <1>6, <2>1 DEF PoolTypes
<1>8. HandInv'
  <2>1. \A q \in Receivers : (Busy(q)' <=> Busy(q)) /\ (q # r => stage'[q] = stage[q])
    BY <1>3, <1>5 DEF Busy, PoolTypes
  <2>2. \A q \in Receivers : Busy(q) => hand[q] # r
    BY <1>3 DEF HandInv, Busy
  <2> QED  BY <1>1, <1>3, <1>5, <2>1, <2>2, Constants DEF HandInv, PoolTypes
<1>9. DeliveryInv'
  BY <1>1, <1>3, <1>4, <1>5, <1>6, Constants DEF DeliveryInv, PoolTypes
<1> QED  BY <1>2, <1>7, <1>8, <1>9, TypesNext

LEMMA CreateTypeInv ==
  ASSUME TypeInv, NEW r \in Receivers, Create(r),
         UNCHANGED <<remaddr, sendVars, bufVars, dest, countVars>>
  PROVE  TypeInv'
<1> USE DEF TypeInv
<1>1. UNCHANGED <<main, app, sent, exited, rx, buf, copying, mixed, hand, flags, slot, joined, lost, doubtful,
                  dest, counter, reg, raced>>
  BY DEF Create, sendVars, bufVars, countVars
<1>2. SendTypes' /\ BufTypes' /\ CountTypes'
  BY <1>1, Types DEF SendTypes, BufTypes, CountTypes
<1>3. PoolTypes /\ Busy(r) /\ copying[r] = {}
  BY Types DEF Create, Busy, HandInv
<1>4. PoolTypes'
  <2>1. 0 \in 0..threadCount /\ {"recv", "ip"} \subseteq Stages
    BY Constants DEF Stages
  <2>2. stage' \in [Receivers -> Stages] /\ i' \in [Receivers -> 0..threadCount]
    BY <1>3, <2>1 DEF Create, PoolTypes
  <2> QED  BY <1>1, <1>3, <2>2 DEF PoolTypes
<1>5. HandInv' /\ DeliveryInv'
  <2>1. stage' = [stage EXCEPT ![r] = "recv", ![hand[r]] = "ip"]
    BY DEF Create
  <2>2. \A q \in Receivers \ {r} : i'[q] = i[q]
    BY <1>3 DEF Create, PoolTypes
  <2>3. FALSE \in BOOLEAN
    OBVIOUS
  <2> QED  BY <1>1, <1>3, <2>1, <2>2, <2>3, HandsOver
<1> QED  BY <1>2, <1>4, <1>5, TypesNext

\* Whatever a receiver does once it has a datagram.
LEMMA HandleTypeInv ==
  ASSUME TypeInv, NEW r \in Receivers, Handle(r)
  PROVE  TypeInv'
<1>1. CASE \E f \in Fields : CopyField(r, f)
  BY <1>1, CopyFieldTypeInv
<1>2. CASE NewMessage(r)
  BY <1>2, NewMessageTypeInv
<1>3. CASE thread_avail(r)
  <2>1. stage[r] = "avail" /\ UNCHANGED <<remaddr, sendVars, bufVars, dest, countVars>>
    BY <1>3 DEF thread_avail
  <2>2. CASE LookAt(r, "look", 0)
    BY <2>1, <2>2, LookAtTypeInv
  <2>3. CASE Drop(r)
    BY <2>1, <2>3, DropTypeInv
  <2> QED  BY <1>3, <2>2, <2>3 DEF thread_avail
<1>4. CASE dispatch_thread(r)
  <2>1. UNCHANGED <<remaddr, sendVars, bufVars, dest, countVars>>
    BY <1>4 DEF dispatch_thread
  <2>2. \/ stage[r] = "look" /\ LookAt(r, "claim", i[r])
        \/ stage[r] = "look" /\ Drop(r)
        \/ Claim(r) \/ Create(r)
    BY <1>4 DEF dispatch_thread
  <2> QED  BY <2>1, <2>2, LookAtTypeInv, DropTypeInv, ClaimTypeInv, CreateTypeInv
<1> QED  BY <1>1, <1>2, <1>3, <1>4 DEF Handle

\* A delivery goes on.
LEMMA Delivers ==
  ASSUME TypeInv, NEW d \in Datagrams, NEW at \in Stages,
         stage[d] \in {"ip", "tcp", "udp", "load", "store"},
         at \in {"tcp", "udp", "ended", "load", "store", "recv"},
         NEW a \in AppProtos \cup {0},
         stage' = [stage EXCEPT ![d] = at], dest' = [dest EXCEPT ![d] = a],
         a # 0 <=> at \in {"load", "store", "recv"},
         UNCHANGED <<remaddr, sendVars, bufVars, hand, poolVars>>
  PROVE  SendTypes' /\ BufTypes' /\ PoolTypes' /\ HandInv' /\ DeliveryInv'
<1> USE DEF TypeInv
<1>1. UNCHANGED <<main, app, sent, exited, rx, buf, copying, mixed, i, flags, slot, joined, lost, doubtful>>
  BY DEF sendVars, bufVars, poolVars
<1>2. PoolTypes /\ d \in Receivers
  BY Types, Constants
<1>3. SendTypes' /\ BufTypes' /\ PoolTypes'
  BY <1>1, <1>2, Types DEF SendTypes, BufTypes, PoolTypes
<1>4. \A q \in Receivers : /\ Busy(q)' <=> Busy(q)
                           /\ stage'[q] = "none" <=> stage[q] = "none"
                           /\ q # d => stage'[q] = stage[q]
  BY <1>2 DEF Busy, PoolTypes
<1>5. ~ Busy(d)
  BY DEF Busy
<1>6. HandInv'
  <2>1. \A q \in Receivers : Busy(q) => hand[q] \in Receivers
    BY <1>2 DEF PoolTypes
  <2>2. copying[d] = {}
    BY <1>2 DEF HandInv
  <2> QED  BY <1>1, <1>2, <1>4, <1>5, <2>1, <2>2 DEF HandInv, PoolTypes
<1>7. DeliveryInv'
  BY <1>1, <1>2, Constants DEF DeliveryInv, PoolTypes
<1> QED  BY <1>3, <1>6, <1>7

LEMMA DeliveryTypeInv ==
  ASSUME TypeInv, NEW d \in Datagrams, Delivery(d)
  PROVE  TypeInv'
<1>1. PoolTypes /\ CountTypes /\ d \in Receivers
  BY Types, Constants DEF TypeInv
<1>2. dest = [dest EXCEPT ![d] = dest[d]] /\ dest[d] \in AppProtos \cup {0}
  BY <1>1 DEF PoolTypes
<1>3. stage[d] \in {"ip", "tcp", "udp"} => dest[d] = 0
  BY DEF TypeInv, DeliveryInv
<1>4. stage[d] \in {"load", "store"} => dest[d] # 0
  BY DEF TypeInv, DeliveryInv
<1>5. CASE deliver_IP(d)
  <2>1. PICK at \in {"tcp", "udp", "ended"} : stage' = [stage EXCEPT ![d] = at]
    BY <1>5 DEF deliver_IP, Goto
  <2>2. at \in Stages /\ stage[d] = "ip" /\ UNCHANGED <<remaddr, sendVars, bufVars, hand, poolVars, dest, countVars>>
    BY <1>5 DEF deliver_IP, Stages
  <2>3. SendTypes' /\ BufTypes' /\ PoolTypes' /\ HandInv' /\ DeliveryInv'
    BY <1>2, <1>3, <2>1, <2>2, Delivers
  <2>4. CountTypes'
    BY <1>1, <2>2 DEF CountTypes, countVars
  <2> QED  BY <2>3, <2>4, TypesNext DEF TypeInv
<1>6. ASSUME NEW p \in {"tcp", "udp"}, DeliverTransport(d, p) PROVE TypeInv'
  <2>1. PICK a \in AppProtos \cup {0} : a = Upper(p, buf[3])
    BY Constants DEF Upper
  <2>2. PICK at \in {"ended", "load"} : stage' = [stage EXCEPT ![d] = at] /\ (a # 0 <=> at = "load")
    BY <1>6, <2>1 DEF DeliverTransport, Goto
  <2>3. /\ at \in Stages /\ stage[d] = p /\ dest' = [dest EXCEPT ![d] = a]
        /\ UNCHANGED <<remaddr, sendVars, bufVars, hand, poolVars, countVars>>
    BY <1>6, <2>1 DEF DeliverTransport, Stages
  <2>4. SendTypes' /\ BufTypes' /\ PoolTypes' /\ HandInv' /\ DeliveryInv'
    BY <2>2, <2>3, Delivers
  <2>5. CountTypes'
    BY <1>1, <2>3 DEF CountTypes, countVars
  <2> QED  BY <2>4, <2>5, TypesNext DEF TypeInv
<1>7. CASE LoadCounter(d)
  <2>1. stage' = [stage EXCEPT ![d] = "store"] /\ stage[d] = "load" /\ "store" \in Stages
        /\ UNCHANGED <<remaddr, sendVars, bufVars, hand, poolVars, dest>>
    BY <1>7 DEF LoadCounter, Goto, Stages
  <2>2. SendTypes' /\ BufTypes' /\ PoolTypes' /\ HandInv' /\ DeliveryInv'
    BY <1>2, <1>4, <2>1, Delivers
  <2>3. CountTypes'
    <3>1. CounterOf(dest[d]) \in Counters
      BY <1>2, Constants DEF CounterOf
    <3> QED  BY <1>1, <1>7, <3>1 DEF CountTypes, LoadCounter
  <2> QED  BY <2>2, <2>3, TypesNext DEF TypeInv
<1>8. CASE StoreCounter(d)
  <2>1. stage' = [stage EXCEPT ![d] = "recv"] /\ stage[d] = "store" /\ "recv" \in Stages
        /\ UNCHANGED <<remaddr, sendVars, bufVars, hand, poolVars, dest>>
    BY <1>8 DEF StoreCounter, Goto, Stages
  <2>2. SendTypes' /\ BufTypes' /\ PoolTypes' /\ HandInv' /\ DeliveryInv'
    BY <1>2, <1>4, <2>1, Delivers
  <2>3. CountTypes'
    <3>1. reg[d] + 1 \in Nat
      BY <1>1 DEF CountTypes
    <3> QED  BY <1>1, <1>8, <3>1 DEF CountTypes, StoreCounter
  <2> QED  BY <2>2, <2>3, TypesNext DEF TypeInv
<1> QED  BY <1>5, <1>6, <1>7, <1>8 DEF Delivery, deliver_Ethernet, deliver_TCP, deliver_UDP, DeliverTo,
             deliver_FTP, deliver_Telnet, deliver_RDP, deliver_DNS

LEMMA FreeSlotTypeInv ==
  ASSUME TypeInv, NEW d \in Datagrams, FreeSlot(d)
  PROVE  TypeInv'
<1>1. UNCHANGED <<remaddr, main, app, sent, exited, rx, buf, copying, mixed, stage, hand, i, slot, lost, doubtful,
                  dest, counter, reg, raced>>
  BY DEF FreeSlot, sendVars, bufVars, countVars
<1>2. SendTypes' /\ BufTypes' /\ CountTypes'
  BY <1>1, Types DEF TypeInv, SendTypes, BufTypes, CountTypes
<1>3. PoolTypes'
  BY <1>1, Types DEF TypeInv, FreeSlot, PoolTypes
<1>4. HandInv' /\ DeliveryInv'
  BY <1>1 DEF TypeInv, HandInv, Busy, DeliveryInv
<1> QED  BY <1>2, <1>3, <1>4, TypesNext DEF TypeInv

LEMMA NextTypeInv == TypeInv /\ [Next]_vars => TypeInv'
<1> SUFFICES ASSUME TypeInv, [Next]_vars PROVE TypeInv'
  OBVIOUS
<1>1. CASE UNCHANGED vars
  <2>1. UNCHANGED <<remaddr, main, app, sent, exited, rx, buf, copying, mixed, stage, hand, i, flags, slot, joined,
                    lost, doubtful, dest, counter, reg, raced>>
    BY <1>1 DEF vars, sendVars, bufVars, poolVars, countVars
  <2>2. SendTypes' /\ BufTypes' /\ PoolTypes' /\ CountTypes'
    BY <2>1, Types DEF TypeInv, SendTypes, BufTypes, PoolTypes, CountTypes
  <2>3. HandInv' /\ DeliveryInv'
    BY <2>1 DEF TypeInv, HandInv, Busy, DeliveryInv
  <2> QED  BY <2>2, <2>3, TypesNext DEF TypeInv
<1>2. CASE Step
  BY <1>2, SendTypeInv, RecvFromTypeInv, HandleTypeInv, DeliveryTypeInv, FreeSlotTypeInv DEF Step, IN_sock_RecvFunc
<1> QED  BY <1>1, <1>2 DEF Next, Quiet

\* Every variable has its type, for any applications, messages, datagrams and
\* slots: no layer is called and no counter used but for an application.
THEOREM TypeCorrect == Spec => []TypeOK
<1>1. Spec => []TypeInv
  BY InitTypeInv, NextTypeInv, PTL DEF Spec
<1> QED  BY <1>1, PTL DEF TypeInv

-----------------------------------------------------------------------------
(* What a receiver, or a delivery, can do: every step by its name.         *)
LEMMA StepCases ==
  ASSUME Step
  PROVE  \/ SetRemaddr
         \/ \E a \in Apps : SendMessage(a) \/ SendFails(a) \/ LoadSent(a) \/ StoreSent(a)
         \/ \E r \in Receivers :
              \/ \E a \in Apps : RecvFrom(r, a)
              \/ \E f \in Fields : CopyField(r, f)
              \/ NewMessage(r)
              \/ /\ \/ stage[r] = "avail" /\ LookAt(r, "look", 0)
                    \/ stage[r] = "look" /\ LookAt(r, "claim", i[r])
                    \/ stage[r] \in {"avail", "look"} /\ Drop(r)
                    \/ Claim(r)
                    \/ Create(r)
                 /\ UNCHANGED <<remaddr, sendVars, bufVars, dest, countVars>>
         \/ \E d \in Datagrams :
              \/ deliver_IP(d) \/ DeliverTransport(d, "tcp") \/ DeliverTransport(d, "udp")
              \/ LoadCounter(d) \/ StoreCounter(d)
              \/ FreeSlot(d)
<1>1. ASSUME NEW r \in Receivers, thread_avail(r) \/ dispatch_thread(r)
      PROVE  /\ \/ stage[r] = "avail" /\ LookAt(r, "look", 0)
                \/ stage[r] = "look" /\ LookAt(r, "claim", i[r])
                \/ stage[r] \in {"avail", "look"} /\ Drop(r)
                \/ Claim(r)
                \/ Create(r)
             /\ UNCHANGED <<remaddr, sendVars, bufVars, dest, countVars>>
  BY <1>1 DEF thread_avail, dispatch_thread
<1>2. ASSUME NEW r \in Receivers, IN_sock_RecvFunc(r)
      PROVE  \/ \E a \in Apps : RecvFrom(r, a)
             \/ \E f \in Fields : CopyField(r, f)
             \/ NewMessage(r) \/ thread_avail(r) \/ dispatch_thread(r)
  BY <1>2 DEF IN_sock_RecvFunc, Handle
<1>3. ASSUME NEW d \in Datagrams, Delivery(d)
      PROVE  \/ deliver_IP(d) \/ DeliverTransport(d, "tcp") \/ DeliverTransport(d, "udp")
             \/ LoadCounter(d) \/ StoreCounter(d)
  BY <1>3 DEF Delivery, deliver_Ethernet, deliver_TCP, deliver_UDP, DeliverTo,
              deliver_FTP, deliver_Telnet, deliver_RDP, deliver_DNS
<1> QED  BY <1>1, <1>2, <1>3 DEF Step, AppThread

\* A step of the specification is one of these, or changes nothing.
LEMMA NextCases == [Next]_vars => Step \/ UNCHANGED vars
  BY DEF Next, Quiet

-----------------------------------------------------------------------------
(* Where datagrams are sent.                                               *)
LEMMA InitSendInv == Init => SendInv
  BY DEF Init, SendInv, SentToPeer

LEMMA NextSendInv == TypeInv /\ SendInv /\ [Next]_vars => SendInv'
<1> SUFFICES ASSUME TypeInv, SendInv, [Next]_vars PROVE SendInv'
  OBVIOUS
<1> USE DEF SendInv, SentToPeer
<1>0. rx \in Seq(Apps) /\ Len(rx) \in Nat /\ (rx # << >> <=> Len(rx) > 0)
  BY Types DEF TypeInv, BufTypes
<1>1. CASE UNCHANGED <<remaddr, main, sent, rx>>
  BY <1>1
<1>2. CASE SetRemaddr
  BY <1>2 DEF SetRemaddr, bufVars
<1>3. ASSUME NEW a \in Apps, SendMessage(a) PROVE SendInv'
  <2>1. remaddr \in {"in", "out"}
    BY <1>3, Types DEF SendMessage, TypeInv, SendTypes
  <2> QED  BY <1>0, <1>3, <2>1 DEF SendMessage, bufVars
<1>4. ASSUME NEW r \in Receivers, NEW a \in Apps, RecvFrom(r, a) PROVE SendInv'
  <2>1. rx' # << >>
    BY <1>0, <1>4 DEF RecvFrom
  <2> QED  BY <1>4, <2>1 DEF RecvFrom, sendVars
<1>5. ASSUME NEW r \in Receivers, NewMessage(r) PROVE SendInv'
  <2>1. rx # << >>
    BY <1>0, <1>5 DEF NewMessage, TypeInv, HandInv, Busy
  <2> QED  BY <1>5, <2>1 DEF NewMessage, sendVars, bufVars
<1>6. ASSUME NEW a \in Apps, SendFails(a) \/ LoadSent(a) \/ StoreSent(a) PROVE UNCHANGED <<remaddr, main, sent, rx>>
  BY <1>6 DEF SendFails, LoadSent, StoreSent, bufVars
<1>7. ASSUME NEW r \in Receivers, NEW f \in Fields, CopyField(r, f) PROVE UNCHANGED <<remaddr, main, sent, rx>>
  BY <1>7 DEF CopyField, sendVars
<1>8. ASSUME UNCHANGED <<remaddr, sendVars, bufVars>> PROVE UNCHANGED <<remaddr, main, sent, rx>>
  BY <1>8 DEF sendVars, bufVars
<1>9. ASSUME NEW d \in Datagrams,
             deliver_IP(d) \/ DeliverTransport(d, "tcp") \/ DeliverTransport(d, "udp")
             \/ LoadCounter(d) \/ StoreCounter(d) \/ FreeSlot(d)
      PROVE  UNCHANGED <<remaddr, main, sent, rx>>
  BY <1>9 DEF deliver_IP, DeliverTransport, LoadCounter, StoreCounter, FreeSlot, sendVars, bufVars
<1>10. CASE UNCHANGED vars
  BY <1>1, <1>10 DEF vars, sendVars, bufVars
<1> QED  BY <1>1, <1>2, <1>3, <1>4, <1>5, <1>6, <1>7, <1>8, <1>9, <1>10, StepCases, NextCases

\* A message is sent to the peer's IN port, or to its OUT port once a datagram
\* has arrived, and to no other address, although remaddr is set while receivers
\* run and overwritten by each of them.
THEOREM SentToPeerCorrect == Spec => []SentToPeer
<1>1. Spec => [](TypeInv /\ SendInv)
  BY InitTypeInv, NextTypeInv, InitSendInv, NextSendInv, PTL DEF Spec
<1> QED  BY <1>1, PTL DEF SendInv

-----------------------------------------------------------------------------
(* The slots of the pool.                                                  *)
LEMMA InitSlotInv == Init => SlotInv
  BY Constants DEF Init, SlotInv, Busy

\* A step that only moves one thread on.
LEMMA MovesOn ==
  ASSUME TypeInv, SlotInv, UNCHANGED <<flags, slot, joined, doubtful>>,
         NEW q \in Receivers, NEW at \in Stages \ {"create", "none"}, stage' = [stage EXCEPT ![q] = at],
         stage[q] \notin {"none", "ended"},
         \A p \in Receivers \ {q} : hand'[p] = hand[p] /\ i'[p] = i[p],
         Busy(q)' => slot[hand'[q]] = NoSlot
  PROVE  SlotInv'
<1>1. stage \in [Receivers -> Stages] /\ Datagrams \subseteq Receivers
  BY Types, Constants DEF TypeInv, PoolTypes
<1>2. /\ \A p \in Receivers \ {q} : stage'[p] = stage[p] /\ (Busy(p)' <=> Busy(p))
      /\ stage'[q] = at
  BY <1>1 DEF Busy
<1>3. \A r \in Receivers : /\ Busy(r)' /\ stage'[r] # "create" => slot'[hand'[r]] = NoSlot
                           /\ stage'[r] = "create" => slot'[hand'[r]] = i'[r]
  BY <1>2 DEF SlotInv
<1>4. \A d \in joined' : slot'[d] # NoSlot /\ stage'[d] # "none" /\ (slot'[d] \in doubtful' \/ stage'[d] = "ended")
  <2>1. joined \subseteq Receivers
    BY <1>1, Types DEF TypeInv, PoolTypes
  <2> QED  BY <1>2, <2>1 DEF SlotInv
<1> QED  BY <1>3, <1>4 DEF SlotInv

LEMMA ClaimSlotInv ==
  ASSUME TypeInv, SlotInv, NEW r \in Receivers, Claim(r)
  PROVE  SlotInv'
<1> DEFINE d == hand[r]
           s == i[r]
<1>1. /\ PoolTypes /\ Datagrams \subseteq Receivers /\ NoSlot \notin Slots
      /\ stage[r] = "claim" /\ Busy(r) /\ s \in Slots
  BY Types, Constants DEF TypeInv, Claim, Busy, HandInv
<1>2. d \in Datagrams /\ stage[d] = "none" /\ slot[d] = NoSlot
  BY <1>1, Types, Constants DEF TypeInv, HandInv, BufTypes, SlotInv
<1>3. /\ slot' = [slot EXCEPT ![d] = s] /\ flags' = [flags EXCEPT ![s] = FALSE]
      /\ doubtful' = IF flags[s] THEN doubtful ELSE doubtful \cup {s}
      /\ stage' = [stage EXCEPT ![r] = "create"] /\ UNCHANGED <<i, joined, hand>>
  BY DEF Claim, Goto
<1>4. d \notin joined /\ d # r
  BY <1>1, <1>2 DEF SlotInv
<1>5. \A q \in Receivers \ {r} : stage'[q] = stage[q] /\ (Busy(q)' <=> Busy(q)) /\ (Busy(q) => hand[q] # d)
  BY <1>1, <1>3 DEF PoolTypes, Busy, TypeInv, HandInv
<1> HIDE DEF d, s
<1>6. \A q \in Receivers : /\ Busy(q)' /\ stage'[q] # "create" => slot'[hand'[q]] = NoSlot
                           /\ stage'[q] = "create" => slot'[hand'[q]] = i'[q]
  <2>1. stage'[r] = "create" /\ slot'[d] = s /\ hand'[r] = d /\ i'[r] = s
    BY <1>1, <1>2, <1>3 DEF PoolTypes, d, s
  <2>2. ASSUME NEW q \in Receivers \ {r}, Busy(q) PROVE slot'[hand[q]] = slot[hand[q]]
    <3>1. hand[q] \in Datagrams
      BY <2>2, Types, Constants DEF TypeInv, HandInv, BufTypes
    <3> QED  BY <1>1, <1>3, <1>5, <2>2, <3>1 DEF PoolTypes
  <2>3. \A q \in Receivers : stage[q] = "create" => Busy(q)
    BY DEF Busy
  <2> QED  BY <1>3, <1>5, <2>1, <2>2, <2>3 DEF SlotInv
<1>7. \A e \in joined' : slot'[e] # NoSlot /\ stage'[e] # "none" /\ (slot'[e] \in doubtful' \/ stage'[e] = "ended")
  <2>1. ASSUME NEW e \in joined PROVE e \in Datagrams /\ e # d /\ slot'[e] = slot[e]
    BY <1>1, <1>3, <1>4 DEF PoolTypes
  <2>2. ASSUME NEW e \in joined PROVE stage'[e] # "none" /\ (stage[e] = "ended" => stage'[e] = "ended")
    <3>1. e \in Receivers /\ (e = r => stage[e] = "claim")
      BY <1>1, <2>1
    <3> QED  BY <1>1, <1>3, <3>1 DEF SlotInv, PoolTypes
  <2> QED  BY <1>3, <2>1, <2>2 DEF SlotInv
<1>8. ASSUME NEW t \in Slots \ doubtful'
      PROVE  /\ \A e, f \in Datagrams \ joined' : slot'[e] = t /\ slot'[f] = t => e = f
             /\ flags'[t] => \A e \in Datagrams \ joined' : slot'[e] # t
  <2>1. t \notin doubtful /\ (t = s => flags[s])
    BY <1>3
  <2>2. \A e \in Datagrams \ {d} : slot'[e] = slot[e]
    BY <1>1, <1>3 DEF PoolTypes
  <2>3. slot'[d] = s
    BY <1>1, <1>2, <1>3 DEF PoolTypes
  <2>4. CASE t = s
    <3>1. \A e \in Datagrams \ joined : slot[e] # s
      BY <2>1, <2>4 DEF SlotInv
    <3>2. ~ flags'[s]
      BY <1>1, <1>3 DEF PoolTypes, s
    <3> QED  BY <1>3, <2>2, <2>4, <3>1, <3>2
  <2>5. CASE t # s
    <3>1. flags'[t] = flags[t]
      BY <1>1, <1>3, <2>5 DEF PoolTypes
    <3> QED  BY <1>3, <2>1, <2>2, <2>3, <2>5, <3>1 DEF SlotInv
  <2> QED  BY <2>4, <2>5
<1> QED  BY <1>6, <1>7, <1>8 DEF SlotInv

LEMMA CreateSlotInv ==
  ASSUME TypeInv, SlotInv, NEW r \in Receivers, Create(r)
  PROVE  SlotInv'
<1> DEFINE d == hand[r]
<1>1. /\ PoolTypes /\ Datagrams \subseteq Receivers
      /\ stage[r] = "create" /\ Busy(r)
  BY Types, Constants DEF TypeInv, Create, Busy
<1>2. d \in Datagrams /\ stage[d] = "none" /\ d # r
  BY <1>1, Types, Constants DEF TypeInv, HandInv, BufTypes
<1>3. UNCHANGED <<flags, slot, joined, doubtful, hand>> /\ stage' = [stage EXCEPT ![r] = "recv", ![d] = "ip"]
      /\ \A q \in Receivers \ {r} : i'[q] = i[q]
  BY <1>1 DEF Create, PoolTypes
<1>4. stage'[r] = "recv" /\ stage'[d] = "ip" /\ \A q \in Receivers \ {r, d} : stage'[q] = stage[q]
  BY <1>1, <1>2, <1>3 DEF PoolTypes
<1> HIDE DEF d
<1>5. \A q \in Receivers : /\ Busy(q)' /\ stage'[q] # "create" => slot'[hand'[q]] = NoSlot
                           /\ stage'[q] = "create" => slot'[hand'[q]] = i'[q]
  <2>1. \A q \in Receivers : Busy(q)' => q \notin {r, d} /\ Busy(q)
    BY <1>1, <1>2, <1>4 DEF Busy
  <2>2. \A q \in Receivers : stage'[q] = "create" => q \notin {r, d} /\ stage[q] = "create"
    BY <1>1, <1>2, <1>4
  <2>3. ASSUME NEW q \in Receivers, Busy(q)', stage'[q] # "create" PROVE slot'[hand'[q]] = NoSlot
    BY <1>3, <1>4, <2>1, <2>3 DEF SlotInv
  <2>4. ASSUME NEW q \in Receivers, stage'[q] = "create" PROVE slot'[hand'[q]] = i'[q]
    BY <1>3, <2>2, <2>4 DEF SlotInv
  <2> QED  BY <2>3, <2>4
<1>6. \A e \in joined' : slot'[e] # NoSlot /\ stage'[e] # "none" /\ (slot'[e] \in doubtful' \/ stage'[e] = "ended")
  <2>1. joined \subseteq Receivers /\ d \notin joined
    BY <1>1, <1>2 DEF PoolTypes, SlotInv
  <2>2. r \in joined => slot[r] \in doubtful
    BY <1>1 DEF SlotInv
  <2> QED  BY <1>3, <1>4, <2>1, <2>2 DEF SlotInv
<1>7. ASSUME NEW t \in Slots \ doubtful'
      PROVE  /\ \A e, f \in Datagrams \ joined' : slot'[e] = t /\ slot'[f] = t => e = f
             /\ flags'[t] => \A e \in Datagrams \ joined' : slot'[e] # t
  BY <1>3 DEF SlotInv
<1> QED  BY <1>5, <1>6, <1>7 DEF SlotInv

LEMMA FreeSlotInv ==
  ASSUME TypeInv, SlotInv, NEW d \in Datagrams, FreeSlot(d)
  PROVE  SlotInv'
<1> DEFINE s == slot[d]
<1>1. /\ PoolTypes /\ NoSlot \notin Slots /\ s # NoSlot /\ d \notin joined /\ stage[d] # "none"
      /\ stage[d] = "ended" \/ s \in doubtful
      /\ flags' = [flags EXCEPT ![s] = TRUE] /\ joined' = joined \cup {d}
      /\ UNCHANGED <<stage, hand, i, slot, doubtful>>
  BY Types, Constants DEF TypeInv, FreeSlot
<1> HIDE DEF s
<1>2. \A t \in Slots \ {s} : flags'[t] = flags[t]
  BY <1>1 DEF PoolTypes
<1>3. ASSUME NEW t \in Slots \ doubtful'
      PROVE  /\ \A e, f \in Datagrams \ joined' : slot'[e] = t /\ slot'[f] = t => e = f
             /\ flags'[t] => \A e \in Datagrams \ joined' : slot'[e] # t
  BY <1>1, <1>2 DEF SlotInv, s
<1>4. \A e \in joined' : slot'[e] # NoSlot /\ stage'[e] # "none" /\ (slot'[e] \in doubtful' \/ stage'[e] = "ended")
  BY <1>1 DEF SlotInv, s
<1>5. \A q \in Receivers : /\ Busy(q)' /\ stage'[q] # "create" => slot'[hand'[q]] = NoSlot
                           /\ stage'[q] = "create" => slot'[hand'[q]] = i'[q]
  BY <1>1 DEF SlotInv, Busy
<1> QED  BY <1>3, <1>4, <1>5 DEF SlotInv

LEMMA NextSlotInv == TypeInv /\ SlotInv /\ [Next]_vars => SlotInv'
<1> SUFFICES ASSUME TypeInv, SlotInv, [Next]_vars PROVE SlotInv'
  OBVIOUS
<1>0. PoolTypes /\ Datagrams \subseteq Receivers
  BY Types, Constants DEF TypeInv
<1>1. CASE UNCHANGED <<stage, hand, i, flags, slot, joined, doubtful>>
  BY <1>1 DEF SlotInv, Busy
<1>2. CASE SetRemaddr \/ \E a \in Apps : SendMessage(a) \/ SendFails(a) \/ LoadSent(a) \/ StoreSent(a)
  <2>1. UNCHANGED <<stage, hand, poolVars>>
    BY <1>2 DEF SetRemaddr, SendMessage, SendFails, LoadSent, StoreSent
  <2> QED  BY <1>1, <2>1 DEF poolVars
<1>3. ASSUME NEW r \in Receivers, NEW a \in Apps, RecvFrom(r, a) PROVE SlotInv'
  <2>1. slot[Len(rx) + 1] = NoSlot
    <3>1. Len(rx) + 1 \in Datagrams /\ Len(rx) + 1 \notin 1..Len(rx)
      BY <1>3, Types DEF RecvFrom, TypeInv, BufTypes
    <3> QED  BY <3>1 DEF TypeInv, DeliveryInv
  <2>2. /\ stage' = [stage EXCEPT ![r] = "copy"] /\ stage[r] = "recv" /\ "copy" \in Stages \ {"create", "none"}
        /\ hand' = [hand EXCEPT ![r] = Len(rx) + 1] /\ UNCHANGED <<flags, slot, joined, doubtful, i>>
    BY <1>3 DEF RecvFrom, Goto, Stages, poolVars
  <2>3. hand'[r] = Len(rx) + 1 /\ \A p \in Receivers \ {r} : hand'[p] = hand[p] /\ i'[p] = i[p]
    BY <1>0, <2>2 DEF PoolTypes
  <2> QED  BY <2>1, <2>2, <2>3, MovesOn
<1>4. ASSUME NEW r \in Receivers, NEW f \in Fields, CopyField(r, f) PROVE SlotInv'
  BY <1>1, <1>4 DEF CopyField, poolVars
<1>5. ASSUME NEW r \in Receivers, NEW at \in Stages \ {"create", "none"}, Busy(r), stage[r] # "create",
             stage' = [stage EXCEPT ![r] = at], \A p \in Receivers \ {r} : i'[p] = i[p],
             UNCHANGED <<flags, slot, joined, doubtful, hand>>
      PROVE  SlotInv'
  <2>1. slot[hand[r]] = NoSlot
    BY <1>5 DEF SlotInv
  <2> QED  BY <1>5, <2>1, MovesOn DEF Busy
<1>6. ASSUME NEW r \in Receivers, NewMessage(r) PROVE SlotInv'
  <2>1. /\ stage' = [stage EXCEPT ![r] = "avail"] /\ Busy(r) /\ stage[r] # "create"
        /\ "avail" \in Stages \ {"create", "none"} /\ UNCHANGED <<flags, slot, joined, doubtful, hand>>
    BY <1>6 DEF NewMessage, Goto, Busy, Stages
  <2>2. \A p \in Receivers \ {r} : i'[p] = i[p]
    BY <1>0, <1>6 DEF NewMessage, PoolTypes
  <2> QED  BY <1>5, <2>1, <2>2
<1>7. ASSUME NEW r \in Receivers, NEW to \in {"look", "claim"}, NEW n, stage[r] \in {"avail", "look"},
             LookAt(r, to, n) \/ Drop(r)
      PROVE  SlotInv'
  <2>1. PICK at \in Stages \ {"create", "none"} : stage' = [stage EXCEPT ![r] = at]
    BY <1>0, <1>7 DEF LookAt, Drop, Goto, Stages, PoolTypes
  <2>2. UNCHANGED <<flags, slot, joined, doubtful, hand>> /\ Busy(r) /\ stage[r] # "create"
    BY <1>7 DEF LookAt, Drop, Busy
  <2>3. \A p \in Receivers \ {r} : i'[p] = i[p]
    BY <1>0, <1>7 DEF LookAt, Drop, PoolTypes
  <2> QED  BY <1>5, <2>1, <2>2, <2>3
<1>8. ASSUME NEW d \in Datagrams,
             deliver_IP(d) \/ DeliverTransport(d, "tcp") \/ DeliverTransport(d, "udp")
             \/ LoadCounter(d) \/ StoreCounter(d)
      PROVE  SlotInv'
  <2>1. PICK at \in Stages \ {"create", "none"} : stage' = [stage EXCEPT ![d] = at] /\ at \notin {"copy", "avail", "look", "claim"}
    BY <1>8 DEF deliver_IP, DeliverTransport, LoadCounter, StoreCounter, Goto, Stages
  <2>2. UNCHANGED <<flags, slot, joined, doubtful, hand, i>> /\ stage[d] \notin {"none", "ended"}
    BY <1>8 DEF deliver_IP, DeliverTransport, LoadCounter, StoreCounter, poolVars
  <2>3. d \in Receivers /\ ~ Busy(d)'
    BY <1>0, <2>1 DEF Busy, PoolTypes
  <2> QED  BY <2>1, <2>2, <2>3, MovesOn
<1>9. CASE UNCHANGED vars
  BY <1>1, <1>9 DEF vars, poolVars
<1>10. ASSUME NEW r \in Receivers, \/ stage[r] = "avail" /\ LookAt(r, "look", 0)
                                   \/ stage[r] = "look" /\ LookAt(r, "claim", i[r])
                                   \/ stage[r] \in {"avail", "look"} /\ Drop(r)
       PROVE  SlotInv'
  BY <1>7, <1>10
<1> QED  BY <1>2, <1>3, <1>4, <1>6, <1>8, <1>9, <1>10, ClaimSlotInv, CreateSlotInv, FreeSlotInv, StepCases, NextCases

\* A message delivered in a slot nobody claimed twice keeps the slot for good,
\* since its thread becomes a receiver: the pool delivers at most threadCount
\* messages, for any number of slots, receivers and datagrams.
THEOREM SlotsUsedUpCorrect == Spec => []SlotsUsedUp
<1>1. Spec => [](TypeInv /\ SlotInv)
  BY InitTypeInv, NextTypeInv, InitSlotInv, NextSlotInv, PTL DEF Spec
<1>2. TypeInv /\ SlotInv => SlotsUsedUp
  <2> SUFFICES ASSUME TypeInv, SlotInv PROVE SlotsUsedUp
    OBVIOUS
  <2>1. ASSUME NEW d \in Datagrams, slot[d] \in Slots \ doubtful, dest[d] # 0 PROVE d \notin joined
    BY <2>1 DEF TypeInv, DeliveryInv, SlotInv
  <2> QED  BY <2>1 DEF SlotsUsedUp, SlotInv
<1> QED  BY <1>1, <1>2, PTL

-----------------------------------------------------------------------------
(* Which header routes a message.                                          *)
RouteAt(d) ==
  /\ dest[d] # 0 => \E e \in mixed[d] : rx[e] = dest[d]
  /\ stage[d] = "ended" => \E e, f \in mixed[d] : Transport(rx[e]) # Transport(rx[f])

LEMMA MixInvAt == MixInv <=> \A d \in 1..Len(rx) : MixAt(d) /\ RouteAt(d)
  BY DEF MixInv, RoutedByOverlapping, RouteAt

LEMMA MixInvNext == MixInv' <=> \A d \in 1..Len(rx') : MixAt(d)' /\ RouteAt(d)'
  BY DEF MixInv, RoutedByOverlapping, RouteAt

LEMMA InitMixInv == Init => MixInv
  BY DEF Init, MixInv, RoutedByOverlapping

\* The datagrams received are among all.
LEMMA Received ==
  ASSUME TypeInv
  PROVE  /\ Len(rx) \in 0..MaxRecv /\ 1..Len(rx) \subseteq Datagrams /\ Datagrams \subseteq Receivers
         /\ rx \in Seq(Apps) /\ \A e \in 1..Len(rx) : rx[e] \in AppProtos
<1>1. rx \in Seq(Apps) /\ Len(rx) \in 0..MaxRecv
  BY Types, Constants DEF TypeInv, BufTypes
<1>2. \A e \in 1..Len(rx) : rx[e] \in Apps
  BY <1>1
<1>3. 1..Len(rx) \subseteq Datagrams /\ Datagrams \subseteq Receivers
  BY <1>1, Constants
<1>4. Apps \subseteq AppProtos
  BY Constants
<1> QED  BY <1>1, <1>2, <1>3, <1>4

\* A new datagram d can meet all that are being stored, and all that are not
\* routed can meet it.
LEMMA RecvFromMixInv ==
  ASSUME TypeInv, MixInv, NEW r \in Receivers, NEW a \in Apps, RecvFrom(r, a)
  PROVE  MixInv'
<1>0. PICK d, storing : d = Len(rx) + 1 /\ storing = {hand[q] : q \in {q \in Receivers : copying[q] # {}}}
  OBVIOUS
<1>1. /\ BufTypes /\ PoolTypes /\ Len(rx) \in Nat /\ d \in Datagrams /\ d \in Receivers /\ d \notin 1..Len(rx)
      /\ rx \in Seq(Apps) /\ 1..Len(rx) \subseteq Datagrams /\ Datagrams \subseteq Receivers
  BY <1>0, Types, Received, Constants DEF TypeInv, RecvFrom
<1>2. rx' \in Seq(Apps) /\ Len(rx') = d /\ 1..Len(rx') = 1..Len(rx) \cup {d}
      /\ \A e \in 1..Len(rx) : rx'[e] = rx[e]
  BY <1>0, <1>1 DEF RecvFrom
<1>3. /\ stage' = [stage EXCEPT ![r] = "copy"] /\ stage[r] = "recv"
      /\ hand' = [hand EXCEPT ![r] = d] /\ copying' = [copying EXCEPT ![r] = Fields]
      /\ UNCHANGED <<buf, lost, dest>>
      /\ mixed' = [e \in Datagrams |-> IF e = d THEN {d} \cup storing
                                       ELSE IF e \in Unrouted THEN mixed[e] \cup {d} ELSE mixed[e]]
  BY <1>0 DEF RecvFrom, Goto, poolVars
<1>4. /\ stage[d] = "none" /\ d \notin lost /\ dest[d] = 0 /\ r # d
  BY <1>1, <1>3 DEF TypeInv, DeliveryInv
<1>5. \A q \in Receivers : copying[q] # {} => hand[q] \in 1..Len(rx) /\ q # r
  BY <1>3 DEF TypeInv, HandInv, Busy
<1>6. /\ hand'[r] = d /\ copying'[r] = Fields /\ stage'[r] = "copy"
      /\ \A q \in Receivers \ {r} : hand'[q] = hand[q] /\ copying'[q] = copying[q] /\ stage'[q] = stage[q]
  BY <1>1, <1>3 DEF BufTypes, PoolTypes
<1>7. storing \subseteq 1..Len(rx) /\ \A q \in Receivers : copying[q] # {} => hand[q] \in storing
  BY <1>0, <1>5
<1>8. Fields = {2, 3}
  BY DEF Fields
<1>9. MixAt(d)' /\ RouteAt(d)'
  <2>1. mixed'[d] = {d} \cup storing
    BY <1>1, <1>3
  <2>2. \A q \in Receivers : copying'[q] # {} => hand'[q] \in mixed'[d]
    BY <1>6, <1>7, <2>1
  <2>3. ASSUME NEW f \in Fields PROVE \E q \in Receivers : hand'[q] = d /\ f \in copying'[q]
    BY <1>6
  <2>4. mixed'[d] \subseteq 1..Len(rx')
    BY <1>2, <1>7, <2>1
  <2>5. stage'[d] = "none" /\ dest'[d] = 0
    BY <1>1, <1>3, <1>4, <1>6
  <2> QED  BY <1>1, <2>1, <2>2, <2>3, <2>4, <2>5 DEF MixAt, RouteAt
<1>10. ASSUME NEW e \in 1..Len(rx) PROVE MixAt(e)' /\ RouteAt(e)'
  <2>1. MixAt(e) /\ RouteAt(e) /\ e # d /\ e \in Datagrams
    BY <1>1, MixInvAt
  <2>2. mixed'[e] = IF e \in Unrouted THEN mixed[e] \cup {d} ELSE mixed[e]
    BY <1>3, <2>1
  <2>3. mixed[e] \subseteq 1..Len(rx) /\ mixed[e] \subseteq mixed'[e] /\ mixed'[e] \subseteq 1..Len(rx')
    BY <1>2, <2>1, <2>2 DEF MixAt
  <2>4. \A f, v : Seen(e, f, v) => Seen(e, f, v)'
    BY <1>2, <2>3 DEF Seen
  <2>5. stage'[e] = stage[e] \/ (stage[e] = "recv" /\ stage'[e] = "copy")
    BY <1>1, <1>3, <1>6, <2>1
  <2>6. e \in Unrouted' => e \in Unrouted
    BY <1>3, <2>5 DEF Unrouted
  <2>7. ASSUME e \in Unrouted
        PROVE  /\ e \in mixed'[e]
               /\ \A q \in Receivers : copying'[q] # {} => hand'[q] \in mixed'[e]
               /\ \A f \in Fields : (\A q \in Receivers : hand'[q] = e => f \notin copying'[q]) => Seen(e, f, buf[f])'
    <3>1. mixed'[e] = mixed[e] \cup {d}
      BY <2>2, <2>7
    <3>2. \A q \in Receivers : copying'[q] # {} => hand'[q] \in mixed'[e]
      BY <1>6, <2>1, <2>7, <3>1 DEF MixAt
    <3>3. ASSUME NEW f \in Fields, \A q \in Receivers : hand'[q] = e => f \notin copying'[q]
          PROVE  Seen(e, f, buf[f])'
      <4>1. \A q \in Receivers : hand[q] = e => f \notin copying[q]
        BY <1>5, <1>6, <3>3
      <4>2. Seen(e, f, buf[f])
        BY <2>1, <2>7, <4>1 DEF MixAt
      <4> QED  BY <1>3, <2>4, <4>2
    <3> QED  BY <2>1, <2>7, <3>1, <3>2, <3>3 DEF MixAt
  <2>8. MixAt(e)'
    BY <2>1, <2>3, <2>4, <2>5, <2>6, <2>7 DEF MixAt
  <2>9. RouteAt(e)'
    BY <1>2, <1>3, <2>1, <2>3, <2>5 DEF RouteAt
  <2> QED  BY <2>8, <2>9
<1> QED  BY <1>2, <1>9, <1>10, MixInvNext

\* The bytes of a datagram that the messages being routed can meet.
LEMMA CopyFieldMixInv ==
  ASSUME TypeInv, MixInv, NEW r \in Receivers, NEW f \in Fields, CopyField(r, f)
  PROVE  MixInv'
<1>1. /\ BufTypes /\ f \in copying[r] /\ hand[r] \in 1..Len(rx)
      /\ buf' = [buf EXCEPT ![f] = Frame(rx[hand[r]])[f]]
      /\ copying' = [copying EXCEPT ![r] = copying[r] \ {f}]
      /\ UNCHANGED <<rx, mixed, stage, hand, lost, dest>>
  BY Types DEF TypeInv, CopyField, HandInv, Busy, poolVars
<1>2. /\ buf'[f] = Frame(rx[hand[r]])[f] /\ copying'[r] = copying[r] \ {f}
      /\ \A g \in Fields \ {f} : buf'[g] = buf[g]
      /\ \A q \in Receivers \ {r} : copying'[q] = copying[q]
  BY <1>1 DEF BufTypes
<1>3. ASSUME NEW e \in 1..Len(rx) PROVE MixAt(e)' /\ RouteAt(e)'
  <2>1. MixAt(e) /\ RouteAt(e)
    BY MixInvAt
  <2>2. (e \in Unrouted)' <=> e \in Unrouted
    BY <1>1 DEF Unrouted
  <2>3. \A q \in Receivers : copying'[q] # {} => copying[q] # {}
    BY <1>1, <1>2
  <2>4. ASSUME e \in Unrouted, NEW g \in Fields, \A q \in Receivers : hand'[q] = e => g \notin copying'[q]
        PROVE  Seen(e, g, buf[g])'
    <3>1. CASE g = f
      <4>1. hand[r] \in mixed[e]
        BY <1>1, <2>1, <2>4 DEF MixAt
      <4> QED  BY <1>1, <1>2, <3>1, <4>1 DEF Seen
    <3>2. CASE g # f
      <4>1. \A q \in Receivers : hand[q] = e => g \notin copying[q]
        BY <1>1, <1>2, <2>4, <3>2
      <4>2. Seen(e, g, buf[g])
        BY <2>1, <2>4, <4>1 DEF MixAt
      <4> QED  BY <1>1, <1>2, <3>2, <4>2 DEF Seen
    <3> QED  BY <3>1, <3>2
  <2>5. \A v : Seen(e, 2, v)' <=> Seen(e, 2, v)
    BY <1>1 DEF Seen
  <2>6. MixAt(e)'
    BY <1>1, <2>1, <2>2, <2>3, <2>4, <2>5 DEF MixAt
  <2>7. RouteAt(e)'
    BY <1>1, <2>1 DEF RouteAt
  <2> QED  BY <2>6, <2>7
<1> QED  BY <1>1, <1>3, MixInvNext

\* A step that routes nothing and stores nothing.
LEMMA StillMixed ==
  ASSUME TypeInv, MixInv, UNCHANGED <<rx, buf, copying, mixed, hand, dest>>, lost \subseteq lost',
         \A e \in 1..Len(rx) : \/ stage'[e] = stage[e]
                               \/ /\ stage'[e] \notin {"tcp", "udp", "ended"}
                                  /\ stage'[e] \in {"none", "ip"} => stage[e] = "none"
  PROVE  MixInv'
<1>1. ASSUME NEW e \in 1..Len(rx) PROVE MixAt(e)' /\ RouteAt(e)'
  <2>1. MixAt(e) /\ RouteAt(e)
    BY MixInvAt
  <2>2. (e \in Unrouted)' => e \in Unrouted
    BY DEF Unrouted
  <2>3. \A f, v : Seen(e, f, v)' <=> Seen(e, f, v)
    BY DEF Seen
  <2>4. \A f \in Fields : Seen(e, f, buf[f])' <=> Seen(e, f, buf[f])
    BY DEF Seen
  <2>5. MixAt(e)'
    BY <2>1, <2>2, <2>3, <2>4 DEF MixAt
  <2>6. RouteAt(e)'
    BY <2>1 DEF RouteAt
  <2> QED  BY <2>5, <2>6
<1> QED  BY <1>1, MixInvNext

\* A layer reads a field of buf that is from a datagram d can meet.
LEMMA ReadsMixed ==
  ASSUME TypeInv, MixInv, NEW d \in Datagrams, stage[d] \in {"ip", "tcp", "udp"}, NEW f \in Fields
  PROVE  /\ d \in 1..Len(rx) /\ MixAt(d) /\ RouteAt(d) /\ d \in Unrouted
         /\ mixed[d] \subseteq 1..Len(rx)
         /\ \E e \in mixed[d] : Frame(rx[e])[f] = buf[f]
<1>1. d \in 1..Len(rx) /\ d \in Unrouted
  BY DEF TypeInv, DeliveryInv, Unrouted
<1>2. MixAt(d) /\ RouteAt(d)
  BY <1>1, MixInvAt
<1>3. \A q \in Receivers : hand[q] = d => copying[q] = {}
  BY DEF TypeInv, HandInv, Busy
<1>4. Seen(d, f, buf[f])
  BY <1>1, <1>2, <1>3 DEF MixAt
<1> QED  BY <1>1, <1>2, <1>4 DEF MixAt, Seen

\* A delivery that is routed on: the others are where they were.
LEMMA RoutedOn ==
  ASSUME TypeInv, MixInv, NEW d \in 1..Len(rx), NEW at, stage' = [stage EXCEPT ![d] = at],
         d \in Unrouted, at \notin {"none", "ip"},
         \A e \in Datagrams \ {d} : dest'[e] = dest[e],
         at = "tcp" => Seen(d, 2, TCP), at = "udp" => Seen(d, 2, UDP), RouteAt(d)',
         UNCHANGED <<rx, buf, copying, mixed, hand, lost>>
  PROVE  MixInv'
<1>1. PoolTypes /\ d \in Receivers /\ 1..Len(rx) \subseteq Datagrams /\ Datagrams \subseteq Receivers
  BY Types, Received DEF TypeInv
<1>2. stage'[d] = at /\ \A e \in Receivers \ {d} : stage'[e] = stage[e]
  BY <1>1 DEF PoolTypes
<1>3. \A e, f, v : Seen(e, f, v)' <=> Seen(e, f, v)
  BY DEF Seen
<1>4. \A e : \A f \in Fields : Seen(e, f, buf[f])' <=> Seen(e, f, buf[f])
  BY DEF Seen
<1>5. MixAt(d)'
  <2>1. MixAt(d)
    BY MixInvAt
  <2>2. (d \in Unrouted)' => d \in Unrouted
    OBVIOUS
  <2> QED  BY <1>2, <1>3, <1>4, <2>1, <2>2 DEF MixAt
<1>6. ASSUME NEW e \in 1..Len(rx), e # d PROVE MixAt(e)' /\ RouteAt(e)'
  <2>1. MixAt(e) /\ RouteAt(e)
    BY MixInvAt
  <2>2. stage'[e] = stage[e] /\ dest'[e] = dest[e]
    BY <1>1, <1>2, <1>6
  <2>3. (e \in Unrouted)' <=> e \in Unrouted
    BY <2>2 DEF Unrouted
  <2>4. MixAt(e)'
    BY <1>3, <1>4, <2>1, <2>2, <2>3 DEF MixAt
  <2>5. RouteAt(e)'
    BY <2>1, <2>2 DEF RouteAt
  <2> QED  BY <2>4, <2>5
<1> QED  BY <1>5, <1>6, MixInvNext

LEMMA IPMixInv ==
  ASSUME TypeInv, MixInv, NEW d \in Datagrams, deliver_IP(d)
  PROVE  MixInv'
<1>1. /\ stage[d] = "ip" /\ 2 \in Fields /\ UNCHANGED <<rx, buf, copying, mixed, hand, lost, dest>>
      /\ stage' = [stage EXCEPT ![d] = IF buf[2] = 3 THEN "tcp" ELSE IF buf[2] = 4 THEN "udp" ELSE "ended"]
  BY DEF deliver_IP, Goto, Fields, bufVars, poolVars
<1>2. /\ d \in 1..Len(rx) /\ MixAt(d) /\ RouteAt(d) /\ d \in Unrouted /\ mixed[d] \subseteq 1..Len(rx)
      /\ \E e \in mixed[d] : Frame(rx[e])[2] = buf[2]
  BY <1>1, ReadsMixed
<1>3. PICK e \in mixed[d] : Frame(rx[e])[2] = buf[2]
  BY <1>2
<1>4. buf[2] \in {3, 4}
  <2>1. rx[e] \in AppProtos
    BY <1>2, Received
  <2> QED  BY <1>3, <2>1, FrameFacts DEF Transport, TCP, UDP
<1>5. PICK at \in {"tcp", "udp"} : at = (IF buf[2] = 3 THEN "tcp" ELSE "udp")
  OBVIOUS
<1>6. stage' = [stage EXCEPT ![d] = at]
  BY <1>1, <1>4, <1>5
<1>7. (at = "tcp" => Seen(d, 2, TCP)) /\ (at = "udp" => Seen(d, 2, UDP))
  BY <1>3, <1>4, <1>5 DEF Seen, TCP, UDP
<1>8. RouteAt(d)'
  <2>1. stage'[d] = at
    BY <1>6, Types, Constants DEF TypeInv, PoolTypes
  <2> QED  BY <1>1, <1>2, <2>1 DEF RouteAt
<1> QED  BY <1>1, <1>2, <1>6, <1>7, <1>8, RoutedOn

LEMMA TransportMixInv ==
  ASSUME TypeInv, MixInv, NEW d \in Datagrams, NEW at \in {"tcp", "udp"}, DeliverTransport(d, at)
  PROVE  MixInv'
<1>0. PoolTypes /\ d \in Receivers
  BY Types, Constants DEF TypeInv
<1>1. /\ stage[d] = at /\ 3 \in Fields /\ UNCHANGED <<rx, buf, copying, mixed, hand, lost>>
      /\ dest' = [dest EXCEPT ![d] = Upper(at, buf[3])]
      /\ stage' = [stage EXCEPT ![d] = IF Upper(at, buf[3]) = 0 THEN "ended" ELSE "load"]
  BY DEF DeliverTransport, Goto, Fields, bufVars, poolVars
<1>2. /\ d \in 1..Len(rx) /\ MixAt(d) /\ RouteAt(d) /\ d \in Unrouted /\ mixed[d] \subseteq 1..Len(rx)
      /\ \E e \in mixed[d] : Frame(rx[e])[3] = buf[3]
  BY <1>1, ReadsMixed
<1>3. PICK e \in mixed[d] : Frame(rx[e])[3] = buf[3]
  BY <1>2
<1>4. rx[e] = buf[3] /\ rx[e] \in {5, 6, 7, 8}
  BY <1>2, <1>3, Received, FrameFacts, Constants
<1>5. PICK f \in mixed[d] : Frame(rx[f])[2] = IF at = "tcp" THEN TCP ELSE UDP
  BY <1>1, <1>2 DEF MixAt, Seen
<1>6. Transport(rx[f]) = IF at = "tcp" THEN TCP ELSE UDP
  <2>1. rx[f] \in AppProtos
    BY <1>2, Received
  <2> QED  BY <1>5, <2>1, FrameFacts
<1>7. PICK to \in {"ended", "load"} : to = IF Upper(at, buf[3]) = 0 THEN "ended" ELSE "load"
  OBVIOUS
<1>8. stage' = [stage EXCEPT ![d] = to] /\ stage'[d] = to /\ dest'[d] = Upper(at, buf[3])
      /\ \A g \in Datagrams \ {d} : dest'[g] = dest[g]
  BY <1>0, <1>1, <1>7 DEF PoolTypes
<1>9. RouteAt(d)'
  <2>1. CASE Upper(at, buf[3]) = 0
    <3>1. Transport(rx[e]) = IF at = "tcp" THEN UDP ELSE TCP
      BY <1>4, <2>1 DEF Upper, Transport, FTP, Telnet
    <3>2. Transport(rx[e]) # Transport(rx[f])
      BY <1>6, <3>1 DEF TCP, UDP
    <3> QED  BY <1>1, <1>8, <2>1, <3>2 DEF RouteAt
  <2>2. CASE Upper(at, buf[3]) # 0
    <3>1. Upper(at, buf[3]) = buf[3]
      BY <2>2 DEF Upper
    <3> QED  BY <1>1, <1>4, <1>7, <1>8, <2>2, <3>1 DEF RouteAt
  <2> QED  BY <2>1, <2>2
<1> QED  BY <1>1, <1>2, <1>8, <1>9, RoutedOn

LEMMA NextMixInv == TypeInv /\ MixInv /\ [Next]_vars => MixInv'
<1> SUFFICES ASSUME TypeInv, MixInv, [Next]_vars PROVE MixInv'
  OBVIOUS
<1>0. PoolTypes /\ Datagrams \subseteq Receivers
  BY Types, Constants DEF TypeInv
<1>1. CASE UNCHANGED <<rx, buf, copying, mixed, stage, hand, lost, dest>>
  BY <1>1, StillMixed
<1>2. CASE SetRemaddr \/ \E a \in Apps : SendMessage(a) \/ SendFails(a) \/ LoadSent(a) \/ StoreSent(a)
  <2>1. UNCHANGED <<bufVars, stage, hand, poolVars, dest>>
    BY <1>2 DEF SetRemaddr, SendMessage, SendFails, LoadSent, StoreSent
  <2> QED  BY <1>1, <2>1 DEF bufVars, poolVars
<1>3. ASSUME NEW r \in Receivers, NewMessage(r) PROVE MixInv'
  <2>1. stage' = [stage EXCEPT ![r] = "avail"] /\ UNCHANGED <<rx, buf, copying, mixed, hand, lost, dest>>
    BY <1>3 DEF NewMessage, Goto, bufVars
  <2> QED  BY <1>0, <2>1, StillMixed DEF PoolTypes
<1>4. ASSUME NEW r \in Receivers, NEW to \in {"look", "claim"}, NEW n, LookAt(r, to, n),
             UNCHANGED <<remaddr, sendVars, bufVars, dest, countVars>>
      PROVE  MixInv'
  <2>1. UNCHANGED <<rx, buf, copying, mixed, hand, lost, dest>>
    BY <1>4 DEF LookAt, bufVars
  <2>2. stage' = stage \/ stage' = [stage EXCEPT ![r] = to]
    BY <1>4 DEF LookAt, Goto
  <2>3. ASSUME NEW e \in 1..Len(rx) PROVE stage'[e] = stage[e] \/ stage'[e] \in {"look", "claim"}
    <3>1. e \in Receivers
      BY Received
    <3> QED  BY <1>0, <2>2, <3>1 DEF PoolTypes
  <2> QED  BY <2>1, <2>3, StillMixed
<1>5. ASSUME NEW r \in Receivers, Drop(r) \/ Claim(r), UNCHANGED <<remaddr, sendVars, bufVars, dest, countVars>>
      PROVE  MixInv'
  <2>1. UNCHANGED <<rx, buf, copying, mixed, hand, dest>> /\ lost \subseteq lost'
    BY <1>5 DEF Drop, Claim, bufVars
  <2>2. stage' = [stage EXCEPT ![r] = "recv"] \/ stage' = [stage EXCEPT ![r] = "create"]
    BY <1>5 DEF Drop, Claim, Goto
  <2>3. ASSUME NEW e \in 1..Len(rx) PROVE stage'[e] = stage[e] \/ stage'[e] \in {"recv", "create"}
    <3>1. e \in Receivers
      BY Received
    <3> QED  BY <1>0, <2>2, <3>1 DEF PoolTypes
  <2> QED  BY <2>1, <2>3, StillMixed
<1>6. ASSUME NEW r \in Receivers, Create(r), UNCHANGED <<remaddr, sendVars, bufVars, dest, countVars>>
      PROVE  MixInv'
  <2>1. UNCHANGED <<rx, buf, copying, mixed, hand, lost, dest>>
    BY <1>6 DEF Create, bufVars
  <2>2. stage' = [stage EXCEPT ![r] = "recv", ![hand[r]] = "ip"] /\ stage[hand[r]] = "none"
    BY <1>6 DEF Create, TypeInv, HandInv, Busy
  <2>3. ASSUME NEW e \in 1..Len(rx)
        PROVE  stage'[e] = stage[e] \/ stage'[e] = "recv" \/ (stage'[e] = "ip" /\ stage[e] = "none")
    <3>1. e \in Receivers
      BY Received
    <3> QED  BY <1>0, <2>2, <3>1 DEF PoolTypes
  <2> QED  BY <2>1, <2>3, StillMixed
<1>7. ASSUME NEW d \in Datagrams, LoadCounter(d) \/ StoreCounter(d) PROVE MixInv'
  <2>1. UNCHANGED <<rx, buf, copying, mixed, hand, lost, dest>>
    BY <1>7 DEF LoadCounter, StoreCounter, bufVars, poolVars
  <2>2. stage' = [stage EXCEPT ![d] = "store"] \/ stage' = [stage EXCEPT ![d] = "recv"]
    BY <1>7 DEF LoadCounter, StoreCounter, Goto
  <2>3. ASSUME NEW e \in 1..Len(rx) PROVE stage'[e] = stage[e] \/ stage'[e] \in {"store", "recv"}
    <3>1. e \in Receivers
      BY Received
    <3> QED  BY <1>0, <2>2, <3>1 DEF PoolTypes
  <2> QED  BY <2>1, <2>3, StillMixed
<1>8. ASSUME NEW d \in Datagrams, FreeSlot(d) PROVE MixInv'
  BY <1>1, <1>8 DEF FreeSlot, bufVars
<1>9. CASE UNCHANGED vars
  BY <1>1, <1>9 DEF vars, bufVars, poolVars
<1> QED  BY <1>2, <1>3, <1>4, <1>5, <1>6, <1>7, <1>8, <1>9, RecvFromMixInv, CopyFieldMixInv,
            IPMixInv, TransportMixInv, StepCases, NextCases

\* However many receivers store into buf, a message is delivered to an
\* application only by the header of a datagram that was stored while it was
\* being routed, or was being stored when it began.
THEOREM RoutedByOverlappingCorrect == Spec => []RoutedByOverlapping
<1>1. Spec => [](TypeInv /\ MixInv)
  BY InitTypeInv, NextTypeInv, InitMixInv, NextMixInv, PTL DEF Spec
<1> QED  BY <1>1, PTL DEF MixInv

-----------------------------------------------------------------------------
(* The counters of what is delivered.                                      *)

\* Finite sets, to count in.
LEMMA PassedFacts ==
  ASSUME NEW a
  PROVE  IsFiniteSet(Passed(a)) /\ Cardinality(Passed(a)) \in Nat
<1>1. IsFiniteSet(Datagrams)
  BY FS_Interval, Constants
<1>2. Passed(a) \subseteq Datagrams
  BY DEF Passed
<1> QED  BY <1>1, <1>2, FS_Subset, FS_CardinalityType

LEMMA InitDeliverCountInv == Init => DeliverCountInv
<1> SUFFICES ASSUME Init, NEW a \in AppProtos PROVE CountedAt(a)
  BY DEF DeliverCountInv
<1>1. counter[a] = 0 /\ Cardinality(Passed(a)) = 0
  <2>1. Passed(a) = {}
    BY Constants DEF Init, Passed
  <2> QED  BY <2>1, Constants, FS_EmptySet DEF Init
<1>2. \A d \in Datagrams : ~ Counts(d, a)
  BY Constants DEF Init, Counts
<1> QED  BY <1>1, <1>2 DEF CountedAt

\* A step that loads and stores nothing of a's counter.
LEMMA StillCounted ==
  ASSUME NEW a, CountedAt(a), Passed(a)' = Passed(a), counter'[a] = counter[a],
         a \notin raced' => a \notin raced,
         \A d \in Datagrams : Counts(d, a)' => Counts(d, a) /\ reg'[d] = reg[d]
  PROVE  CountedAt(a)'
<1>1. \A d \in Datagrams : Counts(d, a)' => reg'[d] <= Cardinality(Passed(a))
  BY DEF CountedAt
<1>2. a \notin raced' => \A d, e \in Datagrams : Counts(d, a)' /\ Counts(e, a)' => reg'[d] = counter'[a] /\ d = e
  BY DEF CountedAt
<1>3. counter'[a] <= Cardinality(Passed(a)) /\ (a \notin raced' => counter'[a] = Cardinality(Passed(a)))
  BY DEF CountedAt
<1> QED  BY <1>1, <1>2, <1>3 DEF CountedAt

\* A delivery loads its application's counter.
LEMMA LoadsCounter ==
  ASSUME TypeInv, DeliverCountInv, NEW d \in Datagrams, LoadCounter(d), NEW a \in AppProtos
  PROVE  CountedAt(a)'
<1>1. PoolTypes /\ CountTypes /\ d \in Receivers /\ Datagrams \subseteq Receivers /\ CountedAt(a)
  BY Types, Constants DEF TypeInv, DeliverCountInv
<1>2. PICK c : c = dest[d]
  OBVIOUS
<1>3. /\ stage[d] = "load" /\ stage' = [stage EXCEPT ![d] = "store"]
      /\ reg' = [reg EXCEPT ![d] = counter[c]]
      /\ raced' = IF Storing(c) THEN raced \cup {c} ELSE raced
      /\ UNCHANGED <<dest, counter>>
  BY <1>2 DEF LoadCounter, CounterOf, Goto
<1>4. /\ stage'[d] = "store" /\ reg'[d] = counter[c]
      /\ \A e \in Datagrams \ {d} : stage'[e] = stage[e] /\ reg'[e] = reg[e]
  BY <1>1, <1>3 DEF PoolTypes, CountTypes
<1>5. Passed(a)' = Passed(a)
  BY <1>3, <1>4 DEF Passed
<1>6. CASE a # c
  <2>1. \A e \in Datagrams : Counts(e, a)' => Counts(e, a) /\ reg'[e] = reg[e]
    BY <1>2, <1>3, <1>4, <1>6 DEF Counts
  <2> QED  BY <1>1, <1>3, <1>5, <2>1, StillCounted
<1>7. CASE a = c
  <2>1. \A e \in Datagrams : Counts(e, a)' => e = d \/ (Counts(e, a) /\ reg'[e] = reg[e])
    BY <1>3, <1>4 DEF Counts
  <2>2. \A e \in Datagrams : Counts(e, a) => a \in raced'
    BY <1>3, <1>7 DEF Storing, Counts
  <2>3. counter[a] <= Cardinality(Passed(a)) /\ (a \notin raced' => counter[a] = Cardinality(Passed(a)))
    BY <1>1, <1>3 DEF CountedAt
  <2>4. \A e \in Datagrams : Counts(e, a)' => reg'[e] <= Cardinality(Passed(a))
    BY <1>1, <1>4, <1>7, <2>1, <2>3 DEF CountedAt
  <2>5. a \notin raced' => \A e, f \in Datagrams : Counts(e, a)' /\ Counts(f, a)' => reg'[e] = counter[a] /\ e = f
    BY <1>4, <1>7, <2>1, <2>2
  <2> QED  BY <1>3, <1>5, <2>3, <2>4, <2>5 DEF CountedAt
<1> QED  BY <1>6, <1>7

\* It stores it, one more, and has passed.
LEMMA StoresCounter ==
  ASSUME TypeInv, DeliverCountInv, NEW d \in Datagrams, StoreCounter(d), NEW a \in AppProtos
  PROVE  CountedAt(a)'
<1>1. PoolTypes /\ CountTypes /\ d \in Receivers /\ Datagrams \subseteq Receivers /\ CountedAt(a)
  BY Types, Constants DEF TypeInv, DeliverCountInv
<1>2. PICK c : c = dest[d]
  OBVIOUS
<1>3. /\ stage[d] = "store" /\ stage' = [stage EXCEPT ![d] = "recv"]
      /\ reg' = [reg EXCEPT ![d] = 0]
      /\ counter' = [counter EXCEPT ![c] = reg[d] + 1]
      /\ UNCHANGED <<dest, raced>>
  BY <1>2 DEF StoreCounter, CounterOf, Goto
<1>4. a \in Counters /\ reg[d] \in Nat
  BY <1>1, Constants DEF CountTypes
<1>5. /\ stage'[d] = "recv"
      /\ \A e \in Datagrams \ {d} : stage'[e] = stage[e] /\ reg'[e] = reg[e]
      /\ counter'[a] = IF a = c THEN reg[d] + 1 ELSE counter[a]
  BY <1>1, <1>3, <1>4 DEF PoolTypes, CountTypes
<1>6. \A e \in Datagrams : Counts(e, a)' => e # d /\ Counts(e, a) /\ reg'[e] = reg[e]
  BY <1>3, <1>5 DEF Counts
<1>7. CASE a # c
  <2>1. Passed(a)' = Passed(a)
    BY <1>2, <1>3, <1>5, <1>7 DEF Passed
  <2> QED  BY <1>1, <1>3, <1>5, <1>6, <1>7, <2>1, StillCounted
<1>8. CASE a = c
  <2>1. Counts(d, a)
    BY <1>2, <1>3, <1>8 DEF Counts
  <2>2. d \notin Passed(a) /\ Passed(a)' = Passed(a) \cup {d}
    BY <1>2, <1>3, <1>5, <1>8 DEF Passed
  <2>3. Cardinality(Passed(a)') = Cardinality(Passed(a)) + 1 /\ Cardinality(Passed(a)) \in Nat
    BY <2>2, PassedFacts, FS_AddElement
  <2>4. PICK n : n = Cardinality(Passed(a))
    OBVIOUS
  <2>5. reg[d] <= n /\ (a \notin raced => reg[d] = n)
    BY <1>1, <2>1, <2>4 DEF CountedAt
  <2>6. counter'[a] <= n + 1 /\ (a \notin raced' => counter'[a] = n + 1)
    BY <1>3, <1>4, <1>5, <1>8, <2>3, <2>4, <2>5
  <2>7. \A e \in Datagrams : Counts(e, a)' => reg'[e] \in Nat /\ reg'[e] <= n
    BY <1>1, <1>6, <2>4 DEF CountedAt, CountTypes
  <2>8. \A e \in Datagrams : Counts(e, a)' => reg'[e] <= n + 1
    BY <2>3, <2>4, <2>7
  <2>9. a \notin raced' => \A e \in Datagrams : ~ Counts(e, a)'
    BY <1>1, <1>3, <1>6, <2>1 DEF CountedAt
  <2>10. Cardinality(Passed(a)') = n + 1
    BY <2>3, <2>4
  <2> QED  BY <2>6, <2>8, <2>9, <2>10 DEF CountedAt
<1> QED  BY <1>7, <1>8

\* No other step touches what is counted for an application.
LEMMA StaysCounted ==
  ASSUME DeliverCountInv, UNCHANGED <<counter, reg, raced, dest>>,
         \A d \in Datagrams : \/ stage'[d] = stage[d]
                              \/ stage[d] \notin {"load", "store"} /\ stage'[d] \notin {"load", "store"}
  PROVE  DeliverCountInv'
<1> SUFFICES ASSUME NEW a \in AppProtos PROVE CountedAt(a)'
  BY DEF DeliverCountInv
<1>1. CountedAt(a)
  BY DEF DeliverCountInv
<1>2. Passed(a)' = Passed(a)
  BY DEF Passed
<1>3. \A d \in Datagrams : Counts(d, a)' => Counts(d, a)
  BY DEF Counts
<1> QED  BY <1>1, <1>2, <1>3, StillCounted

\* A routed message is to be counted, and has not been yet.
LEMMA TransportCounted ==
  ASSUME TypeInv, DeliverCountInv, NEW d \in Datagrams, NEW at \in {"tcp", "udp"}, DeliverTransport(d, at)
  PROVE  DeliverCountInv'
<1> SUFFICES ASSUME NEW a \in AppProtos PROVE CountedAt(a)'
  BY DEF DeliverCountInv
<1>1. PoolTypes /\ d \in Receivers /\ Datagrams \subseteq Receivers /\ CountedAt(a) /\ a # 0
  BY Types, Constants DEF TypeInv, DeliverCountInv
<1>2. PICK b : b = Upper(at, buf[3])
  OBVIOUS
<1>3. /\ stage[d] = at /\ dest' = [dest EXCEPT ![d] = b]
      /\ stage' = [stage EXCEPT ![d] = IF b = 0 THEN "ended" ELSE "load"]
      /\ UNCHANGED <<counter, reg, raced>>
  BY <1>2 DEF DeliverTransport, Goto, countVars
<1>4. dest[d] = 0 /\ dest'[d] = b /\ stage'[d] = IF b = 0 THEN "ended" ELSE "load"
  BY <1>1, <1>3 DEF TypeInv, DeliveryInv, PoolTypes
<1>5. \A e \in Datagrams \ {d} : stage'[e] = stage[e] /\ dest'[e] = dest[e]
  BY <1>1, <1>3 DEF PoolTypes
<1>6. Passed(a)' = Passed(a)
  BY <1>1, <1>4, <1>5 DEF Passed
<1>7. \A e \in Datagrams : Counts(e, a)' => Counts(e, a)
  BY <1>4, <1>5 DEF Counts
<1> QED  BY <1>1, <1>3, <1>6, <1>7, StillCounted

\* The applications that send use a counter of their own.
LEMMA SenderCounted ==
  ASSUME DeliverCountInv, UNCHANGED <<stage, dest, reg>>,
         \A c \in AppProtos : counter'[c] = counter[c] /\ (c \notin raced' => c \notin raced)
  PROVE  DeliverCountInv'
<1> SUFFICES ASSUME NEW a \in AppProtos PROVE CountedAt(a)'
  BY DEF DeliverCountInv
<1>1. CountedAt(a)
  BY DEF DeliverCountInv
<1>2. Passed(a)' = Passed(a)
  BY DEF Passed
<1>3. \A d \in Datagrams : Counts(d, a)' => Counts(d, a)
  BY DEF Counts
<1> QED  BY <1>1, <1>2, <1>3, StillCounted

LEMMA NextDeliverCountInv == TypeInv /\ DeliverCountInv /\ [Next]_vars => DeliverCountInv'
<1> SUFFICES ASSUME TypeInv, DeliverCountInv, [Next]_vars PROVE DeliverCountInv'
  OBVIOUS
<1>0. PoolTypes /\ CountTypes /\ Datagrams \subseteq Receivers /\ SendCount = 0 /\ 0 \notin AppProtos
      /\ AppProtos \subseteq Counters /\ Counters = {0} \cup AppProtos
  BY Types, Constants DEF TypeInv
<1>1. ASSUME UNCHANGED <<stage, dest, countVars>> PROVE DeliverCountInv'
  BY <1>1, StaysCounted DEF countVars
<1>2. CASE SetRemaddr
  BY <1>1, <1>2 DEF SetRemaddr
<1>3. ASSUME NEW a \in Apps, SendMessage(a) \/ SendFails(a) PROVE DeliverCountInv'
  BY <1>1, <1>3 DEF SendMessage, SendFails
<1>4. ASSUME NEW a \in Apps, LoadSent(a) \/ StoreSent(a) PROVE DeliverCountInv'
  <2>1. UNCHANGED <<stage, dest, reg>>
    BY <1>4 DEF LoadSent, StoreSent
  <2>2. raced' \subseteq raced \cup {0} /\ raced \subseteq raced'
    BY <1>0, <1>4 DEF LoadSent, StoreSent
  <2>3. \A c \in AppProtos : counter'[c] = counter[c]
    BY <1>0, <1>4 DEF LoadSent, StoreSent, CountTypes
  <2> QED  BY <1>0, <2>1, <2>2, <2>3, SenderCounted
<1>5. ASSUME NEW r \in Receivers, NEW a \in Apps, RecvFrom(r, a) PROVE DeliverCountInv'
  <2>1. UNCHANGED <<dest, countVars>> /\ stage' = [stage EXCEPT ![r] = "copy"] /\ stage[r] = "recv"
    BY <1>5 DEF RecvFrom, Goto
  <2>2. \A d \in Datagrams : stage'[d] = stage[d] \/ (stage[d] = "recv" /\ stage'[d] = "copy")
    BY <1>0, <2>1 DEF PoolTypes
  <2> QED  BY <2>1, <2>2, StaysCounted DEF countVars
<1>6. ASSUME NEW r \in Receivers, NEW f \in Fields, CopyField(r, f) PROVE DeliverCountInv'
  BY <1>1, <1>6 DEF CopyField
<1>7. ASSUME NEW r \in Receivers, NewMessage(r) PROVE DeliverCountInv'
  <2>1. UNCHANGED <<dest, countVars>> /\ stage' = [stage EXCEPT ![r] = "avail"] /\ stage[r] = "copy"
    BY <1>7 DEF NewMessage, Goto
  <2>2. \A d \in Datagrams : stage'[d] = stage[d] \/ (stage[d] = "copy" /\ stage'[d] = "avail")
    BY <1>0, <2>1 DEF PoolTypes
  <2> QED  BY <2>1, <2>2, StaysCounted DEF countVars
<1>8. ASSUME NEW r \in Receivers, NEW to \in {"look", "claim"}, NEW n, LookAt(r, to, n),
             stage[r] \in {"avail", "look"},
             UNCHANGED <<remaddr, sendVars, bufVars, dest, countVars>>
      PROVE  DeliverCountInv'
  <2>1. stage' = stage \/ stage' = [stage EXCEPT ![r] = to]
    BY <1>8 DEF LookAt, Goto
  <2>2. \A d \in Datagrams : \/ stage'[d] = stage[d]
                             \/ stage[d] \in {"avail", "look"} /\ stage'[d] \in {"look", "claim"}
    BY <1>0, <1>8, <2>1 DEF PoolTypes
  <2> QED  BY <1>8, <2>2, StaysCounted DEF countVars
<1>9. ASSUME NEW r \in Receivers, (stage[r] \in {"avail", "look"} /\ Drop(r)) \/ Claim(r),
             UNCHANGED <<remaddr, sendVars, bufVars, dest, countVars>>
      PROVE  DeliverCountInv'
  <2>1. /\ stage' = [stage EXCEPT ![r] = "recv"] \/ stage' = [stage EXCEPT ![r] = "create"]
        /\ stage[r] \in {"avail", "look", "claim"}
    BY <1>9 DEF Drop, Claim, Goto
  <2>2. \A d \in Datagrams : \/ stage'[d] = stage[d]
                             \/ stage[d] \in {"avail", "look", "claim"} /\ stage'[d] \in {"recv", "create"}
    BY <1>0, <2>1 DEF PoolTypes
  <2> QED  BY <1>9, <2>2, StaysCounted DEF countVars
<1>10. ASSUME NEW r \in Receivers, Create(r), UNCHANGED <<remaddr, sendVars, bufVars, dest, countVars>>
       PROVE  DeliverCountInv'
  <2>1. /\ stage' = [stage EXCEPT ![r] = "recv", ![hand[r]] = "ip"]
        /\ stage[r] = "create" /\ stage[hand[r]] = "none"
    BY <1>10 DEF Create, TypeInv, HandInv, Busy
  <2>2. \A d \in Datagrams : \/ stage'[d] = stage[d]
                             \/ stage[d] \in {"none", "create"} /\ stage'[d] \in {"recv", "ip"}
    BY <1>0, <2>1 DEF PoolTypes
  <2> QED  BY <1>10, <2>2, StaysCounted DEF countVars
<1>11. ASSUME NEW d \in Datagrams, deliver_IP(d) PROVE DeliverCountInv'
  <2>1. PICK at : at \in {"tcp", "udp", "ended"} /\ stage' = [stage EXCEPT ![d] = at]
    BY <1>11 DEF deliver_IP, Goto
  <2>2. UNCHANGED <<dest, countVars>> /\ stage[d] = "ip"
    BY <1>11 DEF deliver_IP
  <2>3. \A e \in Datagrams : stage'[e] = stage[e] \/ (stage[e] = "ip" /\ stage'[e] \in {"tcp", "udp", "ended"})
    BY <1>0, <2>1, <2>2 DEF PoolTypes
  <2> QED  BY <2>2, <2>3, StaysCounted DEF countVars
<1>12. ASSUME NEW d \in Datagrams, LoadCounter(d) \/ StoreCounter(d) PROVE DeliverCountInv'
  BY <1>12, LoadsCounter, StoresCounter DEF DeliverCountInv
<1>13. ASSUME NEW d \in Datagrams, FreeSlot(d) PROVE DeliverCountInv'
  BY <1>1, <1>13 DEF FreeSlot
<1>14. CASE UNCHANGED vars
  BY <1>1, <1>14 DEF vars
<1> QED  BY <1>2, <1>3, <1>4, <1>5, <1>6, <1>7, <1>8, <1>9, <1>10, <1>11, <1>12, <1>13, <1>14,
            TransportCounted, StepCases, NextCases

-----------------------------------------------------------------------------
(* The counter of what is sent.                                            *)
LEMMA InitSentCountInv == Init => SentInv /\ SendCountInv
<1> SUFFICES ASSUME Init PROVE SentInv /\ SendCountInv
  OBVIOUS
<1>1. sent = {} /\ PassedSent = {} /\ counter[SendCount] = 0
  BY Constants DEF Init, PassedSent
<1>2. \A a \in Apps : app[a].at = "send"
  BY DEF Init
<1> QED  BY <1>1, <1>2, FS_EmptySet DEF SentInv, SendCountInv

LEMMA PassedSentFacts ==
  ASSUME SentInv
  PROVE  IsFiniteSet(PassedSent) /\ Cardinality(PassedSent) \in Nat
<1>1. PassedSent \subseteq sent
  BY DEF PassedSent
<1> QED  BY <1>1, FS_Subset, FS_CardinalityType DEF SentInv

\* A message is sent: it is the next of its application, and not counted yet.
LEMMA SendsCounted ==
  ASSUME TypeInv, SentInv, SendCountInv, NEW a \in Apps, SendMessage(a)
  PROVE  SentInv' /\ SendCountInv'
<1>1. SendTypes
  BY Types DEF TypeInv
<1>2. PICK n : n = app[a].n
  OBVIOUS
<1>3. PICK m : m = [app |-> a, n |-> n + 1, to |-> remaddr, arrived |-> Len(rx)]
  OBVIOUS
<1>4. /\ app[a].at = "send"
      /\ app' = [app EXCEPT ![a].at = "load", ![a].n = n + 1]
      /\ UNCHANGED <<counter, reg, raced>>
  BY <1>2 DEF SendMessage, countVars
<1>5. /\ n \in Nat /\ app'[a].at = "load" /\ app'[a].n = n + 1
      /\ \A c \in Apps \ {a} : app'[c] = app[c]
  BY <1>1, <1>2, <1>4 DEF SendTypes, Thread
<1>6. sent' = sent \cup {m} /\ m.app = a /\ m.n = n + 1
  BY <1>2, <1>3, <1>5 DEF SendMessage
<1>7. \A s \in sent : s.app \in Apps /\ s.n \in Nat /\ (s.app = a => s.n <= n)
  BY <1>1, <1>2 DEF SentInv, SendTypes
<1>8. SentInv'
  <2>1. \A s \in sent' : s.n <= app'[s.app].n
    BY <1>5, <1>6, <1>7 DEF SentInv
  <2>2. \A s, t \in sent' : s.app = t.app /\ s.n = t.n => s = t
    BY <1>5, <1>6, <1>7 DEF SentInv
  <2>3. \A c \in Apps : app'[c].at # "send" => \E s \in sent' : s.app = c /\ s.n = app'[c].n
    BY <1>5, <1>6 DEF SentInv
  <2>4. IsFiniteSet(sent')
    BY <1>6, FS_AddElement DEF SentInv
  <2> QED  BY <2>1, <2>2, <2>3, <2>4 DEF SentInv
<1>9. PassedSent' = PassedSent
  <2>1. ASSUME NEW s \in sent
        PROVE  app'[s.app].n > s.n \/ app'[s.app].at = "send" <=> app[s.app].n > s.n \/ app[s.app].at = "send"
    <3>1. CASE s.app = a
      <4>1. n + 1 > s.n
        BY <1>5, <1>7, <3>1
      <4> QED  BY <1>4, <1>5, <3>1, <4>1
    <3>2. CASE s.app # a
      BY <1>5, <1>7, <3>2
    <3> QED  BY <3>1, <3>2
  <2>2. ~ (app'[m.app].n > m.n \/ app'[m.app].at = "send")
    BY <1>5, <1>6
  <2> QED  BY <1>6, <2>1, <2>2 DEF PassedSent
<1>10. \A c \in Apps : app'[c].at = "store" => app[c] = app'[c] /\ app[c].at = "store"
  BY <1>5
<1> QED  BY <1>4, <1>8, <1>9, <1>10 DEF SendCountInv

\* An application's step on the counter leaves what has been sent as it is.
LEMMA StillSent ==
  ASSUME SentInv, sent' = sent,
         \A a \in Apps : /\ app'[a].n = app[a].n
                         /\ app'[a].at # "send" => app[a].at # "send",
         \A s \in sent : s.app \in Apps
  PROVE  SentInv'
<1>1. \A s \in sent' : s.n <= app'[s.app].n
  BY DEF SentInv
<1>2. \A a \in Apps : app'[a].at # "send" => \E s \in sent' : s.app = a /\ s.n = app'[a].n
  BY DEF SentInv
<1>3. \A s, t \in sent' : s.app = t.app /\ s.n = t.n => s = t
  BY DEF SentInv
<1> QED  BY <1>1, <1>2, <1>3 DEF SentInv

LEMMA LoadsSent ==
  ASSUME TypeInv, SentInv, SendCountInv, NEW a \in Apps, LoadSent(a)
  PROVE  SentInv' /\ SendCountInv'
<1>1. SendTypes
  BY Types DEF TypeInv
<1>2. /\ app[a].at = "load"
      /\ app' = [app EXCEPT ![a].at = "store", ![a].reg = counter[SendCount]]
      /\ raced' = IF Storing(SendCount) THEN raced \cup {SendCount} ELSE raced
      /\ UNCHANGED <<sent, counter>>
  BY DEF LoadSent
<1>3. /\ app'[a].at = "store" /\ app'[a].n = app[a].n /\ app'[a].reg = counter[SendCount]
      /\ \A c \in Apps \ {a} : app'[c] = app[c]
  BY <1>1, <1>2 DEF SendTypes, Thread
<1>4. \A s \in sent : s.app \in Apps
  BY <1>1 DEF SendTypes
<1>5. SentInv'
  <2>1. \A c \in Apps : /\ app'[c].n = app[c].n
                        /\ app'[c].at # "send" => app[c].at # "send"
    BY <1>2, <1>3
  <2> QED  BY <1>2, <1>4, <2>1, StillSent
<1>6. PassedSent' = PassedSent
  BY <1>2, <1>3, <1>4 DEF PassedSent
<1>7. \A c \in Apps : app'[c].at = "store" => c = a \/ (app[c].at = "store" /\ app'[c] = app[c])
  BY <1>3
<1>8. \A c \in Apps : app[c].at = "store" => SendCount \in raced'
  BY <1>2 DEF Storing
<1>9. /\ counter[SendCount] <= Cardinality(PassedSent)
      /\ SendCount \notin raced' => counter[SendCount] = Cardinality(PassedSent)
  BY <1>2 DEF SendCountInv
<1>10. \A c \in Apps : app'[c].at = "store" => app'[c].reg <= Cardinality(PassedSent)
  BY <1>3, <1>7, <1>9 DEF SendCountInv
<1>11. SendCount \notin raced' => \A b, c \in Apps : app'[b].at = "store" /\ app'[c].at = "store" =>
         app'[b].reg = counter[SendCount] /\ b = c
  BY <1>3, <1>7, <1>8
<1> QED  BY <1>2, <1>5, <1>6, <1>9, <1>10, <1>11 DEF SendCountInv

\* It stores it, one more, and its last message has been counted.
LEMMA StoresSent ==
  ASSUME TypeInv, SentInv, SendCountInv, NEW a \in Apps, StoreSent(a)
  PROVE  SentInv' /\ SendCountInv'
<1>1. SendTypes /\ CountTypes /\ SendCount \in Counters
  BY Types, Constants DEF TypeInv
<1>2. /\ app[a].at = "store"
      /\ app' = [app EXCEPT ![a].at = "send", ![a].reg = 0]
      /\ counter' = [counter EXCEPT ![SendCount] = app[a].reg + 1]
      /\ UNCHANGED <<sent, raced>>
  BY DEF StoreSent
<1>3. /\ app'[a].at = "send" /\ app'[a].n = app[a].n /\ app[a].n \in Nat /\ app[a].reg \in Nat
      /\ \A c \in Apps \ {a} : app'[c] = app[c]
      /\ \A c \in Apps : app[c].reg \in Nat
  BY <1>1, <1>2 DEF SendTypes, Thread
<1>4. \A s \in sent : s.app \in Apps /\ s.n \in Nat
  BY <1>1 DEF SendTypes
<1>5. SentInv'
  <2>1. \A c \in Apps : /\ app'[c].n = app[c].n
                        /\ app'[c].at # "send" => app[c].at # "send"
    BY <1>2, <1>3
  <2> QED  BY <1>2, <1>4, <2>1, StillSent
<1>6. PICK m \in sent : m.app = a /\ m.n = app[a].n
  BY <1>2 DEF SentInv
<1>7. m \notin PassedSent /\ PassedSent' = PassedSent \cup {m}
  <2>1. m \notin PassedSent
    BY <1>2, <1>3, <1>6 DEF PassedSent
  <2>2. ASSUME NEW s \in sent
        PROVE  s \in PassedSent' <=> s \in PassedSent \/ s = m
    <3>1. CASE s.app # a
      BY <1>2, <1>3, <1>4, <1>6, <3>1 DEF PassedSent
    <3>2. CASE s.app = a
      <4>1. s.n <= app[a].n /\ (s.n = app[a].n => s = m)
        BY <1>6, <3>2 DEF SentInv
      <4>2. s.n # app[a].n => app[a].n > s.n
        BY <1>3, <1>4, <4>1
      <4>3. s \in PassedSent'
        BY <1>2, <1>3, <3>2 DEF PassedSent
      <4> QED  BY <3>2, <4>1, <4>2, <4>3 DEF PassedSent
    <3> QED  BY <3>1, <3>2
  <2>3. PassedSent \subseteq sent /\ PassedSent' \subseteq sent
    BY <1>2 DEF PassedSent
  <2> QED  BY <1>6, <2>1, <2>2, <2>3
<1>8. PICK n \in Nat : n = Cardinality(PassedSent)
  BY PassedSentFacts
<1>9. Cardinality(PassedSent') = n + 1
  BY <1>7, <1>8, PassedSentFacts, FS_AddElement
<1>10. counter'[SendCount] = app[a].reg + 1
  BY <1>1, <1>2 DEF CountTypes
<1>11. app[a].reg <= n /\ (SendCount \notin raced => app[a].reg = n)
  BY <1>2, <1>8 DEF SendCountInv
<1>12. \A c \in Apps : app'[c].at = "store" => c # a /\ app[c].at = "store" /\ app'[c].reg = app[c].reg
  BY <1>3
<1>13. \A c \in Apps : app'[c].at = "store" => app'[c].reg <= n + 1
  <2>1. \A c \in Apps : app[c].at = "store" => app[c].reg <= n
    BY <1>8 DEF SendCountInv
  <2> QED  BY <1>3, <1>12, <2>1
<1>14. SendCount \notin raced' => \A c \in Apps : app'[c].at # "store"
  BY <1>2, <1>12 DEF SendCountInv
<1>15. counter'[SendCount] <= n + 1 /\ (SendCount \notin raced' => counter'[SendCount] = n + 1)
  BY <1>2, <1>3, <1>10, <1>11
<1> QED  BY <1>5, <1>9, <1>13, <1>14, <1>15 DEF SendCountInv

\* No delivery touches what is counted as sent.
LEMMA StillSendCounted ==
  ASSUME SentInv, SendCountInv, UNCHANGED <<app, sent>>, counter'[SendCount] = counter[SendCount],
         SendCount \notin raced' => SendCount \notin raced
  PROVE  SentInv' /\ SendCountInv'
<1>1. PassedSent' = PassedSent
  BY DEF PassedSent
<1>2. SentInv'
  BY DEF SentInv
<1> QED  BY <1>1, <1>2 DEF SendCountInv

LEMMA NextSentCountInv == TypeInv /\ SentInv /\ SendCountInv /\ [Next]_vars => SentInv' /\ SendCountInv'
<1> SUFFICES ASSUME TypeInv, SentInv, SendCountInv, [Next]_vars PROVE SentInv' /\ SendCountInv'
  OBVIOUS
<1>0. CountTypes /\ PoolTypes /\ SendCount = 0 /\ 0 \notin AppProtos
  BY Types, Constants DEF TypeInv
<1>1. ASSUME UNCHANGED <<app, sent, counter, raced>> PROVE SentInv' /\ SendCountInv'
  BY <1>1, StillSendCounted
<1>2. CASE SetRemaddr
  BY <1>1, <1>2 DEF SetRemaddr, countVars
<1>3. ASSUME NEW a \in Apps, SendFails(a) PROVE SentInv' /\ SendCountInv'
  BY <1>1, <1>3 DEF SendFails, countVars
<1>4. ASSUME UNCHANGED <<sendVars, countVars>> PROVE SentInv' /\ SendCountInv'
  BY <1>1, <1>4 DEF sendVars, countVars
<1>5. ASSUME NEW r \in Receivers, NEW a \in Apps, RecvFrom(r, a) PROVE SentInv' /\ SendCountInv'
  BY <1>4, <1>5 DEF RecvFrom
<1>6. ASSUME NEW r \in Receivers, NewMessage(r) \/ \E f \in Fields : CopyField(r, f)
      PROVE  SentInv' /\ SendCountInv'
  BY <1>4, <1>6 DEF CopyField, NewMessage
<1>7. ASSUME NEW d \in Datagrams,
             deliver_IP(d) \/ DeliverTransport(d, "tcp") \/ DeliverTransport(d, "udp") \/ FreeSlot(d)
      PROVE  SentInv' /\ SendCountInv'
  BY <1>4, <1>7 DEF deliver_IP, DeliverTransport, FreeSlot
<1>8. ASSUME NEW d \in Datagrams, LoadCounter(d) \/ StoreCounter(d) PROVE SentInv' /\ SendCountInv'
  <2>1. PICK c : c = dest[d]
    OBVIOUS
  <2>2. c \in AppProtos
    BY <1>0, <1>8, <2>1 DEF LoadCounter, StoreCounter, TypeInv, DeliveryInv, PoolTypes
  <2>3. counter' = counter \/ counter' = [counter EXCEPT ![c] = reg[d] + 1]
    BY <1>8, <2>1 DEF LoadCounter, StoreCounter, CounterOf
  <2>4. counter'[SendCount] = counter[SendCount]
    BY <1>0, <2>2, <2>3, Constants DEF CountTypes
  <2>5. UNCHANGED <<app, sent>> /\ raced \subseteq raced'
    BY <1>8 DEF LoadCounter, StoreCounter, sendVars
  <2> QED  BY <2>4, <2>5, StillSendCounted
<1>9. CASE UNCHANGED vars
  BY <1>4, <1>9 DEF vars
<1> QED  BY <1>2, <1>3, <1>4, <1>5, <1>6, <1>7, <1>8, <1>9, SendsCounted, LoadsSent, StoresSent,
            StepCases, NextCases

\* The unsynchronised increments never count a message twice, and lose none
\* unless two threads were between the load and the store of one counter.
THEOREM CountersExactCorrect == Spec => []CountersExactUnlessRaced
<1>1. Spec => [](TypeInv /\ DeliverCountInv /\ SentInv /\ SendCountInv)
  BY InitTypeInv, NextTypeInv, InitDeliverCountInv, NextDeliverCountInv,
     InitSentCountInv, NextSentCountInv, PTL DEF Spec
<1>2. DeliverCountInv /\ SendCountInv => CountersExactUnlessRaced
  BY DEF DeliverCountInv, CountedAt, SendCountInv, CountersExactUnlessRaced, Passed, PassedSent
<1> QED  BY <1>1, <1>2, PTL

-----------------------------------------------------------------------------
(* No message is forgotten.  A receiver, or a delivery, with something to do: *)
(* the guards of their actions.                                            *)
CanHandle(r) == \/ copying[r] # {} \/ stage[r] \in {"copy", "claim", "create"}
                \/ stage[r] \in {"avail", "look"} /\ i[r] \in Slots \cup {threadCount}

CanDeliver(d) == \/ stage[d] \in {"ip", "tcp", "udp"}
                 \/ stage[d] \in {"load", "store"} /\ dest[d] \in AppProtos

(* d has been counted, dropped for want of a slot, or returned from.        *)
Settled(d) == \/ d \in lost \/ stage[d] = "ended"
              \/ dest[d] # 0 /\ stage[d] \notin {"load", "store"}

NoneForgotten == \A d \in 1..Len(rx) : \/ Settled(d) \/ CanDeliver(d)
                                       \/ \E r \in Receivers : hand[r] = d /\ CanHandle(r)

(* A datagram no thread delivers yet is in some receiver's hand.           *)
HeldInv == \A d \in 1..Len(rx) : stage[d] = "none" /\ d \notin lost =>
             \E r \in Receivers : Busy(r) /\ hand[r] = d

\* A step by which no receiver but r, if any, leaves its datagram.
LEMMA StillHeld ==
  ASSUME HeldInv, NEW d \in 1..Len(rx), stage'[d] = "none", d \notin lost', stage[d] = "none", d \notin lost,
         \A q \in Receivers : Busy(q) /\ hand[q] = d => Busy(q)' /\ hand'[q] = d
  PROVE  \E q \in Receivers : Busy(q)' /\ hand'[q] = d
<1>1. PICK q \in Receivers : Busy(q) /\ hand[q] = d
  BY DEF HeldInv
<1> QED  BY <1>1

\* Each step leaves what has been received, and has no thread, in some hand.
LEMMA NextHeldInv == TypeInv /\ HeldInv /\ [Next]_vars => HeldInv'
<1> SUFFICES ASSUME TypeInv, HeldInv, [Next]_vars,
                    NEW d \in 1..Len(rx'), stage'[d] = "none", d \notin lost'
             PROVE  \E q \in Receivers : Busy(q)' /\ hand'[q] = d
  BY DEF HeldInv
<1>0. /\ stage \in [Receivers -> Stages] /\ hand \in [Receivers -> Receivers]
      /\ Datagrams \subseteq Receivers /\ Len(rx) \in Nat /\ 1..Len(rx) \subseteq Datagrams
  <2>1. stage \in [Receivers -> Stages] /\ hand \in [Receivers -> Receivers]
    BY Types DEF TypeInv, PoolTypes
  <2>2. rx \in Seq(Apps) /\ Len(rx) <= MaxRecv
    BY Types DEF TypeInv, BufTypes
  <2> QED  BY <2>1, <2>2, Constants
<1>1. CASE UNCHANGED <<stage, hand, rx, lost>>
  BY <1>1, StillHeld DEF Busy
<1>2. CASE SetRemaddr \/ \E a \in Apps : SendMessage(a) \/ SendFails(a) \/ LoadSent(a) \/ StoreSent(a)
  <2>1. UNCHANGED <<stage, hand, rx, lost>>
    BY <1>2 DEF SetRemaddr, SendMessage, SendFails, LoadSent, StoreSent, bufVars, poolVars
  <2> QED  BY <1>1, <2>1
<1>3. ASSUME NEW r \in Receivers, NEW a \in Apps, RecvFrom(r, a)
      PROVE  \E q \in Receivers : Busy(q)' /\ hand'[q] = d
  <2>1. /\ stage[r] = "recv" /\ stage' = [stage EXCEPT ![r] = "copy"] /\ rx' = Append(rx, a)
        /\ hand' = [hand EXCEPT ![r] = Len(rx) + 1] /\ UNCHANGED lost
    BY <1>3 DEF RecvFrom, Goto, poolVars
  <2>2. stage'[r] = "copy" /\ hand'[r] = Len(rx) + 1
    BY <1>0, <2>1
  <2>3. CASE d = Len(rx) + 1
    BY <2>2, <2>3 DEF Busy
  <2>4. CASE d # Len(rx) + 1
    <3>1. d \in 1..Len(rx)
      <4>1. rx \in Seq(Apps)
        BY Types DEF TypeInv, BufTypes
      <4>2. Len(rx') = Len(rx) + 1
        BY <2>1, <4>1
      <4> QED  BY <1>0, <2>4, <4>2
    <3>2. stage[d] = "none"
      BY <1>0, <2>1, <3>1
    <3>3. \A q \in Receivers : Busy(q) => stage'[q] = stage[q] /\ hand'[q] = hand[q]
      BY <1>0, <2>1 DEF Busy
    <3> QED  BY <2>1, <3>1, <3>2, <3>3, StillHeld DEF Busy
  <2> QED  BY <2>3, <2>4
\* A receiver that goes on with its datagram.
<1>4. ASSUME NEW r \in Receivers, Busy(r), NEW at \in Stages, stage' = [stage EXCEPT ![r] = at],
             at \in {"copy", "avail", "look", "claim", "create"}, UNCHANGED <<hand, rx, lost>>
      PROVE  \E q \in Receivers : Busy(q)' /\ hand'[q] = d
  <2>1. stage[d] = "none"
    BY <1>0, <1>4
  <2>2. \A q \in Receivers : Busy(q) => Busy(q)'
    BY <1>0, <1>4 DEF Busy
  <2> QED  BY <1>4, <2>1, <2>2, StillHeld
<1>5. ASSUME NEW r \in Receivers, NEW f \in Fields, CopyField(r, f)
      PROVE  \E q \in Receivers : Busy(q)' /\ hand'[q] = d
  BY <1>1, <1>5 DEF CopyField, poolVars
<1>6. ASSUME NEW r \in Receivers, NewMessage(r) \/ (Claim(r) /\ UNCHANGED rx)
      PROVE  \E q \in Receivers : Busy(q)' /\ hand'[q] = d
  <2>1. /\ Busy(r) /\ UNCHANGED <<hand, rx, lost>>
        /\ \E at \in {"avail", "create"} : stage' = [stage EXCEPT ![r] = at]
    BY <1>6 DEF NewMessage, Claim, Goto, Busy, bufVars
  <2> QED  BY <1>4, <2>1 DEF Stages
<1>7. ASSUME NEW r \in Receivers, NEW to \in {"look", "claim"}, NEW n, stage[r] \in {"avail", "look"},
             LookAt(r, to, n), UNCHANGED rx
      PROVE  \E q \in Receivers : Busy(q)' /\ hand'[q] = d
  <2>1. UNCHANGED <<hand, lost>> /\ Busy(r)
    BY <1>7 DEF LookAt, Busy
  <2>2. CASE UNCHANGED stage
    BY <1>1, <1>7, <2>1, <2>2
  <2>3. CASE stage' = [stage EXCEPT ![r] = to]
    BY <1>4, <1>7, <2>1, <2>3 DEF Stages
  <2> QED  BY <1>7, <2>2, <2>3 DEF LookAt, Goto
<1>8. ASSUME NEW r \in Receivers, stage[r] \in {"avail", "look"}, Drop(r), UNCHANGED rx
      PROVE  \E q \in Receivers : Busy(q)' /\ hand'[q] = d
  <2>1. stage' = [stage EXCEPT ![r] = "recv"] /\ lost' = lost \cup {hand[r]} /\ UNCHANGED hand
    BY <1>8 DEF Drop, Goto
  <2>2. d # hand[r] /\ d \notin lost /\ stage[d] = "none"
    <3>1. d # r
      BY <1>0, <2>1
    <3> QED  BY <1>0, <1>8, <2>1, <3>1
  <2>3. \A q \in Receivers : Busy(q) /\ hand[q] = d => Busy(q)' /\ hand'[q] = d
    BY <1>0, <2>1, <2>2 DEF Busy
  <2> QED  BY <1>8, <2>2, <2>3, StillHeld
<1>9. ASSUME NEW r \in Receivers, Create(r), UNCHANGED rx
      PROVE  \E q \in Receivers : Busy(q)' /\ hand'[q] = d
  <2>1. /\ stage[r] = "create" /\ stage' = [stage EXCEPT ![r] = "recv", ![hand[r]] = "ip"]
        /\ UNCHANGED <<hand, lost>>
    BY <1>9 DEF Create
  <2>2. stage[hand[r]] = "none" /\ hand[r] \in Receivers /\ hand[r] # r
    BY <1>0, <2>1 DEF TypeInv, HandInv, Busy
  <2>3. \A q \in Receivers : stage'[q] = IF q = hand[r] THEN "ip" ELSE IF q = r THEN "recv" ELSE stage[q]
    BY <1>0, <2>1, <2>2
  <2>4. d # hand[r] /\ stage[d] = "none"
    BY <1>0, <1>9, <2>1, <2>3
  <2>5. \A q \in Receivers : Busy(q) /\ hand[q] = d => Busy(q)' /\ hand'[q] = d
    BY <2>1, <2>2, <2>3, <2>4 DEF Busy
  <2> QED  BY <1>9, <2>1, <2>4, <2>5, StillHeld
<1>10. ASSUME NEW e \in Datagrams,
              deliver_IP(e) \/ DeliverTransport(e, "tcp") \/ DeliverTransport(e, "udp")
              \/ LoadCounter(e) \/ StoreCounter(e)
       PROVE  \E q \in Receivers : Busy(q)' /\ hand'[q] = d
  <2>1. /\ ~ Busy(e) /\ stage[e] # "none" /\ UNCHANGED <<hand, rx, lost>>
        /\ \E at \in Stages : stage' = [stage EXCEPT ![e] = at] /\ at # "none"
    BY <1>10 DEF deliver_IP, DeliverTransport, LoadCounter, StoreCounter, Goto, Busy, Stages, bufVars, poolVars
  <2>2. \A q \in Receivers \ {e} : stage'[q] = stage[q]
    BY <1>0, <2>1
  <2>3. stage[d] = "none"
    BY <1>0, <2>1
  <2>4. \A q \in Receivers : Busy(q) => Busy(q)'
    BY <2>1, <2>2 DEF Busy
  <2> QED  BY <2>1, <2>3, <2>4, StillHeld
<1>11. ASSUME NEW e \in Datagrams, FreeSlot(e) PROVE \E q \in Receivers : Busy(q)' /\ hand'[q] = d
  BY <1>1, <1>11 DEF FreeSlot, bufVars
<1>12. CASE UNCHANGED vars
  BY <1>1, <1>12 DEF vars, bufVars, poolVars
<1>13. ASSUME NEW r \in Receivers,
              \/ stage[r] = "avail" /\ LookAt(r, "look", 0)
              \/ stage[r] = "look" /\ LookAt(r, "claim", i[r])
              \/ stage[r] \in {"avail", "look"} /\ Drop(r)
              \/ Claim(r)
              \/ Create(r),
              UNCHANGED <<remaddr, sendVars, bufVars, dest, countVars>>
       PROVE  \E q \in Receivers : Busy(q)' /\ hand'[q] = d
  <2>1. UNCHANGED rx
    BY <1>13 DEF bufVars
  <2> QED  BY <1>6, <1>7, <1>8, <1>9, <1>13, <2>1
<1> QED
  <2>1. ASSUME NEW r \in Receivers,
               \/ \E a \in Apps : RecvFrom(r, a)
               \/ \E f \in Fields : CopyField(r, f)
               \/ NewMessage(r)
        PROVE  \E q \in Receivers : Busy(q)' /\ hand'[q] = d
    BY <1>3, <1>5, <1>6, <2>1
  <2>2. CASE Step
    BY <1>2, <1>10, <1>11, <1>13, <2>1, <2>2, StepCases, Zenon
  <2> QED  BY <1>12, <2>2, NextCases

\* No datagram received is forgotten, whatever has become of the pool: it has
\* been counted, dropped for want of a slot or returned from as unroutable, or
\* its own thread, the receiver that has it or its delivery, waits for nobody.
THEOREM NoneForgottenCorrect == Spec => []NoneForgotten
<1>1. Init => HeldInv
  BY DEF Init, HeldInv
<1>2. Spec => [](TypeInv /\ HeldInv)
  BY InitTypeInv, NextTypeInv, <1>1, NextHeldInv, PTL DEF Spec
<1>3. ASSUME TypeInv, HeldInv PROVE NoneForgotten
  <2>0. /\ stage \in [Receivers -> Stages] /\ i \in [Receivers -> 0..threadCount]
        /\ dest \in [Datagrams -> AppProtos \cup {0}] /\ 1..Len(rx) \subseteq Datagrams
        /\ 0..threadCount = Slots \cup {threadCount} /\ Datagrams \subseteq Receivers
    <3>1. /\ stage \in [Receivers -> Stages] /\ i \in [Receivers -> 0..threadCount]
          /\ dest \in [Datagrams -> AppProtos \cup {0}]
      BY <1>3, Types DEF TypeInv, PoolTypes
    <3>2. rx \in Seq(Apps) /\ Len(rx) <= MaxRecv
      BY <1>3, Types DEF TypeInv, BufTypes
    <3> QED  BY <3>1, <3>2, Constants
  <2> SUFFICES ASSUME NEW d \in 1..Len(rx), ~ Settled(d)
               PROVE  CanDeliver(d) \/ \E r \in Receivers : hand[r] = d /\ CanHandle(r)
    BY DEF NoneForgotten
  <2>1. CASE stage[d] = "none"
    <3>1. PICK r \in Receivers : Busy(r) /\ hand[r] = d
      BY <1>3, <2>1 DEF HeldInv, Settled
    <3>2. CanHandle(r)
      BY <2>0, <3>1 DEF Busy, CanHandle
    <3> QED  BY <3>1, <3>2
  <2>2. CASE stage[d] # "none"
    <3>1. dest[d] # 0 <=> stage[d] \notin {"none", "ip", "tcp", "udp", "ended"}
      BY <1>3, <2>0 DEF TypeInv, DeliveryInv
    <3>2. stage[d] \in {"ip", "tcp", "udp", "load", "store"}
      BY <2>0, <2>2, <3>1 DEF Settled, Stages
    <3> QED  BY <2>0, <3>1, <3>2 DEF CanDeliver
  <2> QED  BY <2>1, <2>2
<1> QED  BY <1>2, <1>3, PTL
=============================================================================
