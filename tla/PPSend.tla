-------------------------------- MODULE PPSend --------------------------------
(***************************************************************************)
(* The sending half of the process-per-protocol stack, "Full Network       *)
(* Stack/PPprotocol.cpp": four application threads, eight protocol threads *)
(* joined by pipes, three mutexes, and main, which polls the application   *)
(* counters and ends the process.                                          *)
(*                                                                         *)
(* A unit on a pipe is a protocol id and a pointer to a heap Message; every *)
(* layer reads a unit, prepends its header to the Message the pointer      *)
(* names, and writes a unit with its own id to the pipe of the layer       *)
(* below.  The Ethernet thread flattens the Message and sends the bytes to *)
(* the address in the global remaddr, which the receiving thread           *)
(* overwrites with the source address of whatever arrives.                 *)
(***************************************************************************)
EXTENDS Protocols, Sequences

CONSTANTS N,        \* messages each application thread writes (100 in the code)
          PipeCap   \* units a pipe holds before a write to it blocks

ASSUME NAssumption       == N \in Nat \ {0}
ASSUME PipeCapAssumption == PipeCap \in Nat \ {0}

Msgs == Apps \X (1..N)      \* message <<a, i>>: the i-th of application a

DataLen == 100              \* bytes of application data in a Message

\* The mutex p holds while it adds its header and writes, if it takes one.
Locking  == {TCP, UDP} \cup AppProtos
Mutexes  == {"lock1", "lock2", "lock3"}
Mutex(p) == IF p \in {FTP, Telnet} THEN "lock1"
            ELSE IF p \in {RDP, DNSC} THEN "lock2" ELSE "lock3"
Free     == 0               \* the holder of a mutex nobody holds

Unit   == [proto_id : Protos, mp : Msgs]
Header == [layer : Protos, hlp : Protos, msglen : Nat]
Ports  == {"IN", "OUT"}     \* the two UDP ports of the other side

VARIABLES count,    \* count[a]: a's count_*_send
          apc,      \* apc[a]: "build" or "write", where a's loop stands
          sendPipe, \* sendPipe[p]: units queued for p's send thread
          stage,    \* stage[p]: "read", "got", "write" or "unlock"
          hand,     \* hand[p]: the unit p's thread works on
          lock,     \* lock[x]: the thread that holds mutex x, or Free
          msg,      \* msg[m]: the heap Message of m, its length and headers
          remaddr,  \* the port the global remaddr names
          wire,     \* the datagrams given to sendto, oldest first
          exited    \* the process has ended

appVars  == <<count, apc>>
heapVars == <<msg>>
netVars  == <<remaddr, wire>>
vars     == <<count, apc, sendPipe, stage, hand, lock, msg, remaddr, wire, exited>>

-----------------------------------------------------------------------------
(* The state when main has created every thread: it sets remaddr to the    *)
(* peer's IN port just before it starts the send threads.                  *)
NoUnit == [proto_id |-> 0, mp |-> << >>]

Init == /\ count    = [a \in Apps |-> 0]
        /\ apc      = [a \in Apps |-> "build"]
        /\ sendPipe = [p \in Protos |-> << >>]
        /\ stage    = [p \in Protos |-> "read"]
        /\ hand     = [p \in Protos |-> NoUnit]
        /\ lock     = [x \in Mutexes |-> Free]
        /\ msg      = [m \in Msgs |-> [len |-> 0, hdrs |-> << >>]]
        /\ remaddr  = "IN"
        /\ wire     = << >>
        /\ exited   = FALSE

-----------------------------------------------------------------------------
(* The application threads.  The counter goes up before the write.         *)

\* Mutation: the loop bound off by one.
BuildOneTooMany(a) ==
  /\ apc[a] = "build"
  /\ count[a] <= N
  /\ count' = [count EXCEPT ![a] = @ + 1]
  /\ apc' = [apc EXCEPT ![a] = "write"]
  /\ UNCHANGED <<sendPipe, stage, hand, lock, heapVars, netVars, exited>>

BuildMessage(a) ==
  /\ apc[a] = "build"
  /\ count[a] < N
  /\ count' = [count EXCEPT ![a] = @ + 1]
  /\ msg' = [msg EXCEPT ![<<a, count[a] + 1>>] = [len |-> DataLen, hdrs |-> << >>]]
  /\ apc' = [apc EXCEPT ![a] = "write"]
  /\ UNCHANGED <<sendPipe, stage, hand, lock, netVars, exited>>

WriteMessage(a) ==
  /\ apc[a] = "write"
  /\ Len(sendPipe[a]) < PipeCap
  /\ sendPipe' = [sendPipe EXCEPT ![a] =
                    Append(@, [proto_id |-> a, mp |-> <<a, count[a]>>])]
  /\ apc' = [apc EXCEPT ![a] = "build"]
  /\ UNCHANGED <<count, stage, hand, lock, heapVars, netVars, exited>>

AppThread(a) == BuildMessage(a) \/ WriteMessage(a)

AppFTPFunc    == FTP \in Apps    /\ AppThread(FTP)
AppTelnetFunc == Telnet \in Apps /\ AppThread(Telnet)
AppRDPFunc    == RDP \in Apps    /\ AppThread(RDP)
AppDNSCFunc   == DNSC \in Apps   /\ AppThread(DNSC)

-----------------------------------------------------------------------------
(* A protocol's send thread.                                               *)

\* Mutation: the newest unit first, as from a stack.
ReadNewestUnit(p) ==
  LET last == Len(sendPipe[p]) IN
  /\ stage[p] = "read"
  /\ sendPipe[p] # << >>
  /\ hand' = [hand EXCEPT ![p] = sendPipe[p][last]]
  /\ sendPipe' = [sendPipe EXCEPT ![p] = SubSeq(@, 1, last - 1)]
  /\ stage' = [stage EXCEPT ![p] = "got"]
  /\ UNCHANGED <<appVars, lock, heapVars, netVars, exited>>

ReadUnit(p) ==
  /\ stage[p] = "read"
  /\ sendPipe[p] # << >>
  /\ hand' = [hand EXCEPT ![p] = Head(sendPipe[p])]
  /\ sendPipe' = [sendPipe EXCEPT ![p] = Tail(@)]
  /\ stage' = [stage EXCEPT ![p] = "got"]
  /\ UNCHANGED <<appVars, lock, heapVars, netVars, exited>>

\* Mutation: hlp is the layer's own id.
HlpOfSelf(p) == p

\* hlp is the id in the unit just read; Ethernet alone writes a literal 1.
Hlp(p) == IF p = Ethernet THEN 1 ELSE hand[p].proto_id

\* Take the mutex, if the layer has one, and prepend the layer's header.
\* Nobody else can reach the Message meanwhile: see OneOwner.
AddHdr(p) ==
  LET m == hand[p].mp
      h == [layer |-> p, hlp |-> Hlp(p), msglen |-> msg[m].len]
  IN /\ stage[p] = "got"
     /\ p \in Locking => lock[Mutex(p)] = Free
     /\ lock' = IF p \in Locking THEN [lock EXCEPT ![Mutex(p)] = p] ELSE lock
     /\ msg' = [msg EXCEPT ![m] = [len  |-> msg[m].len + SizeOf(p),
                                   hdrs |-> <<h>> \o msg[m].hdrs]]
     /\ hand' = [hand EXCEPT ![p] = [proto_id |-> p, mp |-> m]]
     /\ stage' = [stage EXCEPT ![p] = "write"]
     /\ UNCHANGED <<appVars, sendPipe, netVars, exited>>

\* The write blocks, mutex held, while the pipe below is full.
WriteUnit(p) ==
  /\ p # Ethernet
  /\ stage[p] = "write"
  /\ Len(sendPipe[Below(p)]) < PipeCap
  /\ sendPipe' = [sendPipe EXCEPT ![Below(p)] = Append(@, hand[p])]
  /\ hand' = [hand EXCEPT ![p] = NoUnit]
  /\ stage' = [stage EXCEPT ![p] = IF p \in Locking THEN "unlock" ELSE "read"]
  /\ UNCHANGED <<appVars, lock, heapVars, netVars, exited>>

\* Mutation: the unlock forgotten.
UnlockForgotten(p) ==
  /\ stage[p] = "unlock"
  /\ stage' = [stage EXCEPT ![p] = "read"]
  /\ UNCHANGED <<appVars, sendPipe, hand, lock, heapVars, netVars, exited>>

Unlock(p) ==
  /\ stage[p] = "unlock"
  /\ lock' = [lock EXCEPT ![Mutex(p)] = Free]
  /\ stage' = [stage EXCEPT ![p] = "read"]
  /\ UNCHANGED <<appVars, sendPipe, hand, heapVars, netVars, exited>>

SendThread(p) == ReadUnit(p) \/ AddHdr(p) \/ WriteUnit(p) \/ Unlock(p)

DNSCSendFunc   == SendThread(DNSC)
RDPSendFunc    == SendThread(RDP)
TelnetSendFunc == SendThread(Telnet)
FTPSendFunc    == SendThread(FTP)
UDPSendFunc    == SendThread(UDP)
TCPSendFunc    == SendThread(TCP)
IPSendFunc     == ReadUnit(IP) \/ AddHdr(IP) \/ WriteUnit(IP)

\* Flatten the Message and give the bytes to sendto.
SendTo ==
  LET m == hand[Ethernet].mp IN
  /\ stage[Ethernet] = "write"
  /\ wire' = Append(wire, [mp |-> m, frame |-> msg[m].hdrs, dst |-> remaddr])
  /\ hand' = [hand EXCEPT ![Ethernet] = NoUnit]
  /\ stage' = [stage EXCEPT ![Ethernet] = "read"]
  /\ UNCHANGED <<appVars, sendPipe, lock, heapVars, remaddr, exited>>

\* Mutation: the failure is only logged, and the thread reads its next unit.
SendFailureIgnored ==
  /\ stage[Ethernet] = "write"
  /\ hand' = [hand EXCEPT ![Ethernet] = NoUnit]
  /\ stage' = [stage EXCEPT ![Ethernet] = "read"]
  /\ UNCHANGED <<appVars, sendPipe, lock, heapVars, netVars, exited>>

\* A sendto that fails ends the whole process.
SendToFails ==
  /\ stage[Ethernet] = "write"
  /\ exited' = TRUE
  /\ UNCHANGED <<appVars, sendPipe, stage, hand, lock, heapVars, netVars>>

EthernetSendFunc == ReadUnit(Ethernet) \/ AddHdr(Ethernet) \/ SendTo \/ SendToFails

-----------------------------------------------------------------------------
(* The receiving thread's recvfrom stores the sender's address, the peer's *)
(* OUT port, in the same global remaddr.                                   *)
OverwriteRemaddr ==
  /\ remaddr = "IN"
  /\ remaddr' = "OUT"
  /\ UNCHANGED <<appVars, sendPipe, stage, hand, lock, heapVars, wire, exited>>

(* main polls the four counters and returns when each has reached N.       *)
MainReturns ==
  /\ \A a \in Apps : count[a] >= N
  /\ exited' = TRUE
  /\ UNCHANGED <<appVars, sendPipe, stage, hand, lock, heapVars, netVars>>

Step == \/ AppFTPFunc \/ AppTelnetFunc \/ AppRDPFunc \/ AppDNSCFunc
        \/ DNSCSendFunc \/ RDPSendFunc \/ TelnetSendFunc \/ FTPSendFunc
        \/ UDPSendFunc \/ TCPSendFunc \/ IPSendFunc \/ EthernetSendFunc
        \/ OverwriteRemaddr \/ MainReturns

\* An ended process takes no step.
Ended == exited /\ UNCHANGED vars

Next == (~ exited /\ Step) \/ Ended

Spec == Init /\ [][Next]_vars
-----------------------------------------------------------------------------
(* Each thread that can run is eventually run: they are POSIX threads, none *)
(* of them spins, and a mutex is held only across one bounded section.      *)
(* Nothing is assumed of main, whose polling loop reads plain ints that     *)
(* other threads write, nor of the peer.                                    *)
ThreadStep(p) == IF p = Ethernet THEN EthernetSendFunc ELSE SendThread(p)

Fairness == /\ \A a \in Apps   : WF_vars(~ exited /\ AppThread(a))
            /\ \A p \in Protos : WF_vars(~ exited /\ ThreadStep(p))

FairSpec == Spec /\ Fairness

-----------------------------------------------------------------------------
Datagram == [mp : Msgs, frame : Seq(Header), dst : Ports]

TypeOK == /\ count \in [Apps -> 0..N]
          /\ apc \in [Apps -> {"build", "write"}]
          /\ sendPipe \in [Protos -> Seq(Unit)]
          /\ \A p \in Protos : Len(sendPipe[p]) <= PipeCap
          /\ stage \in [Protos -> {"read", "got", "write", "unlock"}]
          /\ hand \in [Protos -> Unit \cup {NoUnit}]
          /\ lock \in [Mutexes -> Protos \cup {Free}]
          /\ msg \in [Msgs -> [len : Nat, hdrs : Seq(Header)]]
          /\ remaddr \in Ports
          /\ wire \in Seq(Datagram)
          /\ exited \in BOOLEAN

(* Where a message is: about to be written by its application, queued on a *)
(* pipe, in a protocol thread's hands, or sent.                            *)
AtApp(a, m)     == apc[a] = "write" /\ m = <<a, count[a]>>
InPipe(p, k, m) == k \in DOMAIN sendPipe[p] /\ sendPipe[p][k].mp = m
InHand(p, m)    == stage[p] \in {"got", "write"} /\ hand[p].mp = m
OnWire(k, m)    == k \in DOMAIN wire /\ wire[k].mp = m

Places(m) ==
  LET queued(p) == {<<"pipe", p, k>> : k \in {k \in DOMAIN sendPipe[p] : InPipe(p, k, m)}}
  IN {<<"app", a, 0>>  : a \in {a \in Apps : AtApp(a, m)}}
     \cup {<<"hand", p, 0>> : p \in {p \in Protos : InHand(p, m)}}
     \cup (UNION {queued(p) : p \in Protos})
     \cup {<<"wire", 0, k>> : k \in {k \in DOMAIN wire : OnWire(k, m)}}

\* Every message an application has counted is in exactly one place, and no
\* other message is anywhere: no step of any thread duplicates, drops or
\* shares a Message pointer, so the header work on a Message never races.
OneOwner == \A m \in Msgs :
              IF m[2] <= count[m[1]] THEN \E x \in Places(m) : Places(m) = {x}
                                     ELSE Places(m) = {}

\* The headers a frame of application a carries, outermost first.
H(p, hlp, len) == [layer |-> p, hlp |-> hlp, msglen |-> len]
FrameOf(a) ==
  LET t == Below(a)
      lenT == DataLen + SizeOf(a)
      lenI == lenT + SizeOf(t)
  IN << H(Ethernet, 1, lenI + SizeOf(IP)), H(IP, t, lenI), H(t, a, lenT), H(a, a, DataLen) >>

\* Whatever the interleaving of eight threads, each datagram is framed as the
\* receiving side strips it: Ethernet, IP, the transport of its application,
\* the application; each hlp names the next layer's protocol (Ethernet's is
\* 1), and each msglen is the length of what follows the header, so that the
\* whole frame fits the 200-byte buffer it is flattened into.
WireFraming == \A k \in DOMAIN wire :
                 LET m == wire[k].mp IN /\ wire[k].frame = FrameOf(m[1])
                                        /\ msg[m].len < 200

\* A thread past its lock operation holds that mutex, and a mutex is held
\* only by such a thread: two senders to one pipe never work at once.
LockDiscipline ==
  \A x \in Mutexes : \A p \in Protos :
     lock[x] = p <=> p \in Locking /\ Mutex(p) = x /\ stage[p] \in {"write", "unlock"}

(* The threads, pipes and mutexes together are a FIFO multiplexer.         *)
Mux == INSTANCE FifoMux WITH submitted <- count,
                             out <- [k \in DOMAIN wire |-> wire[k].mp],
                             open <- ~ exited

\* Per-application order: each application's messages reach the wire in the
\* order it built them, each once, although three mutexes and five shared
\* pipes lie on the way.
ImplementsMux == Mux!Spec

\* Every message an application has counted reaches the wire unless the
\* process ends first: a pipe that is full while its writer holds a mutex
\* never blocks the stack for good.
EventuallySent == \A m \in Msgs :
   m[2] <= count[m[1]] ~> (exited \/ \E k \in DOMAIN wire : OnWire(k, m))
=============================================================================
