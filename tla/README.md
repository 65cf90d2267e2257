# Verification of the network programming assignments

The repository holds several small C and C++ programs of a network programming
course: two multi-threaded protocol stacks, the header libraries they are built
on (messages, threads, timers), a chat service with a coordinator, an SSL echo
server and a TCP server. This directory holds TLA+ models of them, the TLC
configurations that check the models, and TLAPS proofs about all nine.
`PROJECT.json` lists runs, mutants, theorems, hazards, findings and, for every
definition, the source lines it stands for.

    tlc -workers 2 -config MCPPSend_all.cfg MCPPSend      # any run
    tlapm PPSendProofs.tla                                # any proof

## The system

### Components, their state and how they interact

| Component | Source | State | Operations | Modules |
|---|---|---|---|---|
| Process-per-protocol stack, sending half | `Full Network Stack/PPprotocol.cpp` | a pipe per protocol, heap Messages, three mutexes, four counters, the global `remaddr` | `App*Func`, `*SendFunc`, `sendto`, main's polling loop | `PPSend`, abstract `FifoMux` |
| the same, receiving half | same | the one global `buf`, a pipe per protocol, four counters | `read_from_UDP`, `*RecvFunc` | `PPReceive` |
| Process-per-message stack | `Full Network Stack/PPM.cpp` | the pool's slots, one `buf`, one `remaddr`, five counters | applications' loops, `send_*`, `IN_sock_RecvFunc`, `deliver_*` | `PPM` |
| Slot pool | `Full Network Stack/threadpool.h` | a flag, a semaphore and a thread id per slot | `thread_avail`, `dispatch_thread`, `slave_function` | `ThreadPool`, and as used by PPM in `PPM` |
| Worker pool | `Header Files/Threadpool/Threadpool.h` | semaphores, task slots, one mutex, globals `k`, `free_sem_loc` | constructor, `worker_thread`, `thread_avail`, `dispatch_thread` | `WorkerPool`, abstract `SerialExecutor` |
| Message library | `message.h` (two identical copies) | a list of byte pointers and a length | both constructors, destructor, `msgAddHdr`, `msgStripHdr`, `msgSplit`, `msgJoin` | `Message`, abstract `ByteStrings` |
| Event scheduler | `Header Files/Eventscheduler/Eventscheduler.h` | a table of events, a thread per event | `eventSchedule`, `eventCancel`, `worker_thread` | `EventScheduler` |
| Chat coordinator and client | `Chat-Server App/client_coord.c`, `client.c` | table of sessions and the dialogue it is in; a client's place in its menu | start, join, exit; the coordinator's loop | `ChatSession` |
| SSL echo server and its clients | `SSL_Encry_Decryp/Server.c`, `Client.c` | select set, an SSL per descriptor, one line buffer | accept, handshake, echo, close | `SSLEcho` |
| Chat session server | `Chat-Server App/session_server.c` | – | – | not modelled: does not compile |
| TCP server and client | `TCP-Client_Server/*.txt` | – | – | not modelled: see below |

Both stacks prepend headers to a Message on the way down and strip them on the
way up: application (FTP, Telnet, RDP, DNSC), transport (TCP or UDP), IP,
Ethernet, then a UDP socket. In PPprotocol each protocol is two threads, one per
direction, and the layers are joined by pipes that carry a protocol id and a
*pointer* to the Message. In PPM the layers are functions: an application's own
thread sends, and each received message is delivered by a thread of the slot
pool. Both keep received bytes in one global buffer to which Messages only
point, and send to the address in a global that receiving overwrites. The header
libraries are also used by drivers of their own. Chat and SSL are separate
programs that talk over sockets.

### What is hard, and what would make it correct

* *Sending half.* Twelve threads, three mutexes for five shared pipes, writes
  that block with a mutex held, and a process that ends on counters which run
  ahead of the writes they count. Right if each Message is in one thread's
  hands at a time, is framed as the receiver strips it, keeps its application's
  order, and gets out unless the process ends.
* *Receiving half.* A datagram may replace the bytes a queued Message points to,
  even while a header is read. Right if each Message is accounted for once and is
  routed by its own headers. The second half of this is false; the properties
  say exactly when.
* *Process per message.* A delivery ends by becoming one more receiver, so slots
  are used up and ever more threads store into the same buffer, the same address
  and the same unguarded counters. Right, as far as it can be, if a message is
  routed by bytes that were there during its routing, is sent to the peer, is
  counted once, and is delivered or dropped but never stuck.
* *Slot pool.* A flag is read in one critical section and cleared in another,
  two calls have to agree, and either of two `pthread_create`s may fail. Right
  if a slot has one thread and every slot comes back.
* *Worker pool.* The mutex is locked by the dispatcher and unlocked by the
  worker; the choice of a slot is made before the lock; a worker learns its
  index from the constructor's loop counter. Right if the lock is handed on like
  a token, tasks run in order, once each, and no task lands where no worker is.
* *Message library.* The length is kept apart from the list and the operations
  trust the length. Right if the class behaves as byte strings do.
* *Event scheduler.* A table without a lock, places never given back, an index
  read through a dangling pointer, cancels that race timers. Right if each
  event is run once by its own thread, or cancelled.
* *Chat.* The coordinator takes any datagram for the answer to its last reply,
  half of the dialogues have no answer, nobody has a timeout, and a full table
  overwrites. Right if a client that is told it is connected is, and if everyone
  is answered.
* *SSL.* One thread does everything on blocking calls, with one buffer and
  descriptors that are reused while the ready set is a round old. Right if a
  client gets its own lines back and can hold up the others no longer than it
  must.

The full list of hazards, each at its line, is in `PROJECT.json`.

## Modules and the code

Names are the source's. A function is the disjunction of the steps between which
another thread can be seen to act; each step is an action with the code's guard.
Operators marked `Mutation:` are plausible bugs; the specification uses none of
them, and each is swapped in for a real definition to see that a property notices.
History variables, marked so where they are declared, record what the properties
speak of and guard nothing.

**Protocols** – the protocol ids, header sizes and which layer lies below which.

**PPSend** – a loop of an application thread is `BuildMessage`, which includes
the counter, and `WriteMessage`. A protocol thread's loop is `ReadUnit`, `AddHdr`
(with the lock), `WriteUnit`, `Unlock`; Ethernet's ends in `SendTo` or
`SendToFails`. A Message is one element of `msg`; a pipe holds pairs of id and
Message name, and blocks at `PipeCap`. `OverwriteRemaddr` is the only thing the
receiving half does to the sending half. `MainReturns` and `SendToFails` end the
process. Data bytes are abstracted to lengths, headers to records.
The steps that only print or convert are part of the step before them.
Two facts the code states nowhere are checked: that `AddHdr` can be one step,
because no other thread can reach the Message (`OneOwner`), and that a frame fits
the 200 bytes it is flattened into (`WireFraming`).

**FifoMux** – what the sending half promises: messages of an application come out
in the order they were submitted, each once, until the output closes.

**PPReceive** – `RecvFrom`, then `CopyField` for each routing field in any order
while other threads run, `NewMessage`, `WriteToIP`. The protocol threads are
`ReadUnit`, `StripHdr` (which reads `buf` as it is then), and `Demultiplex` or
`FallThrough`; application threads `Count`. Only the two header fields anything
routes by are kept; the transports' headers have one size, so there are two.
Datagrams are those `PPSend` builds, in any choice of applications: that is what
a link that loses, duplicates and reorders can leave of two senders' streams, and
since nothing numbers or acknowledges messages the receiver is the same whatever
the link did. So no module stands for the link. `until[d]` is the last datagram
that could be met in `buf` while d was being routed.

**PPM** – `SetRemaddr` is main. An application's loop (`AppThread`) is
`SendMessage`, the whole descent to `sendto` and so one step, since the Message is
its own and the one shared thing it reads is `remaddr`; then `LoadSent` and
`StoreSent`, the increment. `SendFails` ends the process. A receiver is
`RecvFrom`, `CopyField`, `NewMessage`, then `thread_avail` and `dispatch_thread`,
which look at one flag per step (`LookAt`), `Claim`, `Create`, or `Drop` the
message. A delivery is `deliver_Ethernet`/`deliver_IP`, `deliver_TCP` or
`deliver_UDP`, the application's `deliver_*` as `LoadCounter` and `StoreCounter`;
then the same thread is a receiver. `FreeSlot` is the slave, which can only act
when the delivery's thread has ended, unless two deliveries claimed one slot: then
it may join the wrong one or one already joined. `mixed[d]` are the datagrams
whose bytes d's Message can meet, `doubtful` the slots claimed twice, `raced` the
counters loaded between another's load and store.

**ThreadPool** – the pool by itself, with failing creates, which PPM leaves out. A
client is `thread_avail` and then `dispatch_thread` as in PPM.cpp: `LookAt`,
`Claim`, `CreateThread` or `CreateFails` and `RestoreFlag`, `CreateSlave` or
`SlaveFails`. The slave is `ReadId`, `Join`, `FreeSlot`. Joining a thread twice, or
none, is undefined: `JoinUndefined` returns at any time or never.

**WorkerPool** – `CreateWorker`/`NextWorker` are the constructor's loop; `Paced`
says whether its 1 ms sleep outlasts the start of a thread. `Scan` is one round of
`thread_avail`, `LockAndChoose` its end; `FillSlot` and `Post` are
`dispatch_thread`; `SemWait`, `RunTask`, `UnlockAfterTask` the worker.
**SerialExecutor** is what it promises: one task at a time, in order.

**Message** – one action per method; the loops are recursive functions. A pop
from an empty list is undefined and ends the behaviour. `msgSplit` and `msgJoin`
take a `Message&` and do not check that it is another object, so each has two
cases: `SplitApart` and `JoinOther` with another object, and `SplitIntoItself` and
`JoinToItself` with the object itself, whose loop then goes round one list
(`RotatedBack`, `RotatedFront`). `m.msgJoin(m)` keeps the bytes and doubles the
length; `m.msgSplit(m, n)` rotates the bytes and sets the length to `length - n`.
Both change nothing for an empty Message, and the split nothing for n = 0. The
history variable `misused` names the objects whose contents nobody can rely on:
those that were given to themselves with any other effect, split into while they
held bytes, used again after being joined to another, or joined or split with an
object that was misused. **ByteStrings** is the abstract class: an object is a
string, and the misused ones are `Unknown` (`GiveToItself`, `Split`, `Join`, `Spoil`).
Message's names that every module has (`MsgInit`, `MsgNext`, `MsgTypeOK`) bear its
own, so that one module of proofs can speak of it and of WorkerPool.

**EventScheduler** – `eventSchedule` is `Call`, `InUse`/`FoundUnused`/`NoneUnused`,
`Fill`, `Mark`, `ClearCancel`, `CreateTimer` or `CreateFails`, `Return`; the timer
thread is `ReadIndex`, `Select`, `LookAtCancel`, `CallFunction`. A thread that
starts after its creator returned (`late`) reads any index; an access past the
table or to a function never set ends the behaviour. Time is left out: timers
expire in any order. The return of the driver's main, which ends the process with
timers pending, is left out too.

**ChatSession** – a client is `StartSession` or `JoinSession` (type a name, send
it), `RecvStartValidity` (which answers "1" to a free name), `RecvJoinValidity`
(which answers nothing), `RecvSName`, `Exit`. The coordinator is `RecvSession` (is
the name in the table?), then, on whatever datagram comes next, `AddSession` if it
says "0" or "1" and `WrongAnswer` if not. It compares no sender. `Lose` drops a
datagram. Strings stand for themselves but for one conversion: the client passes
`recvfrom` the length of the name it sent, so a name of one character, "0" or "1",
is told from a reply only by its first byte (`Kept`). `crossed` are the names
whose dialogue a stranger's datagram ended or began, `overwritten` the names lost
to a full table, `ignored` the clients nobody will answer.

**SSLEcho** – a connection is one run of the client: `Connect`, `Agree` (its half of
the handshake), `SendLine`, of which only a part may arrive (`RestArrives`),
`Close` at any time. The server is `Select`, `Accept` or `AcceptPastEnd`,
`SSL_accept`, which blocks, then for each ready descriptor `ReadLine` and
`SSL_write`, or `CloseConn`, and `EndScan`. `ReadFails` and `WriteFails` end it.
`FDs` are the descriptors that fit `ssl_array`.

## The runs

| Run | Instance | Question and answer |
|---|---|---|
| `send_all` | 4 applications, 1 message each, pipes of 1 | Twelve threads: `OneOwner`, `WireFraming` and `LockDiscipline` hold. |
| `send_order` | 2 applications on 2 transports, 2 messages each, pipes of 2 | `ImplementsMux`: the stack implements `FifoMux`. `EventuallySent`: no deadlock through full pipes and held mutexes. |
| `recv_all` | 4 applications, 3 datagrams, pipes of 2 | What still holds of a buffer that is overwritten: `Accounting`, `RoutedByOverlapping` (a message is misrouted only by a datagram whose receipt began before it was routed), `CountedInOrder`, `EventuallySettled`. |
| `recv_misroute` | 2 datagrams, pipes of 1 | Finding: `RoutedByOwnHeader` fails. |
| `ppm` | 2 applications, 1 message each, 3 datagrams sent and received in all, 2 slots | `SentToPeer`, `RoutedByOverlapping`, `SlotsUsedUp` (at most as many deliveries as slots), `CountersExactUnlessRaced`, `EventuallySettled`: nothing is stuck behind a pool that is used up. |
| `pool` | 2 clients, 3 tasks each, 3 workers, 10 slots | `OneKeeper`, `SlotHasWorker`, `RunsSerially` (implements `SerialExecutor`), `EventuallyRun`. |
| `tpool` | 3 clients, 2 slots, 1 failing create | `OneThreadPerSlot` and `EventuallyFree`, each with its exceptions named. |
| `message` | 3 objects, 3 buffers, Messages of 2 bytes | `LengthExact`, `ImplementsStrings` (implements `ByteStrings`): only a misused Message can be wrong, only it is popped empty, and it spoils only those it is joined with or split into. Objects are permuted (`Symmetry`). |
| `events` | 2 clients, 3 events, 2 places, 1 late thread | `RunsOwn`, `CancelHonoured`, `EventuallyRun`. |
| `chat` | 2 clients, 2 requests each, names "abc", "xyz", "0", "1", a table of 2 rows of which 1 is taken, 1 lost datagram | `OneOutstanding` (replies are never taken for another request's), `TableUnlessCrossed`, `SessionsKept` (a session goes only when the table is full), `EventuallyAnswered` (a client waits for ever only if a datagram was lost or taken for another's). |
| `chat_crossed` | 2 clients, 1 request each | Finding: `ConnectedToListed` fails. |
| `ssl` | 3 connections, 2 descriptors, 2 lines each | `EchoesOwn` (a client gets its own lines back, in order), `EventuallyServed`. |

Where the code loses a race or is misused (two claims of one slot or of one place in
the event table, a crossed dialogue, a full table, a raced counter, a Message given
to itself), the property that names the hazard has that case as its exception: it
shows that nothing else goes wrong and how far the damage reaches, not that the case
does not occur. PROJECT.json says so at each such hazard.

Every passing run but `send_order` also checks the module's `TypeOK` (Message's is
`MsgTypeOK`).

**Bounds.** `N` of PPSend is 100 in the code. Order needs two
messages of an application and a rival; ownership and locking are broken, if at
all, by two messages at one layer, which four applications give. A pipe of one
unit makes every write block that can. Three datagrams are the fewest in which a
Message meets headers of two different later ones; in PPM they are one more than
the slots, so that slots are contended and used up, and the third is received by
a thread that has delivered the first or second. PPM's two applications use the
two transports, so that a mixture can be unroutable; `MaxTraffic` bounds what is
sent and received together. Two clients show every race of two calls; the slot
pool has three so that a slot is both contended and reused. The buffers of
`message` include a two-byte header whose reversal is not a buffer, so byte order
shows, and a Message of one byte can still be joined to itself. In `events` there is one event more than places. In `chat` the table is
full after one session, a name may look like an answer, and a second request lets
a late reply meet a new dialogue. In `ssl` descriptors are fewer than connections,
so that they are reused and run out, and a second line lets order show. `MaxFailures`, `MaxLate`, `MaxRecv`,
`MaxTraffic`, `MaxRequests`, `MaxLost`, `MaxLen`, `Lines` and `N` are bounds on
counters; `PipeCap`, `ThreadCount`, `Slots`, `threadCount`, `max_events`, `Rows`
and `FDs` are sizes of the program, at small values where they are not the
program's. The proofs have no bounds.

**Fairness.** Weak fairness of each thread's own steps: these are POSIX threads
on a preemptive system, none of them spins on another (except main), and a mutex
is held across one bounded section. It is weak, not strong, even for the lock
steps: in PPSend a rival must read a new unit to take the mutex again and units
are bounded, as offers are in WorkerPool. Nothing is assumed of main's polling
loops, which read plain ints other threads write; nor of the peer, `sendto`'s
success or the arrival of datagrams; nor of PPM's slaves; nor, in ThreadPool, of
tasks, since those of PPM.cpp never return; nor of an undefined join. WorkerPool
assumes that a task returns, and EventScheduler that `select` does. In ChatSession
the coordinator and the clients' receptions are fair and users need not type. In
SSLEcho only the server is: a client that never shakes hands or never sends the
rest of a line is a behaviour, and `EventuallyServed` names it (`<>[]HeldUp`).

**Deadlock** is checked in every run. The states in which a program rightly stops
are named disjuncts (`Ended`, `Idle`, `Finished`, `Quiet`, `Silent`, `Done`).

## What the runs found

1. `recv_misroute`: a Message points into `buf` (PPprotocol.cpp:299), so the layers
   strip the headers of a later datagram and the wrong application counts it. The
   comments at 362 and 405 say routing goes by the hlp field of what was read.
2. `chat_crossed`: the coordinator takes one client's session name for another's
   answer (client_coord.c:162), and that client's own answer "1" then for the name
   of a session. The client prints "You are connected to the session" (client.c:182)
   of a session that is not in the table.

Seen while modelling and not made into runs:

* `read_from_UDP` (PPprotocol.cpp:293) lets `recvfrom` store the sender's address in
  the `remaddr` that `EthernetSendFunc` sends to: after the first datagram,
  everything goes to the peer's OUT port, which main's prompt (1024) does not say.
  PPM has the same lines, and there `SentToPeer` says what remains true.
* In PPSend counters go up before the write (171, 176) and main returns on the
  counters (1287), so a last message counted may never be written.
  `EventuallySent` has the end of the process as its exception.
* Two callers of the slot pool's `dispatch_thread` can claim one slot (threadpool.h:83,
  88); then a pool runs more threads than its size (comment at 60). `OneThreadPerSlot` and
  `SlotsUsedUp` have these slots as their exception.
* In WorkerPool, `SlotHasWorker` needs more workers than clients. With as many
  clients as workers a client can scan past every worker's slot (all posted or
  about to be) to one without a worker, and the mutex is then never released; the
  driver, with one client, is safe. With `Paced` FALSE two workers can share an
  index.
* A received Message is made as long as `buf`, about 2 KB, and the applications
  flatten what is left of it into a much smaller array: PPprotocol's threads into
  140 or 200 bytes (472, 513, 555, 596), PPM's `deliver_` functions into 140 (452,
  470, 488). The models keep no data, so no property is about it; `WireFraming`
  is about the sending side, where a constant 100 bytes and four headers make 168
  of 200.
* `msgSplit` and `msgJoin` of message.h (96, 115) accept the object itself. No caller
  in the repository does that; `LengthExact` has it as an exception.

## What is proved

Eight modules hold theorems, one for each model but WorkerPool and Message, which
share `LibraryProofs`; all are about *every* value of the constants under the
ASSUMEs of the modules (sizes are numbers, applications are among the four, pipes
hold at least one unit, the worker pool has fewer workers than slots, the event
table is no longer than its arrays, the chat table starts with an empty row and no
session twice, "nobody" is not a client, buffers are byte strings and the values
that stand for no string are none). No fact about the code is assumed. Every safety
property that a passing run checks is proved, and so is every refinement. Only one
of them, `SlotHasWorker`, holds of some instances only, and the theorem names them.

**PPSendProofs** – for any set of applications, number of messages and pipe
capacity:
* `TypeCorrect`: `TypeOK`. It is not inductive alone, because a unit that is read
  must be one that was written; `TypeInv` adds that a busy thread's hand holds a
  unit (`HandOK`) and an application about to write has counted (`BuiltOK`).
* `LocksExclude`: `LockDiscipline`, which is inductive given `TypeInv`.
* `MessagesHaveOneOwner`: `OneOwner`. The set `Places(m)` is awkward to carry
  through a step, so the invariant `Owned` says the same with quantifiers: each
  counted message is somewhere (`Somewhere`), and no two places hold the same one
  (`Apart`). There is one lemma per action that moves a message, one for all that
  move none, and `OwnedIsOneOwner` leads back to `Places`.
* `WireFramingCorrect`: `WireFraming`, from `FrameInv`: what a Message holds is
  determined by where it is, so a layer's header is put before just those of the
  layers above. It needs `Owned`: nobody else writes to the Message meanwhile.
* `MuxRefined`: PPSend implements `FifoMux`. Each place has a distance to the wire
  (`Level` of the layer, hand before pipe, then the index in the pipe) and
  `OrderInv` says that of two messages of one application the older is always
  nearer (`Nearer`). So what reaches the wire is the next of its application, which
  is FifoMux's guard; `SendTo` is its output, the end of the process its close,
  everything else a stutter.
* `NeverAllWaiting`: the threads are never all kept waiting, by an empty or full
  pipe or a mutex, before everything counted is sent. `CanRun` writes their guards
  out. The argument goes up from the wire: Ethernet's thread writes to no pipe, so
  it waits only to read, its pipe is empty, the threads above it are not stuck
  writing, and so on; a thread waits for a mutex only if another of the layer holds
  it, and by `LockDiscipline` that one is about to write.

**PPReceiveProofs** – for any number of datagrams and pipe capacity. The inductive
invariant `IInv` is: the types; where each thread can stand and that it has a
Message exactly where it should (`StageInv`); each datagram in one place
(`UniqueInv`); Messages ahead in the pipes arrived earlier (`OrderInv`); how much
has been stripped of a Message, by where it is (`OffInv`); that `buf` holds the
newest datagram but for the fields still to be copied (`BufInv`); and that a
Message which took a branch did so by a header it could meet (`RouteInv`).
* `TypeCorrect`, `AccountingCorrect`, `CountedInOrderCorrect` and
  `RoutedByOverlappingCorrect`. `RouteInv` follows from `BufInv` only because the
  offset of a Message is known where it is (`OffInv`) and no datagram is older
  than the Messages ahead of it (`OrderInv`).
* `NeverAllWaiting`: the threads are never all kept waiting before every datagram
  received is counted or dropped. The argument goes down from the applications,
  which only read; overwritten headers can send a Message to the wrong pipe, but
  only ever to one nearer the applications, so the waits form no cycle.

**PPMProofs** – for any applications, messages, datagrams and slots:
* `TypeCorrect`: `TypeOK`, with who has which datagram in hand (`HandInv`: a
  receiver's datagram is its alone and no thread delivers it yet) and which stages
  a delivery has an application in (`DeliveryInv`).
* `SentToPeerCorrect`: `SentToPeer`, from `SendInv`: main fills `remaddr` before it
  creates a sender, and only a datagram that has arrived can change it.
* `SlotsUsedUpCorrect`: `SlotsUsedUp`, from `SlotInv`: a slot not in doubt belongs
  to at most one delivery that is not joined, and only one that has ended without
  an application is.
* `RoutedByOverlappingCorrect`: `RoutedByOverlapping`, from `MixInv`: for each
  routing field that its own receiver has filled, `buf` holds the value of a
  datagram in `mixed[d]`, however many receivers are storing.
* `CountersExactCorrect`: `CountersExactUnlessRaced`, from `DeliverCountInv` and
  `SendCountInv`: what a thread has loaded is at most what has passed, and with no
  race it is the counter and only one thread has loaded it. The one counter that
  all applications use for what they send needs `SentInv`, that each `(application,
  number)` is sent once.
* `NoneForgottenCorrect`: every datagram received has been counted, dropped or
  returned from, or the thread that has it can go on by itself (`NoneForgotten`):
  from `HeldInv`, that what no thread delivers yet is in a receiver's hand. A pool
  used up makes receivers drop, never wait.

**ThreadPoolProofs** – for any numbers of clients, tasks, slots and failures:
`TypeCorrect`, `OneThreadPerSlotCorrect` and `NeverStranded`. The second claim is not inductive because a
slave frees a slot on the strength of an id it read earlier. `IInv` adds that a
task holds its slot from the claim to the slave's last step (`HoldInv`, at most one
holder, and a free slot has none), that the id stored for a slot is of a thread
created there (`IdInv`) and that the slave of a slot not in doubt joins its own
(`SlaveInv`); `ProgressInv` and `ClientInv` say how far a task has come.
`NeverStranded`: a claimed slot, unless in doubt or without a slave, has a task
running in it or a thread that can go on to free it (`NoSlotStranded`), from
`ClaimInv`, that somebody has the claim, and `SlaveInv`, by which the slave waits
for nothing but that task.

**EventSchedulerProofs** – for any clients, quotas, table and late threads:
* `TypeCorrect`: `TypeOK`, with `ClientInv` and `EventInv`.
* `CancelCorrect`: `CancelHonoured`. A place not shared belongs to one event from
  `Fill` on (`PlaceInv`), a thread that is not late has its index right
  (`IndexInv`), so a cancel stays in that place until the thread looks
  (`CancelInv`).
* `RunsOwnCorrect`: `RunsOwn`, from `RanInv` and, for its second half, from a
  counting argument: every marked place holds another event (`Distinct`, `Filled`),
  a client that found none unused is scheduling one more, and a function from
  0..max_events one-to-one into the events scheduled so far makes them too many
  (`PastTooMany`).

**LibraryProofs**, first half – the worker pool, for any numbers of clients, tasks,
workers and slots, paced or not. The invariant `Inv` is four parts: the types
(`Types`); what a client in a call has (`InCall`); that among clients in a call,
posted semaphores and busy workers there is exactly one while the mutex is locked
and none while it is free (`OneToken`); and that at most the last task dispatched
has not run, and then it is the one in the slot of whoever holds the token
(`OneOutstanding`).
* `TypeCorrect`: `TypeOK`, in particular no semaphore passes 1.
* `LockIsToken`: `OneKeeper`, from `OneToken`.
* `RunsOneAtATime`: `RunsSerially`, the refinement of `SerialExecutor`: `Post` maps
  to `Accept`, `RunTask` to `Finish`, every other step to a stutter.
* `MoreWorkersThanClients`: `SlotHasWorker`, for finitely many clients, fewer than
  workers, and a constructor that is `Paced`; what happens otherwise is said above.
  The scan holds no lock, so the argument counts. A client gets past slot i only
  while it is posted; by `OneToken` nothing else is, and the client that posted it is
  back at the start and cannot pass it too. So each slot costs a client:
  `FewGetFar` says that if any client is at slot i or beyond, there are at most as
  many such clients as there are clients, less i - 1, and one fewer while slot i is
  posted. With `ChosenSlot` (who has the mutex fills the slot it chose) and
  `OwnIndex` (each worker reads its own index) the slot is below the number of
  clients and has its worker.
* `MoreSlotsThanClients`: by the same count no scan comes to the end of the slots
  (`NotTurnedAway`), so no client is turned away, paced or not.
* `NeverAllWaiting`, under the hypotheses of `MoreWorkersThanClients`: constructor,
  workers and clients are never all kept waiting before every task has run. Who
  keeps the mutex can go on, because what it posted is waited for by a worker
  (`PostServed`); and a task offered is in its client's hands or dispatched
  (`NoneDropped`), so when nobody keeps the mutex all have been run.

**LibraryProofs**, second half – the Message class, for any objects, bytes, buffers
and bound. A recursive function is *some* function that satisfies its
equation, so for each loop one is named that does and any other is shown to have
the same values round by round (`RoundByRound`: an induction over a set, which the
prover can do, unlike one over a predicate). That gives what each loop computes:
`PushedIs`, `MovedFrontIs`, `MovedBackIs`, for every length. Where a Message is given
to itself the loop may go round more often than the list is long; that a function
satisfying the equation exists is then shown by induction on the number of rounds
(`TurnsExist`), and `RotatedBackIs` and `RotatedFrontIs` say that the bytes stay, and
that one full turn leaves the list as it was.
* `MessageTypes` and `LengthsExact`: `MsgTypeOK` and `LengthExact`, which together are
  inductive (`MessageInv`).
* `MessagesAreStrings`: `ImplementsStrings`, the refinement of `ByteStrings`, one
  lemma per operation (`OwnStep`, `StripStep`, `SplitApartStep`, `JoinOtherStep`, and
  `SplitIntoItselfStep` and `JoinToItselfStep` for an object given to itself): a
  misused object is `Unknown` to ByteStrings, every other is its string.

**ChatSessionProofs** – for any clients, names, table and losses. `ClientInv` says of
each client that it has at most one datagram under way, exactly while it waits and
is not ignored (`OutAt`), what that datagram says (`SaysAt`), and that while it has
been told its name is free the coordinator's dialogue is about that name or was
crossed (`DialogueAt`); `RowInv` is that `flag_empty_row`, which the code leaves
unset, is only used when it has been set.
* `TypeCorrect`, `OneOutstandingCorrect`, `TableCorrect` (`TableUnlessCrossed`) and
  `SessionsKeptCorrect`, an action property: the row filled is an empty one if
  there is one, which needs that a set of rows has a least.

**SSLEchoProofs** – for any connections, lines and descriptors: `TypeCorrect` and
`EchoesOwnCorrect`, from `StreamInv` (of each connection at most one line is out,
and it is on the network, arrived or in the buffer) and `ServerInv` (what is
selected is what is open, and its SSL is of the connection open on it).

`StandsStill`: the thread is kept waiting only when everything is served, the
server has ended or left `ssl_array`, or one client that is still there has to
shake hands or send the rest of a line (`HeldUpBy`). So the exceptions
of `EventuallyServed` are all there are. It needs where each connection is
(`PlaceInv`: in the backlog or on one descriptor while its client is there, and
open until what arrived is read) and that the descriptors still to look at are
ready although `select` was a while ago (`ReadyInv`): else the server would wait in
a read of a connection with nothing to say.

**Only model-checked.** Everything temporal under fairness (`EventuallySent`,
`EventuallySettled`, `EventuallyRun`, `EventuallyFree`, `EventuallyAnswered`,
`EventuallyServed`), which the prover cannot do. What it can do of them is the
deadlock half: `NeverAllWaiting`, `StandsStill`, `NoneForgottenCorrect` and
`NeverStranded` show that somebody can go on; that he does, by fairness, is TLC's.
`ENABLED` is out of reach too, so these theorems write the guards out; that the
guards are when the threads' actions are enabled was checked with TLC on the runs'
instances.

## What is left out

* `session_server.c` does not compile at this commit and no program starts it.
* The TCP server calls `recv` on its listening socket (tcpserver.txt:97), which
  fails at once, so it never reads a choice; there is nothing after that to model.
* The SSL `Client.c` does not compile at this commit either (`sl`, line 169, is
  undeclared). The connections of SSLEcho do what its main would do.
* Certificates, the handshake's messages and the rest of OpenSSL: a handshake
  succeeds if both sides come to it, a read gives one record.
* Session names of eight characters and more, which the client refuses; a user who
  types no number; the text of menus.
* Default constructors and destructors of the pools and the scheduler: the former
  construct a temporary or the default size, the latter free nothing that is used.
* In PPReceive and PPM, lengths: each received Message is 2048 bytes long whatever
  arrived. The models keep offsets from the front only, which is what routing
  depends on.
* In PPSend, the data bytes: each iteration of an application writes the same
  bytes to the same stack array. FTP's `snprintf` of a longer text into an 8-byte
  field is harmless since the field written after it is the one it spills into.
* In PPM, failing creates (ThreadPool has them) and the rest of the headers' fields.
* Durations: the sleeps that are to let a thread start are `Paced` and `late`.
* The bodies of tasks, message text, printing, arguments and socket set-up.

## Plan

What remains, in order of what it would add:

1. PPM with ThreadPool's failing creates, so that a delivery can be lost between
   claim and thread; today the two models share only the code they translate.
2. The liveness properties on larger instances, with symmetric clients.
3. The length of received Messages, from `BUFSIZE` to the array they are flattened
   into, once the stack's data are kept.
