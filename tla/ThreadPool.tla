------------------------------ MODULE ThreadPool ------------------------------
(***************************************************************************)
(* The thread pool of "Full Network Stack/threadpool.h", which the         *)
(* process-per-message stack dispatches to.  It keeps no threads: a slot   *)
(* is a flag and a thread id.  dispatch_thread claims a free slot, creates *)
(* a thread for the task, and a second one, the slave, that joins the      *)
(* first and sets the flag again.                                          *)
(*                                                                         *)
(* Each access to a flag is between a sem_wait and a sem_post of the       *)
(* slot's own semaphore and so atomic; nothing joins two accesses.         *)
(*                                                                         *)
(* A client calls thread_avail and, if that is true, dispatch_thread, as   *)
(* PPM.cpp does, whose deliver functions end by becoming clients too.      *)
(***************************************************************************)
EXTENDS Naturals, FiniteSets

CONSTANTS Clients,      \* the threads that dispatch
          N,            \* tasks each client offers (bound)
          threadCount,  \* slots in the pool
          MaxFailures   \* calls of pthread_create that may fail (bound)

ASSUME NAssumption     == N \in Nat
ASSUME CountAssumption == threadCount \in Nat
ASSUME FailAssumption  == MaxFailures \in Nat

Slots == 0..(threadCount - 1)
Tasks == Clients \X (1..N)
NoThread == << >>       \* a thread id that names no thread
NoSlot   == threadCount

VARIABLES status_flags, \* status_flags[i]: TRUE while slot i is free
          pool,         \* pool[i]: the id stored for slot i; a task is its thread's id
          offered,      \* offered[c]: how many tasks c has offered
          cstate,       \* cstate[c]: where c stands in the two calls
          i,            \* i[c]: the loop index of the call c is in
          slot,         \* slot[t]: the slot claimed for t, or NoSlot
          running,      \* tasks whose thread has been created and has not ended
          ended,        \* tasks whose thread has ended
          failures,     \* calls of pthread_create that have failed
          dropped,      \* tasks dispatch_thread found no slot for
          slave,        \* slave[t]: where t's slave stands
          target,       \* target[t]: the thread id t's slave joins
          doubtful,     \* history: slots claimed twice, or whose create failed
          lost          \* history: slots whose slave could not be created

clientVars  == <<offered, cstate, i>>
threadVars  == <<running, ended>>
slaveVars   == <<slave, target>>
historyVars == <<doubtful, lost>>
vars == <<status_flags, pool, clientVars, slot, threadVars, failures, dropped, slaveVars, historyVars>>

Task(c) == <<c, offered[c]>>

Init == /\ status_flags = [s \in Slots |-> TRUE]
        /\ pool = [s \in Slots |-> NoThread]
        /\ offered = [c \in Clients |-> 0]
        /\ cstate = [c \in Clients |-> "next"]
        /\ i = [c \in Clients |-> 0]
        /\ slot = [t \in Tasks |-> NoSlot]
        /\ running = {} /\ ended = {} /\ dropped = {} /\ failures = 0
        /\ slave = [t \in Tasks |-> "none"]
        /\ target = [t \in Tasks |-> NoThread]
        /\ doubtful = {} /\ lost = {}

\* c leaves the step it is in for the next one, with loop index n.
Goto(c, to, n) == /\ cstate' = [cstate EXCEPT ![c] = to]
                  /\ i' = [i EXCEPT ![c] = n]
                  /\ UNCHANGED offered

-----------------------------------------------------------------------------
Call(c) ==
  /\ cstate[c] = "next"
  /\ offered[c] < N
  /\ offered' = [offered EXCEPT ![c] = @ + 1]
  /\ cstate' = [cstate EXCEPT ![c] = "avail"]
  /\ i' = [i EXCEPT ![c] = 0]
  /\ UNCHANGED <<status_flags, pool, slot, threadVars, dropped, slaveVars, historyVars, failures>>

\* A round of thread_avail's loop.  False ends the client's turn: PPM.cpp says
\* so on the terminal and forgets the task.
thread_avail(c) ==
  /\ cstate[c] = "avail"
  /\ IF i[c] = threadCount THEN Goto(c, "next", 0)
     ELSE IF status_flags[i[c]] THEN Goto(c, "look", 0)
     ELSE Goto(c, "avail", i[c] + 1)
  /\ UNCHANGED <<status_flags, pool, slot, threadVars, dropped, slaveVars, historyVars, failures>>

\* dispatch_thread reads the flag of a slot, under its semaphore.
LookAt(c) ==
  /\ cstate[c] = "look"
  /\ i[c] \in Slots
  /\ IF status_flags[i[c]] THEN Goto(c, "claim", i[c]) ELSE Goto(c, "look", i[c] + 1)
  /\ UNCHANGED <<status_flags, pool, slot, threadVars, dropped, slaveVars, historyVars, failures>>

\* No slot: dispatch_thread returns 0 as it always does.
Refuse(c) ==
  /\ cstate[c] = "look"
  /\ i[c] = threadCount
  /\ dropped' = dropped \cup {Task(c)}
  /\ Goto(c, "next", 0)
  /\ UNCHANGED <<status_flags, pool, slot, threadVars, slaveVars, historyVars, failures>>

\* It clears the flag, under the semaphore again.
Claim(c) ==
  /\ cstate[c] = "claim"
  /\ status_flags' = [status_flags EXCEPT ![i[c]] = FALSE]
  /\ slot' = [slot EXCEPT ![Task(c)] = i[c]]
  /\ doubtful' = IF status_flags[i[c]] THEN doubtful ELSE doubtful \cup {i[c]}
  /\ Goto(c, "create", i[c])
  /\ UNCHANGED <<pool, threadVars, dropped, slaveVars, lost, failures>>

CreateThread(c) ==
  /\ cstate[c] = "create"
  /\ running' = running \cup {Task(c)}
  /\ pool' = [pool EXCEPT ![i[c]] = Task(c)]
  /\ Goto(c, "slave", i[c])
  /\ UNCHANGED <<status_flags, slot, ended, dropped, slaveVars, historyVars, failures>>

\* A pthread_create that fails leaves the id unspecified.
CreateFails(c) ==
  /\ failures < MaxFailures
  /\ failures' = failures + 1
  /\ cstate[c] = "create"
  /\ \E id \in {pool[i[c]], NoThread} : pool' = [pool EXCEPT ![i[c]] = id]
  /\ doubtful' = doubtful \cup {i[c]}
  /\ Goto(c, "restore", i[c])
  /\ UNCHANGED <<status_flags, slot, threadVars, dropped, slaveVars, lost>>

\* The flag is set again, and the slave is created all the same.
RestoreFlag(c) ==
  /\ cstate[c] = "restore"
  /\ status_flags' = [status_flags EXCEPT ![i[c]] = TRUE]
  /\ Goto(c, "slave", i[c])
  /\ UNCHANGED <<pool, slot, threadVars, dropped, slaveVars, historyVars, failures>>

\* Mutation: the break after the slave is forgotten.
CreateSlaveNoBreak(c) ==
  /\ cstate[c] = "slave"
  /\ slave' = [slave EXCEPT ![Task(c)] = "born"]
  /\ Goto(c, "look", i[c] + 1)
  /\ UNCHANGED <<status_flags, pool, slot, threadVars, dropped, target, historyVars, failures>>

CreateSlave(c) ==
  /\ cstate[c] = "slave"
  /\ slave' = [slave EXCEPT ![Task(c)] = "born"]
  /\ Goto(c, "next", 0)
  /\ UNCHANGED <<status_flags, pool, slot, threadVars, dropped, target, historyVars, failures>>

\* Nobody is left to set the flag.
SlaveFails(c) ==
  /\ failures < MaxFailures
  /\ failures' = failures + 1
  /\ cstate[c] = "slave"
  /\ lost' = lost \cup {i[c]}
  /\ Goto(c, "next", 0)
  /\ UNCHANGED <<status_flags, pool, slot, threadVars, dropped, slaveVars, doubtful>>

dispatch_thread(c) == \/ LookAt(c) \/ Refuse(c) \/ Claim(c)
                      \/ CreateThread(c) \/ CreateFails(c) \/ RestoreFlag(c)
                      \/ CreateSlave(c) \/ SlaveFails(c)
-----------------------------------------------------------------------------
(* The threads the pool creates.                                           *)

\* The task's function returns.
EndTask(t) ==
  /\ t \in running
  /\ running' = running \ {t}
  /\ ended' = ended \cup {t}
  /\ UNCHANGED <<status_flags, pool, clientVars, slot, dropped, slaveVars, historyVars, failures>>

\* The slave reads the id from the pool, not from the thread that made it.
ReadId(t) ==
  /\ slave[t] = "born"
  /\ target' = [target EXCEPT ![t] = pool[slot[t]]]
  /\ slave' = [slave EXCEPT ![t] = "join"]
  /\ UNCHANGED <<status_flags, pool, clientVars, slot, threadVars, dropped, historyVars, failures>>

\* Mutation: the join not waited for.
JoinAtOnce(t) ==
  /\ slave[t] = "join"
  /\ slave' = [slave EXCEPT ![t] = "free"]
  /\ UNCHANGED <<status_flags, pool, clientVars, slot, threadVars, dropped, target, historyVars, failures>>

Join(t) ==
  /\ slave[t] = "join"
  /\ target[t] \in ended
  /\ slave' = [slave EXCEPT ![t] = "free"]
  /\ UNCHANGED <<status_flags, pool, clientVars, slot, threadVars, dropped, target, historyVars, failures>>

\* Joining what is no thread, or what another slave joins, is undefined: here
\* it may return at any time, or never.
JoinUndefined(t) ==
  /\ slave[t] = "join"
  /\ \/ target[t] = NoThread
     \/ \E u \in Tasks \ {t} : slave[u] \in {"join", "free", "done"} /\ target[u] = target[t]
  /\ slave' = [slave EXCEPT ![t] = "free"]
  /\ UNCHANGED <<status_flags, pool, clientVars, slot, threadVars, dropped, target, historyVars, failures>>

\* Mutation: the flag not set when the thread has been joined.
KeepSlot(t) ==
  /\ slave[t] = "free"
  /\ slave' = [slave EXCEPT ![t] = "done"]
  /\ UNCHANGED <<status_flags, pool, clientVars, slot, threadVars, dropped, target, historyVars, failures>>

FreeSlot(t) ==
  /\ slave[t] = "free"
  /\ status_flags' = [status_flags EXCEPT ![slot[t]] = TRUE]
  /\ slave' = [slave EXCEPT ![t] = "done"]
  /\ UNCHANGED <<pool, clientVars, slot, threadVars, dropped, target, historyVars, failures>>

slave_function(t) == ReadId(t) \/ Join(t) \/ JoinUndefined(t) \/ FreeSlot(t)

-----------------------------------------------------------------------------
\* Every client has offered its tasks and every thread has ended.
Finished == /\ \A c \in Clients : cstate[c] = "next" /\ offered[c] = N
            /\ running = {}
            /\ \A t \in Tasks : slave[t] \in {"none", "done"}
            /\ UNCHANGED vars

Next == \/ \E c \in Clients : Call(c) \/ thread_avail(c) \/ dispatch_thread(c)
        \/ \E t \in Tasks : EndTask(t) \/ slave_function(t)
        \/ Finished

Spec == Init /\ [][Next]_vars

(* Threads that can run are eventually run.  Nothing is assumed of a task:  *)
(* those of PPM.cpp never return.  An undefined join may never return.     *)
Fairness == /\ \A c \in Clients : WF_vars(thread_avail(c) \/ dispatch_thread(c))
            /\ \A t \in Tasks : WF_vars(ReadId(t) \/ Join(t) \/ FreeSlot(t))

FairSpec == Spec /\ Fairness

-----------------------------------------------------------------------------
CStates == {"next", "avail", "look", "claim", "create", "restore", "slave"}

TypeOK == /\ status_flags \in [Slots -> BOOLEAN]
          /\ pool \in [Slots -> Tasks \cup {NoThread}]
          /\ offered \in [Clients -> 0..N]
          /\ cstate \in [Clients -> CStates]
          /\ i \in [Clients -> 0..threadCount]
          /\ slot \in [Tasks -> 0..threadCount]
          /\ running \subseteq Tasks
          /\ ended \subseteq Tasks \ running
          /\ dropped \subseteq Tasks \ (running \cup ended)
          /\ failures \in 0..MaxFailures
          /\ slave \in [Tasks -> {"none", "born", "join", "free", "done"}]
          /\ target \in [Tasks -> Tasks \cup {NoThread}]
          /\ doubtful \subseteq Slots
          /\ lost \subseteq Slots

RunningIn(s) == {t \in running : slot[t] = s}

\* A slot runs one thread at a time and is free only when that has ended,
\* unless two clients claimed it at once or a create failed in it: the slave
\* of an earlier task never frees the slot under a later one.
OneThreadPerSlot ==
  \A s \in Slots \ doubtful : /\ \A t, u \in RunningIn(s) : t = u
                              /\ status_flags[s] => RunningIn(s) = {}

\* No slot stays claimed for ever with no task running in it, unless its state
\* is in doubt or the slave that was to free it does not exist.
EventuallyFree ==
  \A s \in Slots : []<>(status_flags[s] \/ RunningIn(s) # {} \/ s \in doubtful \cup lost)
=============================================================================
