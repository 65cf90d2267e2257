------------------------------ MODULE WorkerPool ------------------------------
(***************************************************************************)
(* The worker pool of "Header Files/Threadpool/Threadpool.h": a fixed      *)
(* number of threads, each waiting on a semaphore of its own, a slot per    *)
(* semaphore for the task, and one mutex.  thread_avail takes the mutex    *)
(* and leaves it locked; the worker releases it when the task has run.     *)
(*                                                                         *)
(* A client calls thread_avail and, if that returns 1, dispatch_thread, as *)
(* driver1.cc does.  driver1.cc has one client; nothing in the class keeps *)
(* several from calling it.                                                *)
(***************************************************************************)
EXTENDS Naturals, Sequences

CONSTANTS Clients,      \* the threads that dispatch
          N,            \* tasks each client offers (bound)
          ThreadCount,  \* the constructor's argument
          Slots,        \* length of the semaphore and slot arrays (10)
          Paced         \* TRUE: the constructor's usleep outlasts the start of
                        \* the thread just created; FALSE: no such luck

ASSUME NAssumption     == N \in Nat
ASSUME CountAssumption == ThreadCount \in Nat /\ Slots \in Nat /\ ThreadCount < Slots
ASSUME PacedAssumption == Paced \in BOOLEAN

Workers == 0..(ThreadCount - 1)     \* the threads, in order of creation
Indexes == 0..(Slots - 1)
Tasks   == Clients \X (1..N)        \* task <<c, i>>: the i-th client c offers

VARIABLES k,            \* the global loop counter the workers' index comes from
          wstate,       \* wstate[w]: "none", "born", "idle", "running", "unlock"
          in,           \* in[w]: the index w has read
          semaphore,    \* semaphore[j]: its value
          k1,           \* k1[j]: the task in slot j
          lock,         \* TRUE while the mutex is locked
          free_sem_loc, \* the slot thread_avail chose
          offered,      \* offered[c]: how many tasks c has offered
          cstate,       \* cstate[c]: where c stands in the two calls
          j,            \* j[c]: c's scan index in thread_avail
          dispatched,   \* history: tasks dispatched, oldest first
          ran           \* history: tasks run, oldest first

poolVars   == <<wstate, in, semaphore, k1>>
clientVars == <<offered, cstate, j>>
vars == <<k, poolVars, lock, free_sem_loc, clientVars, dispatched, ran>>

NoTask == << >>

Init == /\ k = 0
        /\ wstate = [w \in Workers |-> "none"]
        /\ in = [w \in Workers |-> 0]
        /\ semaphore = [i \in Indexes |-> 0]
        /\ k1 = [i \in Indexes |-> NoTask]
        /\ lock = FALSE
        /\ free_sem_loc = 0
        /\ offered = [c \in Clients |-> 0]
        /\ cstate = [c \in Clients |-> "next"]
        /\ j = [c \in Clients |-> 0]
        /\ dispatched = << >>
        /\ ran = << >>

-----------------------------------------------------------------------------
(* The constructor's loop and the start of the workers.                    *)

\* pthread_create hands the new thread the address of k.
CreateWorker ==
  /\ k \in Workers
  /\ wstate[k] = "none"
  /\ wstate' = [wstate EXCEPT ![k] = "born"]
  /\ UNCHANGED <<k, in, semaphore, k1, lock, free_sem_loc, clientVars, dispatched, ran>>

\* The loop goes round after usleep(1000).
NextWorker ==
  /\ k \in Workers
  /\ wstate[k] # "none"
  /\ Paced => wstate[k] # "born"
  /\ k' = k + 1
  /\ UNCHANGED <<poolVars, lock, free_sem_loc, clientVars, dispatched, ran>>

Constructed == k = ThreadCount

\* Mutation: the constructor's loop has already gone round.
ReadIndexLate(w) ==
  /\ wstate[w] = "born"
  /\ in' = [in EXCEPT ![w] = k + 1]
  /\ wstate' = [wstate EXCEPT ![w] = "idle"]
  /\ UNCHANGED <<k, semaphore, k1, lock, free_sem_loc, clientVars, dispatched, ran>>

\* A worker takes its index from k, whatever it is by now.
ReadIndex(w) ==
  /\ wstate[w] = "born"
  /\ in' = [in EXCEPT ![w] = k]
  /\ wstate' = [wstate EXCEPT ![w] = "idle"]
  /\ UNCHANGED <<k, semaphore, k1, lock, free_sem_loc, clientVars, dispatched, ran>>

ThreadPool == CreateWorker \/ NextWorker

-----------------------------------------------------------------------------
(* The workers' loop.                                                      *)

\* Mutation: the mutex released before the task instead of after it.
SemWaitAndUnlock(w) ==
  /\ wstate[w] = "idle"
  /\ semaphore[in[w]] > 0
  /\ semaphore' = [semaphore EXCEPT ![in[w]] = @ - 1]
  /\ lock' = FALSE
  /\ wstate' = [wstate EXCEPT ![w] = "running"]
  /\ UNCHANGED <<k, in, k1, free_sem_loc, clientVars, dispatched, ran>>

SemWait(w) ==
  /\ wstate[w] = "idle"
  /\ semaphore[in[w]] > 0
  /\ semaphore' = [semaphore EXCEPT ![in[w]] = @ - 1]
  /\ wstate' = [wstate EXCEPT ![w] = "running"]
  /\ UNCHANGED <<k, in, k1, lock, free_sem_loc, clientVars, dispatched, ran>>

\* The task runs to its end; its slot keeps its address.
RunTask(w) ==
  /\ wstate[w] = "running"
  /\ ran' = Append(ran, k1[in[w]])
  /\ wstate' = [wstate EXCEPT ![w] = "unlock"]
  /\ UNCHANGED <<k, in, semaphore, k1, lock, free_sem_loc, clientVars, dispatched>>

\* Mutation: the unlock forgotten.
NoUnlockAfterTask(w) ==
  /\ wstate[w] = "unlock"
  /\ wstate' = [wstate EXCEPT ![w] = "idle"]
  /\ UNCHANGED <<k, in, semaphore, k1, lock, free_sem_loc, clientVars, dispatched, ran>>

UnlockAfterTask(w) ==
  /\ wstate[w] = "unlock"
  /\ lock' = FALSE
  /\ wstate' = [wstate EXCEPT ![w] = "idle"]
  /\ UNCHANGED <<k, in, semaphore, k1, free_sem_loc, clientVars, dispatched, ran>>

worker_thread(w) == ReadIndex(w) \/ SemWait(w) \/ RunTask(w) \/ UnlockAfterTask(w)

-----------------------------------------------------------------------------
(* A client, one task after another.                                       *)

Call(c) ==
  /\ Constructed
  /\ cstate[c] = "next"
  /\ offered[c] < N
  /\ offered' = [offered EXCEPT ![c] = @ + 1]
  /\ j' = [j EXCEPT ![c] = 0]
  /\ cstate' = [cstate EXCEPT ![c] = "scan"]
  /\ UNCHANGED <<k, poolVars, lock, free_sem_loc, dispatched, ran>>

\* One round of thread_avail's loop, which holds no lock: the first semaphore
\* seen at 0 is chosen; past the last one it returns 0 and the task is dropped.
Scan(c) ==
  LET past == j[c] = Slots
      free == ~ past /\ semaphore[j[c]] = 0
  IN /\ cstate[c] = "scan"
     /\ cstate' = [cstate EXCEPT ![c] = IF past THEN "next" ELSE IF free THEN "lock" ELSE @]
     /\ j' = [j EXCEPT ![c] = IF past \/ free THEN @ ELSE @ + 1]
     /\ UNCHANGED <<k, poolVars, lock, free_sem_loc, offered, dispatched, ran>>

\* Mutation: the mutex not taken.
ChooseWithoutLock(c) ==
  /\ cstate[c] = "lock"
  /\ free_sem_loc' = j[c]
  /\ cstate' = [cstate EXCEPT ![c] = "fill"]
  /\ UNCHANGED <<k, poolVars, lock, offered, j, dispatched, ran>>

\* thread_avail takes the mutex, notes the slot and returns 1 with it locked.
LockAndChoose(c) ==
  /\ cstate[c] = "lock"
  /\ ~ lock
  /\ lock' = TRUE
  /\ free_sem_loc' = j[c]
  /\ cstate' = [cstate EXCEPT ![c] = "fill"]
  /\ UNCHANGED <<k, poolVars, offered, j, dispatched, ran>>

thread_avail(c) == Scan(c) \/ LockAndChoose(c)

FillSlot(c) ==
  /\ cstate[c] = "fill"
  /\ k1' = [k1 EXCEPT ![free_sem_loc] = <<c, offered[c]>>]
  /\ cstate' = [cstate EXCEPT ![c] = "post"]
  /\ UNCHANGED <<k, wstate, in, semaphore, lock, free_sem_loc, offered, j, dispatched, ran>>

Post(c) ==
  /\ cstate[c] = "post"
  /\ semaphore' = [semaphore EXCEPT ![free_sem_loc] = @ + 1]
  /\ dispatched' = Append(dispatched, <<c, offered[c]>>)
  /\ cstate' = [cstate EXCEPT ![c] = "next"]
  /\ UNCHANGED <<k, wstate, in, k1, lock, free_sem_loc, offered, j, ran>>

dispatch_thread(c) == FillSlot(c) \/ Post(c)

-----------------------------------------------------------------------------
\* Every client has offered all its tasks and the pool is at rest.
Finished == /\ Constructed
            /\ \A c \in Clients : cstate[c] = "next" /\ offered[c] = N
            /\ \A w \in Workers : wstate[w] = "idle"
            /\ \A i \in Indexes : semaphore[i] = 0
            /\ UNCHANGED vars

Next == \/ ThreadPool
        \/ \E w \in Workers : worker_thread(w)
        \/ \E c \in Clients : Call(c) \/ thread_avail(c) \/ dispatch_thread(c)
        \/ Finished

Spec == Init /\ [][Next]_vars

(* Threads that can run are eventually run.  A client that waits for the   *)
(* mutex may be passed over by another, but only while the other has tasks *)
(* left to offer.                                                          *)
Fairness == /\ WF_vars(ThreadPool)
            /\ \A w \in Workers : WF_vars(worker_thread(w))
            /\ \A c \in Clients : WF_vars(Call(c) \/ thread_avail(c) \/ dispatch_thread(c))

FairSpec == Spec /\ Fairness

-----------------------------------------------------------------------------
TypeOK == /\ k \in 0..ThreadCount
          /\ wstate \in [Workers -> {"none", "born", "idle", "running", "unlock"}]
          /\ in \in [Workers -> 0..ThreadCount]
          /\ semaphore \in [Indexes -> 0..1]
          /\ k1 \in [Indexes -> Tasks \cup {NoTask}]
          /\ lock \in BOOLEAN
          /\ free_sem_loc \in Indexes
          /\ offered \in [Clients -> 0..N]
          /\ cstate \in [Clients -> {"next", "scan", "lock", "fill", "post"}]
          /\ j \in [Clients -> 0..Slots]
          /\ dispatched \in Seq(Tasks)
          /\ ran \in Seq(Tasks)

\* Who keeps the mutex locked: a client between thread_avail's return and its
\* post, a posted semaphore, or a worker with a task.
Keepers == {<<"client", c>> : c \in {c \in Clients : cstate[c] \in {"fill", "post"}}}
             \cup {<<"posted", i>> : i \in {i \in Indexes : semaphore[i] > 0}}
             \cup {<<"worker", w>> : w \in {w \in Workers : wstate[w] \in {"running", "unlock"}}}

\* The mutex, locked by one thread and unlocked by another, is handed on like a
\* token: while it is locked exactly one client, post or worker accounts for
\* it, and nothing does while it is free.
OneKeeper == IF lock THEN \E x \in Keepers : Keepers = {x} ELSE Keepers = {}

\* However many workers there are, tasks run one at a time, each once, in the
\* order they were dispatched.
Serial == INSTANCE SerialExecutor WITH accepted <- dispatched, finished <- Len(ran)

RunsSerially == Serial!Spec /\ [](\A n \in DOMAIN ran : ran[n] = dispatched[n])

\* thread_avail picks by semaphore value alone, and the slots past the last
\* worker's have value 0 too: with more workers than clients no task is ever
\* put in a slot without a worker, whatever the clients see while they scan.
SlotHasWorker == \A c \in Clients :
  cstate[c] \in {"fill", "post"} => \E w \in Workers : wstate[w] # "born" /\ in[w] = free_sem_loc

\* Every task a client offers is eventually run: nobody waits for good for the
\* mutex that thread_avail leaves locked.
EventuallyRun == \A t \in Tasks :
  offered[t[1]] >= t[2] ~> \E n \in DOMAIN ran : ran[n] = t
=============================================================================
