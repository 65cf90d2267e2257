----------------------------- MODULE LibraryProofs -----------------------------
(***************************************************************************)
(* Theorems about two of the libraries in "Header Files/".  First the      *)
(* worker pool of Threadpool.h, for any clients, any number of tasks and   *)
(* workers, and, unless a theorem says otherwise, whether or not the       *)
(* constructor's pacing works.  Then the Message class of message.h, for   *)
(* any objects, bytes, buffers and bound.  The two share nothing; each     *)
(* half stands for itself.                                                 *)
(***************************************************************************)
EXTENDS WorkerPool, Message, FiniteSetTheorems, WellFoundedInduction, TLAPS

-----------------------------------------------------------------------------
(* The worker pool.                                                        *)

(* The three kinds of keeper of the mutex.                                 *)
Dispatching(c) == cstate[c] \in {"fill", "post"}
Posted(i)      == semaphore[i] > 0
Working(w)     == wstate[w] \in {"running", "unlock"}

(* Types, with the semaphores only known to be counters: that they never   *)
(* pass 1 follows from the token argument below.                           *)
Types == /\ k \in 0..ThreadCount
         /\ wstate \in [Workers -> {"none", "born", "idle", "running", "unlock"}]
         /\ in \in [Workers -> 0..ThreadCount]
         /\ semaphore \in [Indexes -> Nat]
         /\ k1 \in [Indexes -> Tasks \cup {NoTask}]
         /\ lock \in BOOLEAN
         /\ free_sem_loc \in Indexes
         /\ offered \in [Clients -> 0..N]
         /\ cstate \in [Clients -> {"next", "scan", "lock", "fill", "post"}]
         /\ j \in [Clients -> 0..Slots]
         /\ dispatched \in Seq(Tasks)
         /\ ran \in Seq(Tasks)

(* A client in a call works on a task it offered, and has chosen a slot    *)
(* within the array by the time it waits for the mutex.                    *)
InCall == \A c \in Clients : /\ cstate[c] # "next" => offered[c] \in 1..N
                             /\ cstate[c] = "lock" => j[c] \in Indexes

(* The mutex is a token with at most one keeper.                           *)
OneToken ==
  /\ \A c \in Clients : Dispatching(c) =>
        /\ \A d \in Clients : Dispatching(d) => c = d
        /\ \A i \in Indexes : ~ Posted(i)
        /\ \A w \in Workers : ~ Working(w)
  /\ \A i \in Indexes : Posted(i) =>
        /\ semaphore[i] = 1
        /\ \A l \in Indexes : Posted(l) => i = l
        /\ \A w \in Workers : ~ Working(w)
  /\ \A w, v \in Workers : Working(w) /\ Working(v) => w = v
  /\ lock <=> \/ \E c \in Clients : Dispatching(c)
              \/ \E i \in Indexes : Posted(i)
              \/ \E w \in Workers : Working(w)

(* The last task dispatched is the only one that can be outstanding, and   *)
(* it is in the slot its worker will read.                                 *)
Outstanding == \/ \E i \in Indexes : Posted(i)
               \/ \E w \in Workers : wstate[w] = "running"

LastTask == dispatched[Len(dispatched)]

OneOutstanding ==
  /\ Len(dispatched) = IF Outstanding THEN Len(ran) + 1 ELSE Len(ran)
  /\ \A n \in 1..Len(ran) : ran[n] = dispatched[n]
  /\ \A c \in Clients : cstate[c] = "post" => k1[free_sem_loc] = <<c, offered[c]>>
  /\ \A i \in Indexes : Posted(i) => k1[i] = LastTask
  /\ \A w \in Workers : wstate[w] = "running" => k1[in[w]] = LastTask

Inv == Types /\ InCall /\ OneToken /\ OneOutstanding

-----------------------------------------------------------------------------
\* The invariant holds initially.
LEMMA InitInv == Init => Inv
<1> SUFFICES ASSUME Init PROVE Inv
  OBVIOUS
<1> USE CountAssumption, NAssumption DEF Init
<1>1. Types
  <2>1. k \in 0..ThreadCount /\ free_sem_loc \in Indexes
    BY DEF Indexes
  <2>2. dispatched \in Seq(Tasks) /\ ran \in Seq(Tasks)
    OBVIOUS
  <2>3. in \in [Workers -> 0..ThreadCount] /\ j \in [Clients -> 0..Slots]
        /\ offered \in [Clients -> 0..N]
    OBVIOUS
  <2>4. k1 \in [Indexes -> Tasks \cup {NoTask}]
    OBVIOUS
  <2> QED  BY <2>1, <2>2, <2>3, <2>4 DEF Types
<1>2. InCall
  BY DEF InCall
<1>3. OneToken
  BY DEF OneToken, Dispatching, Posted, Working
<1>4. OneOutstanding
  BY DEF OneOutstanding, Outstanding, Posted
<1> QED  BY <1>1, <1>2, <1>3, <1>4 DEF Inv

\* The constructor's steps and ReadIndex keep the invariant: they touch neither
\* the token nor a task.
LEMMA StartInv ==
  ASSUME Inv, CreateWorker \/ NextWorker \/ \E w \in Workers : ReadIndex(w)
  PROVE  Inv'
<1> USE CountAssumption DEF Inv
<1>1. CASE CreateWorker
  <2> USE <1>1 DEF CreateWorker, clientVars
  <2>1. Types'
    BY DEF Types
  <2>2. \A w \in Workers : (Working(w)' <=> Working(w))
                           /\ (wstate'[w] = "running" <=> wstate[w] = "running")
    BY DEF Working, Types
  <2>3. InCall' /\ OneToken'
    BY <2>2 DEF InCall, OneToken, Dispatching, Posted
  <2>4. OneOutstanding'
    BY <2>2 DEF OneOutstanding, Outstanding, Posted, LastTask
  <2> QED  BY <2>1, <2>3, <2>4
<1>2. CASE NextWorker
  <2> USE <1>2 DEF NextWorker, poolVars, clientVars
  <2>1. Types'
    BY DEF Types, Workers
  <2>2. InCall' /\ OneToken' /\ OneOutstanding'
    BY DEF InCall, OneToken, Dispatching, Posted, Working, OneOutstanding,
           Outstanding, LastTask
  <2> QED  BY <2>1, <2>2
<1>3. CASE \E w \in Workers : ReadIndex(w)
  <2> PICK u \in Workers : ReadIndex(u)
    BY <1>3
  <2> USE DEF ReadIndex, clientVars
  <2>1. Types'
    BY DEF Types
  <2>2. \A w \in Workers : /\ Working(w)' <=> Working(w)
                           /\ wstate'[w] = "running" <=> wstate[w] = "running"
                           /\ wstate[w] = "running" => in'[w] = in[w]
    BY DEF Working, Types
  <2>3. InCall' /\ OneToken'
    BY <2>2 DEF InCall, OneToken, Dispatching, Posted
  <2>4. OneOutstanding'
    BY <2>2 DEF OneOutstanding, Outstanding, Posted, LastTask
  <2> QED  BY <2>1, <2>3, <2>4
<1> QED  BY <1>1, <1>2, <1>3
\* SemWait: the posted semaphore's place as keeper goes to the worker.
LEMMA SemWaitInv ==
  ASSUME Inv, NEW u \in Workers, SemWait(u)
  PROVE  Inv'
<1> USE CountAssumption DEF Inv
<1> DEFINE s == in[u]
<1>1. /\ wstate[u] = "idle" /\ wstate' = [wstate EXCEPT ![u] = "running"]
      /\ semaphore[s] > 0 /\ semaphore' = [semaphore EXCEPT ![s] = @ - 1]
      /\ UNCHANGED <<k, in, k1, lock, free_sem_loc, offered, cstate, j, dispatched, ran>>
  BY DEF SemWait, clientVars
<1>2. s \in Indexes /\ semaphore[s] \in Nat
  BY DEF Types, Indexes
<1> HIDE DEF s
<1>3. Types' /\ InCall'
  BY <1>1, <1>2 DEF Types, InCall
<1>4. Posted(s) /\ semaphore[s] = 1
  BY <1>1, <1>2 DEF Posted, OneToken
<1>5. \A i \in Indexes : Posted(i)' <=> i # s /\ Posted(i)
  BY <1>1, <1>2, <1>4 DEF Posted, Types
<1>6. \A i \in Indexes : ~ Posted(i)'
  BY <1>2, <1>4, <1>5 DEF OneToken
<1>7. \A w \in Workers : Working(w)' <=> w = u
  BY <1>1, <1>2, <1>4 DEF Working, OneToken, Types
<1>8. \A c \in Clients : ~ Dispatching(c)' /\ ~ Dispatching(c)
  BY <1>1, <1>2, <1>4 DEF Dispatching, OneToken
<1>9. OneToken'
  BY <1>1, <1>2, <1>4, <1>6, <1>7, <1>8 DEF OneToken
<1>10. Outstanding /\ Outstanding'
  BY <1>1, <1>2, <1>4 DEF Outstanding, Types
<1>11. k1[s] = LastTask
  BY <1>2, <1>4 DEF OneOutstanding
<1>12. OneOutstanding'
  <2>1. \A w \in Workers : wstate'[w] = "running" => w = u
    BY <1>7 DEF Working
  <2>2. in'[u] = s /\ k1' = k1 /\ LastTask' = LastTask
    BY <1>1 DEF s, LastTask
  <2>3. \A c \in Clients : cstate'[c] # "post"
    BY <1>8 DEF Dispatching
  <2> QED  BY <1>1, <1>6, <1>10, <1>11, <2>1, <2>2, <2>3 DEF OneOutstanding
<1> QED  BY <1>3, <1>9, <1>12

\* RunTask: the outstanding task is run, and it is the last one dispatched.
LEMMA RunTaskInv ==
  ASSUME Inv, NEW u \in Workers, RunTask(u)
  PROVE  Inv'
<1> USE CountAssumption DEF Inv
<1>1. /\ wstate[u] = "running" /\ wstate' = [wstate EXCEPT ![u] = "unlock"]
      /\ ran' = Append(ran, k1[in[u]])
      /\ UNCHANGED <<k, in, semaphore, k1, lock, free_sem_loc, offered, cstate, j, dispatched>>
  BY DEF RunTask, clientVars
<1>2. Working(u)
  BY <1>1 DEF Working
<1>3. /\ \A i \in Indexes : ~ Posted(i) /\ ~ Posted(i)'
      /\ \A w \in Workers : Working(w) <=> w = u
      /\ \A c \in Clients : ~ Dispatching(c)
  BY <1>1, <1>2 DEF OneToken, Posted
<1>4. Outstanding
  BY <1>1 DEF Outstanding
<1>5. /\ Len(dispatched) = Len(ran) + 1
      /\ Len(ran) \in Nat /\ Len(dispatched) \in Nat
      /\ k1[in[u]] = dispatched[Len(ran) + 1]
  BY <1>1, <1>4 DEF OneOutstanding, LastTask, Types
<1>6. k1[in[u]] \in Tasks
  BY <1>5 DEF Types
<1>7. Types' /\ InCall'
  BY <1>1, <1>6 DEF Types, InCall
<1>8. \A w \in Workers : Working(w)' <=> Working(w)
  BY <1>1 DEF Working, Types
<1>9. OneToken'
  BY <1>1, <1>8 DEF OneToken, Dispatching, Posted
<1>10. \A w \in Workers : wstate'[w] # "running"
  BY <1>1, <1>3 DEF Working, Types
<1>11. ~ Outstanding'
  BY <1>3, <1>10 DEF Outstanding
<1>12. /\ Len(ran') = Len(ran) + 1
       /\ \A n \in 1..Len(ran') : ran'[n] = dispatched'[n]
  BY <1>1, <1>5, <1>6 DEF Types, OneOutstanding
<1>13. \A c \in Clients : cstate'[c] # "post"
  BY <1>1, <1>3 DEF Dispatching
<1>14. OneOutstanding'
  BY <1>1, <1>3, <1>5, <1>10, <1>11, <1>12, <1>13 DEF OneOutstanding
<1> QED  BY <1>7, <1>9, <1>14

\* UnlockAfterTask: the worker gives up the token and nobody has it.
LEMMA UnlockInv ==
  ASSUME Inv, NEW u \in Workers, UnlockAfterTask(u)
  PROVE  Inv'
<1> USE CountAssumption DEF Inv
<1>1. /\ wstate[u] = "unlock" /\ wstate' = [wstate EXCEPT ![u] = "idle"]
      /\ lock' = FALSE
      /\ UNCHANGED <<k, in, semaphore, k1, free_sem_loc, offered, cstate, j, dispatched, ran>>
  BY DEF UnlockAfterTask, clientVars
<1>2. Working(u)
  BY <1>1 DEF Working
<1>3. /\ \A i \in Indexes : ~ Posted(i)'
      /\ \A w \in Workers : Working(w) <=> w = u
      /\ \A c \in Clients : ~ Dispatching(c)'
  BY <1>1, <1>2 DEF OneToken, Posted, Dispatching
<1>4. Types' /\ InCall'
  BY <1>1 DEF Types, InCall
<1>5. \A w \in Workers : ~ Working(w)'
  BY <1>1, <1>3 DEF Working, Types
<1>6. OneToken'
  BY <1>1, <1>3, <1>5 DEF OneToken
<1>7. \A w \in Workers : wstate'[w] = "running" <=> wstate[w] = "running"
  BY <1>1 DEF Types
<1>8. OneOutstanding'
  BY <1>1, <1>7 DEF OneOutstanding, Outstanding, Posted, LastTask
<1> QED  BY <1>4, <1>6, <1>8
-----------------------------------------------------------------------------
(* The clients.                                                            *)

\* Offering a task and scanning the semaphores move neither token nor task.
LEMMA ScanInv ==
  ASSUME Inv, NEW b \in Clients, Call(b) \/ Scan(b)
  PROVE  Inv'
<1> USE CountAssumption, NAssumption DEF Inv
<1>1. UNCHANGED <<k, wstate, in, semaphore, k1, lock, free_sem_loc, dispatched, ran>>
  BY DEF Call, Scan, poolVars
<1>2. /\ cstate[b] \in {"next", "scan"}
      /\ \A c \in Clients \ {b} : cstate'[c] = cstate[c]
      /\ cstate' \in [Clients -> {"next", "scan", "lock", "fill", "post"}]
      /\ cstate'[b] \in {"next", "scan", "lock"}
  BY DEF Call, Scan, Types
<1>3. /\ offered' \in [Clients -> 0..N] /\ j' \in [Clients -> 0..Slots]
      /\ InCall'
  <2>1. CASE Call(b)
    BY <2>1 DEF Call, Types, InCall
  <2>2. CASE Scan(b)
    <3>1. j[b] \in 0..Slots /\ UNCHANGED offered /\ offered[b] \in 1..N
      BY <2>2 DEF Scan, Types, InCall
    <3>2. j' \in [Clients -> 0..Slots]
      BY <2>2, <3>1 DEF Scan, Types
    <3>3. cstate'[b] = "lock" => j'[b] \in Indexes
      BY <2>2, <3>1 DEF Scan, Types, Indexes
    <3>4. \A c \in Clients \ {b} : j'[c] = j[c]
      BY <2>2 DEF Scan, Types
    <3>5. InCall'
      BY <1>2, <3>1, <3>3, <3>4 DEF InCall
    <3> QED  BY <3>1, <3>2, <3>5 DEF Types
  <2> QED  BY <2>1, <2>2
<1>4. Types'
  BY <1>1, <1>2, <1>3 DEF Types
<1>5. \A c \in Clients : /\ Dispatching(c)' <=> Dispatching(c)
                         /\ cstate'[c] = "post" <=> cstate[c] = "post"
                         /\ cstate'[c] = "post" => offered'[c] = offered[c]
  <2>1. \A c \in Clients \ {b} : offered'[c] = offered[c]
    BY DEF Call, Scan, Types
  <2> QED  BY <1>2, <2>1 DEF Dispatching
<1>6. OneToken'
  BY <1>1, <1>5 DEF OneToken, Posted, Working
<1>7. OneOutstanding'
  BY <1>1, <1>5 DEF OneOutstanding, Outstanding, Posted, LastTask
<1> QED  BY <1>3, <1>4, <1>6, <1>7

\* LockAndChoose: the client takes the token nobody had.
LEMMA LockInv ==
  ASSUME Inv, NEW b \in Clients, LockAndChoose(b)
  PROVE  Inv'
<1> USE DEF Inv
<1>1. /\ cstate[b] = "lock" /\ cstate' = [cstate EXCEPT ![b] = "fill"]
      /\ ~ lock /\ lock' = TRUE /\ free_sem_loc' = j[b]
      /\ UNCHANGED <<k, wstate, in, semaphore, k1, offered, j, dispatched, ran>>
  BY DEF LockAndChoose, poolVars
<1>2. Types' /\ InCall'
  BY <1>1 DEF Types, InCall
<1>3. /\ \A c \in Clients : ~ Dispatching(c)
      /\ \A i \in Indexes : ~ Posted(i)'
      /\ \A w \in Workers : ~ Working(w)'
  BY <1>1 DEF OneToken, Posted, Working
<1>4. \A c \in Clients : Dispatching(c)' <=> c = b
  BY <1>1, <1>3 DEF Dispatching, Types
<1>5. OneToken'
  BY <1>1, <1>3, <1>4 DEF OneToken
<1>6. \A c \in Clients : cstate'[c] # "post"
  BY <1>1, <1>3 DEF Dispatching, Types
<1>7. OneOutstanding'
  BY <1>1, <1>6 DEF OneOutstanding, Outstanding, Posted, LastTask
<1> QED  BY <1>2, <1>5, <1>7

\* FillSlot: the client writes its task in the slot; no worker is to read it.
LEMMA FillInv ==
  ASSUME Inv, NEW b \in Clients, FillSlot(b)
  PROVE  Inv'
<1> USE DEF Inv
<1>1. /\ cstate[b] = "fill" /\ cstate' = [cstate EXCEPT ![b] = "post"]
      /\ k1' = [k1 EXCEPT ![free_sem_loc] = <<b, offered[b]>>]
      /\ UNCHANGED <<k, wstate, in, semaphore, lock, free_sem_loc, offered, j, dispatched, ran>>
  BY DEF FillSlot
<1>2. <<b, offered[b]>> \in Tasks
  BY <1>1 DEF InCall, Tasks
<1>3. Types' /\ InCall'
  BY <1>1, <1>2 DEF Types, InCall
<1>4. \A c \in Clients : Dispatching(c)' <=> Dispatching(c)
  BY <1>1 DEF Dispatching, Types
<1>5. OneToken'
  BY <1>1, <1>4 DEF OneToken, Posted, Working
<1>6. /\ \A c \in Clients : Dispatching(c) <=> c = b
      /\ \A i \in Indexes : ~ Posted(i)
      /\ \A w \in Workers : wstate[w] # "running"
  BY <1>1 DEF OneToken, Dispatching, Working
<1>7. \A c \in Clients : cstate'[c] = "post" => k1'[free_sem_loc] = <<c, offered[c]>>
  BY <1>1, <1>6 DEF Dispatching, Types
<1>8. OneOutstanding'
  BY <1>1, <1>6, <1>7 DEF OneOutstanding, Outstanding, Posted, LastTask
<1> QED  BY <1>3, <1>5, <1>8

\* Post: the token goes from the client to the semaphore of the slot, and the
\* task in the slot becomes the outstanding one.
LEMMA PostInv ==
  ASSUME Inv, NEW b \in Clients, Post(b)
  PROVE  Inv'
<1> USE DEF Inv
<1> DEFINE s == free_sem_loc
<1>1. /\ cstate[b] = "post" /\ cstate' = [cstate EXCEPT ![b] = "next"]
      /\ semaphore' = [semaphore EXCEPT ![s] = @ + 1]
      /\ dispatched' = Append(dispatched, <<b, offered[b]>>)
      /\ UNCHANGED <<k, wstate, in, k1, lock, free_sem_loc, offered, j, ran>>
  BY DEF Post
<1>2. <<b, offered[b]>> \in Tasks /\ s \in Indexes
  BY <1>1 DEF InCall, Tasks, Types
<1>3. Types' /\ InCall'
  BY <1>1, <1>2 DEF Types, InCall
<1>4. /\ \A c \in Clients : Dispatching(c) <=> c = b
      /\ \A i \in Indexes : ~ Posted(i)
      /\ \A w \in Workers : ~ Working(w)
  BY <1>1 DEF OneToken, Dispatching
<1>5. \A c \in Clients : ~ Dispatching(c)'
  BY <1>1, <1>4 DEF Dispatching, Types
<1>6. semaphore'[s] = 1 /\ \A i \in Indexes : Posted(i)' <=> i = s
  BY <1>1, <1>2, <1>4 DEF Posted, Types
<1>7. lock
  BY <1>4 DEF OneToken
<1>8. OneToken'
  BY <1>1, <1>2, <1>4, <1>5, <1>6, <1>7 DEF OneToken, Working
<1>9. ~ Outstanding /\ Outstanding'
  BY <1>2, <1>4, <1>6 DEF Outstanding, Working
<1>10. Len(dispatched) = Len(ran) /\ Len(ran) \in Nat
  BY <1>9 DEF OneOutstanding, Types
<1>11. /\ Len(dispatched') = Len(ran) + 1
       /\ \A n \in 1..Len(ran) : dispatched'[n] = dispatched[n]
       /\ LastTask' = <<b, offered[b]>>
  BY <1>1, <1>2, <1>10 DEF Types, LastTask
<1>12. k1'[s] = LastTask'
  BY <1>1, <1>11 DEF OneOutstanding
<1>13. OneOutstanding'
  <2>1. \A c \in Clients : cstate'[c] # "post"
    BY <1>5 DEF Dispatching
  <2>2. \A w \in Workers : wstate'[w] # "running"
    BY <1>1, <1>4 DEF Working
  <2>3. \A n \in 1..Len(ran') : ran'[n] = dispatched'[n]
    BY <1>1, <1>11 DEF OneOutstanding
  <2>4. Len(dispatched') = Len(ran') + 1
    BY <1>1, <1>11
  <2> QED  BY <1>6, <1>9, <1>12, <2>1, <2>2, <2>3, <2>4 DEF OneOutstanding
<1> QED  BY <1>3, <1>8, <1>13

\* The invariant is inductive: one case per action.
LEMMA NextInv == Inv /\ [Next]_vars => Inv'
<1> SUFFICES ASSUME Inv, [Next]_vars PROVE Inv'
  OBVIOUS
<1>1. CASE ThreadPool
  BY <1>1, StartInv DEF ThreadPool
<1>2. CASE \E w \in Workers : worker_thread(w)
  BY <1>2, StartInv, SemWaitInv, RunTaskInv, UnlockInv DEF worker_thread
<1>3. CASE \E c \in Clients : Call(c) \/ thread_avail(c) \/ dispatch_thread(c)
  BY <1>3, ScanInv, LockInv, FillInv, PostInv DEF thread_avail, dispatch_thread
<1>4. CASE UNCHANGED vars
  BY <1>4 DEF vars, poolVars, clientVars, Inv, Types, InCall, OneToken, Dispatching,
              Posted, Working, OneOutstanding, Outstanding, LastTask
<1> QED  BY <1>1, <1>2, <1>3, <1>4 DEF Next, Finished

\* Inv is an invariant.
LEMMA InvAlways == Spec => []Inv
BY InitInv, NextInv, PTL DEF Spec

-----------------------------------------------------------------------------
\* Types are right and no semaphore ever passes 1.
THEOREM TypeCorrect == Spec => []TypeOK
<1>1. Inv => TypeOK
  <2> SUFFICES ASSUME Inv PROVE TypeOK
    OBVIOUS
  <2>1. \A i \in Indexes : semaphore[i] \in 0..1
    BY DEF Inv, Types, OneToken, Posted
  <2> QED  BY <2>1 DEF Inv, Types, TypeOK
<1> QED  BY <1>1, InvAlways, PTL

\* The mutex always has exactly one keeper while it is locked and none while
\* it is free, although the thread that unlocks it is never the one that
\* locked it.
THEOREM LockIsToken == Spec => []OneKeeper
<1>1. Inv => OneKeeper
  <2> SUFFICES ASSUME Inv PROVE OneKeeper
    OBVIOUS
  <2>1. ASSUME NEW x PROVE x \in Keepers <=>
          \/ \E c \in Clients : x = <<"client", c>> /\ Dispatching(c)
          \/ \E i \in Indexes : x = <<"posted", i>> /\ Posted(i)
          \/ \E w \in Workers : x = <<"worker", w>> /\ Working(w)
    BY DEF Keepers, Dispatching, Posted, Working
  <2>2. ASSUME NEW x \in Keepers, NEW y \in Keepers PROVE x = y
    BY <2>1 DEF Inv, OneToken
  <2>3. lock <=> \E x : x \in Keepers
    BY <2>1 DEF Inv, OneToken
  <2>4. CASE lock
    <3> PICK x : x \in Keepers
      BY <2>3, <2>4
    <3> QED  BY <2>2, <2>4 DEF OneKeeper
  <2>5. CASE ~ lock
    BY <2>3, <2>5 DEF OneKeeper
  <2> QED  BY <2>4, <2>5
<1> QED  BY <1>1, InvAlways, PTL

\* One task at a time, each once, in the order of dispatch: Post is the
\* executor's Accept, RunTask its Finish, and every other step a stutter.
THEOREM RunsOneAtATime == Spec => RunsSerially
<1>1. Init => Serial!Init
  BY DEF Init, Serial!Init
<1>2. Inv /\ [Next]_vars => [Serial!Next]_(Serial!execVars)
  <2> SUFFICES ASSUME Inv, [Next]_vars
               PROVE  [Serial!Next]_(Serial!execVars)
    OBVIOUS
  <2> DEFINE Still == UNCHANGED <<dispatched, ran>>
  <2>1. ASSUME Still PROVE [Serial!Next]_(Serial!execVars)
    BY <2>1 DEF Serial!execVars
  <2>2. CASE ThreadPool
    BY <2>1, <2>2 DEF ThreadPool, CreateWorker, NextWorker
  <2>3. ASSUME NEW w \in Workers, worker_thread(w)
        PROVE  [Serial!Next]_(Serial!execVars)
    <3>1. CASE RunTask(w)
      <4>1. /\ wstate[w] = "running" /\ UNCHANGED dispatched
            /\ ran' = Append(ran, k1[in[w]]) /\ UNCHANGED k1
        BY <3>1 DEF RunTask
      <4>2. Len(dispatched) = Len(ran) + 1 /\ Len(ran) \in Nat
        BY <4>1 DEF Inv, Types, OneOutstanding, Outstanding
      <4>3. Inv'
        BY NextInv
      <4>4. ran \in Seq(Tasks) /\ ran' \in Seq(Tasks)
        BY <4>3 DEF Inv, Types
      <4>5. Len(ran') = Len(ran) + 1
        BY <4>1, <4>4
      <4> QED  BY <4>1, <4>2, <4>5 DEF Serial!Next, Serial!Finish
    <3>2. CASE ReadIndex(w) \/ SemWait(w) \/ UnlockAfterTask(w)
      BY <2>1, <3>2 DEF ReadIndex, SemWait, UnlockAfterTask
    <3> QED  BY <2>3, <3>1, <3>2 DEF worker_thread
  <2>4. ASSUME NEW c \in Clients, Call(c) \/ thread_avail(c) \/ dispatch_thread(c)
        PROVE  [Serial!Next]_(Serial!execVars)
    <3>1. CASE Post(c)
      <4>1. /\ cstate[c] = "post" /\ UNCHANGED ran
            /\ dispatched' = Append(dispatched, <<c, offered[c]>>)
        BY <3>1 DEF Post
      <4>2. <<c, offered[c]>> \in Tasks
        BY <4>1 DEF Inv, InCall, Tasks
      <4>3. ~ Outstanding
        BY <4>1 DEF Inv, OneToken, Dispatching, Outstanding, Working
      <4>4. Len(dispatched) = Len(ran)
        BY <4>3 DEF Inv, OneOutstanding
      <4> QED  BY <4>1, <4>2, <4>4 DEF Serial!Next, Serial!Accept
    <3>2. CASE Call(c) \/ Scan(c) \/ LockAndChoose(c) \/ FillSlot(c)
      BY <2>1, <3>2 DEF Call, Scan, LockAndChoose, FillSlot
    <3> QED  BY <2>4, <3>1, <3>2 DEF thread_avail, dispatch_thread
  <2>5. CASE UNCHANGED vars
    BY <2>1, <2>5 DEF vars
  <2> QED  BY <2>2, <2>3, <2>4, <2>5 DEF Next, Finished, vars
<1>3. Inv => \A n \in DOMAIN ran : ran[n] = dispatched[n]
  <2>1. Inv => DOMAIN ran = 1..Len(ran)
    BY DEF Inv, Types
  <2> QED  BY <2>1 DEF Inv, OneOutstanding
<1> QED  BY <1>1, <1>2, <1>3, InvAlways, PTL DEF Spec, RunsSerially, Serial!Spec
-----------------------------------------------------------------------------
(* The scans.  A client gets past a slot when it sees its semaphore posted. *)
(* The client that posted is then back at the start, and stays there while  *)
(* the semaphore is posted, since no other is.  So the further the slot,    *)
(* the fewer clients get to it: past slot i - 1 there are at most as many   *)
(* as there are clients, less i - 1.                                        *)
InCallFrom(i) == {c \in Clients : cstate[c] # "next" /\ j[c] >= i}

FewGetFar ==
  /\ \A i \in 1..Slots : InCallFrom(i) # {} =>
        Cardinality(InCallFrom(i)) + i <= Cardinality(Clients) + 1
  /\ \A i \in Indexes \ {0} : Posted(i) /\ InCallFrom(i) # {} =>
        Cardinality(InCallFrom(i)) + i <= Cardinality(Clients)

(* The client that has the mutex is filling the slot it chose.             *)
ChosenSlot == \A c \in Clients : Dispatching(c) => j[c] = free_sem_loc

(* Where the constructor's pause is long enough, each worker reads the     *)
(* index meant for it, and has read it before the pool is there to be      *)
(* called.                                                                 *)
OwnIndex == /\ \A w \in Workers : wstate[w] \notin {"none", "born"} => in[w] = w
            /\ \A w \in Workers : w < k => wstate[w] \notin {"none", "born"}
            /\ \A w \in Workers : wstate[w] = "born" => w = k
            /\ \A c \in Clients : cstate[c] # "next" => Constructed

\* A step after which no more clients have got to slot i.
LEMMA FewerGetFar ==
  ASSUME IsFiniteSet(Clients), NEW S \in SUBSET Clients, NEW T \in SUBSET S
  PROVE  /\ Cardinality(T) \in Nat /\ Cardinality(S) \in Nat
         /\ Cardinality(Clients) \in Nat
         /\ Cardinality(T) <= Cardinality(S)
         /\ \A b \in S \ T : Cardinality(T) + 1 <= Cardinality(S)
<1>1. IsFiniteSet(S) /\ Cardinality(S) \in Nat /\ Cardinality(Clients) \in Nat
  BY FS_Subset, FS_CardinalityType
<1>2. IsFiniteSet(T) /\ Cardinality(T) \in Nat /\ Cardinality(T) <= Cardinality(S)
  BY <1>1, FS_Subset, FS_CardinalityType
<1>3. ASSUME NEW b \in S \ T PROVE Cardinality(T) + 1 <= Cardinality(S)
  <2>1. Cardinality(S \ {b}) = Cardinality(S) - 1 /\ IsFiniteSet(S \ {b})
    BY <1>1, FS_RemoveElement
  <2>2. Cardinality(T) <= Cardinality(S \ {b})
    BY <2>1, FS_Subset
  <2> QED  BY <1>1, <1>2, <2>1, <2>2
<1> QED  BY <1>1, <1>2, <1>3

\* A step that brings no client further and posts nothing keeps FewGetFar.
LEMMA NoneFurther ==
  ASSUME IsFiniteSet(Clients), CountAssumption, FewGetFar,
         \A i \in 1..Slots : InCallFrom(i)' \subseteq InCallFrom(i),
         \A i \in Indexes : Posted(i)' => Posted(i)
  PROVE  FewGetFar'
<1>1. ASSUME NEW i \in 1..Slots
      PROVE  /\ Cardinality(InCallFrom(i)') \in Nat /\ Cardinality(InCallFrom(i)) \in Nat
             /\ Cardinality(InCallFrom(i)') <= Cardinality(InCallFrom(i))
             /\ Cardinality(Clients) \in Nat
  <2>1. InCallFrom(i) \in SUBSET Clients /\ InCallFrom(i)' \in SUBSET InCallFrom(i)
    BY DEF InCallFrom
  <2> QED  BY <2>1, FewerGetFar
<1>2. ASSUME NEW i \in 1..Slots, InCallFrom(i)' # {}
      PROVE  Cardinality(InCallFrom(i)') + i <= Cardinality(Clients) + 1
  <2>1. Cardinality(InCallFrom(i)) + i <= Cardinality(Clients) + 1
    BY <1>2 DEF FewGetFar
  <2> QED  BY <1>1, <2>1
<1>3. ASSUME NEW i \in Indexes \ {0}, Posted(i)', InCallFrom(i)' # {}
      PROVE  Cardinality(InCallFrom(i)') + i <= Cardinality(Clients)
  <2>1. i \in 1..Slots
    BY CountAssumption DEF Indexes
  <2>2. Cardinality(InCallFrom(i)) + i <= Cardinality(Clients)
    BY <1>3, <2>1 DEF FewGetFar
  <2> QED  BY <1>1, <2>1, <2>2
<1> QED  BY <1>2, <1>3 DEF FewGetFar

\* A client that gets past slot s, which it saw posted: s counts one client
\* fewer while it is posted, so that one more may be past it afterwards.
LEMMA OneFurther ==
  ASSUME IsFiniteSet(Clients), CountAssumption, Inv, FewGetFar,
         NEW b \in Clients, NEW s \in Indexes, Posted(s),
         b \in InCallFrom(s),
         \A i \in 1..Slots : i # s + 1 => InCallFrom(i)' = InCallFrom(i),
         InCallFrom(s + 1)' \subseteq InCallFrom(s),
         UNCHANGED semaphore
  PROVE  FewGetFar'
<1>1. \A i \in Indexes : (Posted(i)' <=> Posted(i)) /\ (Posted(i) => i = s)
  BY DEF Posted, Inv, OneToken
<1>2. /\ Cardinality(InCallFrom(s + 1)') \in Nat /\ Cardinality(InCallFrom(s)) \in Nat
      /\ Cardinality(InCallFrom(s + 1)') <= Cardinality(InCallFrom(s))
      /\ Cardinality(InCallFrom(s)) <= Cardinality(Clients)
      /\ Cardinality(Clients) \in Nat
  <2>1. InCallFrom(s) \in SUBSET Clients /\ InCallFrom(s + 1)' \in SUBSET InCallFrom(s)
    BY DEF InCallFrom
  <2> QED  BY <2>1, FewerGetFar
<1>3. s \in Nat /\ s < Slots /\ (s # 0 => s \in Indexes \ {0})
  BY CountAssumption DEF Indexes
<1>4. Cardinality(InCallFrom(s + 1)') + (s + 1) <= Cardinality(Clients) + 1
  <2>1. CASE s = 0
    BY <1>2, <2>1
  <2>2. CASE s # 0
    <3>1. Cardinality(InCallFrom(s)) + s <= Cardinality(Clients)
      BY <1>3, <2>2 DEF FewGetFar
    <3> QED  BY <1>2, <1>3, <3>1
  <2> QED  BY <2>1, <2>2
<1>5. ASSUME NEW i \in 1..Slots, InCallFrom(i)' # {}
      PROVE  Cardinality(InCallFrom(i)') + i <= Cardinality(Clients) + 1
  <2>1. CASE i = s + 1
    BY <1>4, <2>1
  <2>2. CASE i # s + 1
    BY <1>5, <2>2 DEF FewGetFar
  <2> QED  BY <2>1, <2>2
<1>6. ASSUME NEW i \in Indexes \ {0}, Posted(i)', InCallFrom(i)' # {}
      PROVE  Cardinality(InCallFrom(i)') + i <= Cardinality(Clients)
  <2>1. i = s /\ i \in 1..Slots /\ i # s + 1 /\ Posted(i)
    BY <1>1, <1>3, <1>6 DEF Indexes
  <2>2. InCallFrom(i)' = InCallFrom(i)
    BY <2>1
  <2> QED  BY <1>6, <2>1, <2>2 DEF FewGetFar
<1> QED  BY <1>5, <1>6 DEF FewGetFar

\* A post at s: the client that posts is one of those who got to s, and leaves.
LEMMA PosterLeaves ==
  ASSUME IsFiniteSet(Clients), CountAssumption, Inv, FewGetFar, ChosenSlot,
         NEW b \in Clients, Post(b)
  PROVE  FewGetFar'
<1> DEFINE s == free_sem_loc
<1>1. /\ cstate[b] = "post" /\ cstate' = [cstate EXCEPT ![b] = "next"]
      /\ semaphore' = [semaphore EXCEPT ![s] = @ + 1] /\ UNCHANGED j
  BY DEF Post
<1>2. s \in Indexes /\ j[b] = s
  BY <1>1 DEF Inv, Types, ChosenSlot, Dispatching
<1>3. \A i \in Indexes : Posted(i)' => i = s
  BY <1>1, <1>2 DEF Inv, Types, OneToken, Posted, Dispatching
<1>4. ASSUME NEW i \in 1..Slots PROVE InCallFrom(i)' \subseteq InCallFrom(i)
  BY <1>1 DEF InCallFrom, Inv, Types
<1> HIDE DEF s
<1>5. ASSUME NEW i \in 1..Slots
      PROVE  /\ Cardinality(InCallFrom(i)') \in Nat /\ Cardinality(InCallFrom(i)) \in Nat
             /\ Cardinality(InCallFrom(i)') <= Cardinality(InCallFrom(i))
             /\ Cardinality(Clients) \in Nat
             /\ b \in InCallFrom(i) \ InCallFrom(i)' =>
                  Cardinality(InCallFrom(i)') + 1 <= Cardinality(InCallFrom(i))
  <2>1. InCallFrom(i) \in SUBSET Clients /\ InCallFrom(i)' \in SUBSET InCallFrom(i)
    BY <1>4 DEF InCallFrom
  <2> QED  BY <2>1, FewerGetFar
<1>6. ASSUME NEW i \in 1..Slots, InCallFrom(i)' # {}
      PROVE  Cardinality(InCallFrom(i)') + i <= Cardinality(Clients) + 1
  <2>1. Cardinality(InCallFrom(i)) + i <= Cardinality(Clients) + 1
    BY <1>4, <1>6 DEF FewGetFar
  <2> QED  BY <1>5, <2>1
<1>7. ASSUME NEW i \in Indexes \ {0}, Posted(i)', InCallFrom(i)' # {}
      PROVE  Cardinality(InCallFrom(i)') + i <= Cardinality(Clients)
  <2>1. i = s /\ i \in 1..Slots
    BY <1>3, <1>7, CountAssumption DEF Indexes
  <2>2. b \in InCallFrom(i) \ InCallFrom(i)'
    BY <1>1, <1>2, <2>1 DEF InCallFrom, Inv, Types
  <2>3. Cardinality(InCallFrom(i)) + i <= Cardinality(Clients) + 1
    BY <2>1, <2>2 DEF FewGetFar
  <2> QED  BY <1>5, <2>1, <2>2, <2>3
<1> QED  BY <1>6, <1>7 DEF FewGetFar

\* One round of a scan: the client is past a slot that is posted, or no further.
LEMMA ScanGetsFar ==
  ASSUME IsFiniteSet(Clients), CountAssumption, Inv, FewGetFar,
         NEW b \in Clients, Scan(b)
  PROVE  FewGetFar'
<1>1. /\ cstate[b] = "scan" /\ j[b] \in 0..Slots /\ UNCHANGED semaphore
      /\ \A c \in Clients \ {b} : cstate'[c] = cstate[c] /\ j'[c] = j[c]
  BY DEF Scan, Inv, Types, poolVars
<1>2. CASE j[b] # Slots /\ semaphore[j[b]] # 0
  <2> PICK s \in Nat : s = j[b]
    BY <1>1
  <2>1. s \in Indexes /\ Posted(s)
    BY <1>1, <1>2 DEF Indexes, Inv, Types, Posted
  <2>2. cstate'[b] = "scan" /\ j'[b] = s + 1
    BY <1>1, <1>2 DEF Scan, Inv, Types
  <2>3. b \in InCallFrom(s)
    BY <1>1 DEF InCallFrom, Indexes
  <2>4. ASSUME NEW i \in 1..Slots, NEW c \in Clients
        PROVE  i # s + 1 => (c \in InCallFrom(i)' <=> c \in InCallFrom(i))
    <3>1. CASE c = b
      BY <1>1, <2>2, <3>1 DEF InCallFrom
    <3>2. CASE c # b
      BY <1>1, <3>2 DEF InCallFrom
    <3> QED  BY <3>1, <3>2
  <2>5. ASSUME NEW c \in Clients PROVE c \in InCallFrom(s + 1)' => c \in InCallFrom(s)
    <3>1. CASE c = b
      BY <2>3, <3>1
    <3>2. CASE c # b
      <4>1. j[c] \in Nat
        BY CountAssumption DEF Inv, Types
      <4> QED  BY <1>1, <3>2, <4>1 DEF InCallFrom
    <3> QED  BY <3>1, <3>2
  <2>6. \A i \in 1..Slots : i # s + 1 => InCallFrom(i)' = InCallFrom(i)
    BY <2>4 DEF InCallFrom
  <2>7. InCallFrom(s + 1)' \subseteq InCallFrom(s)
    BY <2>5 DEF InCallFrom
  <2> QED  BY <1>1, <2>1, <2>3, <2>6, <2>7, OneFurther
<1>3. CASE j[b] = Slots \/ semaphore[j[b]] = 0
  <2>1. j'[b] = j[b]
    BY <1>1, <1>3 DEF Scan, Inv, Types
  <2>2. \A i \in 1..Slots : InCallFrom(i)' \subseteq InCallFrom(i)
    BY <1>1, <2>1 DEF InCallFrom
  <2>3. \A i \in Indexes : Posted(i)' => Posted(i)
    BY <1>1 DEF Posted
  <2> QED  BY <2>2, <2>3, NoneFurther
<1> QED  BY <1>1, <1>2, <1>3

\* Few clients get far: what the scans and the posts do to the numbers of
\* clients at each slot, and nothing else touches them.
LEMMA FewGetFarNext ==
  ASSUME IsFiniteSet(Clients), Inv, FewGetFar, ChosenSlot, [Next]_vars
  PROVE  FewGetFar'
<1> USE CountAssumption
<1>1. ASSUME NEW b \in Clients, Call(b) PROVE FewGetFar'
  <2>1. \A i \in 1..Slots : InCallFrom(i)' \subseteq InCallFrom(i)
    BY <1>1 DEF Call, InCallFrom, Inv, Types
  <2>2. \A i \in Indexes : Posted(i)' => Posted(i)
    BY <1>1 DEF Call, poolVars, Posted
  <2> QED  BY <2>1, <2>2, NoneFurther
<1>2. ASSUME NEW b \in Clients, LockAndChoose(b) \/ FillSlot(b) PROVE FewGetFar'
  <2>1. UNCHANGED <<j, semaphore>> /\ \A c \in Clients : cstate'[c] # "next" => cstate[c] # "next"
    BY <1>2 DEF LockAndChoose, FillSlot, poolVars, Inv, Types
  <2>2. \A i \in 1..Slots : InCallFrom(i)' \subseteq InCallFrom(i)
    BY <2>1 DEF InCallFrom
  <2>3. \A i \in Indexes : Posted(i)' => Posted(i)
    BY <2>1 DEF Posted
  <2> QED  BY <2>2, <2>3, NoneFurther
<1>3. ASSUME NEW w \in Workers, SemWait(w) PROVE FewGetFar'
  <2>1. \A i \in 1..Slots : InCallFrom(i)' = InCallFrom(i)
    BY <1>3 DEF SemWait, InCallFrom, clientVars
  <2>2. in[w] \in Indexes
    BY DEF Inv, Types, Indexes
  <2>3. \A i \in Indexes : Posted(i)' => Posted(i)
    BY <1>3, <2>2 DEF SemWait, Posted, Inv, Types
  <2> QED  BY <2>1, <2>3, NoneFurther
<1>4. ASSUME UNCHANGED <<clientVars, semaphore>> PROVE FewGetFar'
  BY <1>4 DEF clientVars, FewGetFar, InCallFrom, Posted
<1>5. CASE ThreadPool
  BY <1>4, <1>5 DEF ThreadPool, CreateWorker, NextWorker, poolVars
<1>6. ASSUME NEW w \in Workers, worker_thread(w) PROVE FewGetFar'
  BY <1>3, <1>4, <1>6 DEF worker_thread, ReadIndex, RunTask, UnlockAfterTask
<1>7. ASSUME NEW c \in Clients, Call(c) \/ thread_avail(c) \/ dispatch_thread(c)
      PROVE  FewGetFar'
  BY <1>1, <1>2, <1>7, ScanGetsFar, PosterLeaves DEF thread_avail, dispatch_thread
<1>8. CASE UNCHANGED vars
  BY <1>4, <1>8 DEF vars, poolVars
<1> QED  BY <1>5, <1>6, <1>7, <1>8 DEF Next, Finished

\* The slot chosen stays chosen: nobody else can take the mutex meanwhile.
LEMMA ChosenSlotNext ==
  ASSUME Inv, ChosenSlot, [Next]_vars
  PROVE  ChosenSlot'
<1>1. CASE \E b \in Clients : LockAndChoose(b)
  <2> PICK b \in Clients : LockAndChoose(b)
    BY <1>1
  <2>1. \A c \in Clients : ~ Dispatching(c)
    BY DEF LockAndChoose, Inv, OneToken
  <2> QED  BY <2>1 DEF LockAndChoose, ChosenSlot, Dispatching, Inv, Types
<1>2. CASE \E b \in Clients : Call(b) \/ Scan(b)
  BY <1>2 DEF Call, Scan, ChosenSlot, Dispatching, Inv, Types
<1>3. CASE \E b \in Clients : dispatch_thread(b)
  BY <1>3 DEF dispatch_thread, FillSlot, Post, ChosenSlot, Dispatching, Inv, Types
<1>4. ASSUME UNCHANGED <<clientVars, free_sem_loc>> PROVE ChosenSlot'
  BY <1>4 DEF clientVars, ChosenSlot, Dispatching
<1>5. CASE ThreadPool \/ \E w \in Workers : worker_thread(w)
  BY <1>4, <1>5 DEF ThreadPool, CreateWorker, NextWorker, worker_thread, ReadIndex,
                    SemWait, RunTask, UnlockAfterTask
<1>6. CASE UNCHANGED vars
  BY <1>4, <1>6 DEF vars
<1> QED  BY <1>1, <1>2, <1>3, <1>5, <1>6 DEF Next, Finished, thread_avail

\* Where the pacing works, every worker gets its own index.
LEMMA OwnIndexNext ==
  ASSUME Paced, Inv, OwnIndex, [Next]_vars
  PROVE  OwnIndex'
<1> USE CountAssumption DEF Workers
<1>1. CASE CreateWorker
  BY <1>1 DEF CreateWorker, OwnIndex, Inv, Types, clientVars, Constructed
<1>2. CASE NextWorker
  <2>1. wstate[k] \notin {"none", "born"} /\ UNCHANGED <<wstate, in>> /\ k' = k + 1 /\ k \in Workers
    BY <1>2 DEF NextWorker, poolVars
  <2>2. k # ThreadCount /\ \A c \in Clients : cstate'[c] = "next"
    BY <1>2, <2>1 DEF NextWorker, OwnIndex, Constructed, clientVars
  <2>3. \A w \in Workers : w < k' => wstate'[w] \notin {"none", "born"}
    BY <2>1 DEF OwnIndex
  <2>4. \A w \in Workers : wstate'[w] # "born"
    BY <2>1 DEF OwnIndex
  <2> QED  BY <2>1, <2>2, <2>3, <2>4 DEF OwnIndex
<1>3. ASSUME NEW w \in Workers, worker_thread(w) PROVE OwnIndex'
  <2>1. /\ UNCHANGED <<k, cstate>> /\ wstate[w] # "none"
        /\ \A v \in Workers \ {w} : wstate'[v] = wstate[v] /\ in'[v] = in[v]
        /\ wstate'[w] \notin {"none", "born"}
    BY <1>3 DEF worker_thread, ReadIndex, SemWait, RunTask, UnlockAfterTask, Inv, Types,
                clientVars
  <2>2. in'[w] = w
    <3>1. CASE ReadIndex(w)
      BY <3>1 DEF ReadIndex, OwnIndex, Inv, Types
    <3>2. CASE SemWait(w) \/ RunTask(w) \/ UnlockAfterTask(w)
      BY <3>2 DEF SemWait, RunTask, UnlockAfterTask, OwnIndex
    <3> QED  BY <1>3, <3>1, <3>2 DEF worker_thread
  <2> QED  BY <2>1, <2>2 DEF OwnIndex, Constructed
<1>4. ASSUME NEW c \in Clients, Call(c) \/ thread_avail(c) \/ dispatch_thread(c)
      PROVE  OwnIndex'
  <2>1. UNCHANGED <<k, wstate, in>>
    BY <1>4 DEF Call, thread_avail, Scan, LockAndChoose, dispatch_thread, FillSlot,
                Post, poolVars
  <2>2. Constructed
    BY <1>4 DEF Call, thread_avail, Scan, LockAndChoose, dispatch_thread, FillSlot,
                Post, OwnIndex
  <2> QED  BY <2>1, <2>2 DEF OwnIndex, Constructed
<1>5. CASE UNCHANGED vars
  BY <1>5 DEF vars, poolVars, clientVars, OwnIndex, Constructed
<1> QED  BY <1>1, <1>2, <1>3, <1>4, <1>5 DEF Next, Finished, ThreadPool

\* No client gets past the slot whose number is that of the clients.
LEMMA FarAsClients ==
  ASSUME IsFiniteSet(Clients), FewGetFar, NEW i \in 1..Slots, NEW c \in InCallFrom(i)
  PROVE  Cardinality(Clients) \in Nat /\ i <= Cardinality(Clients)
<1>1. Cardinality(InCallFrom(i)) + i <= Cardinality(Clients) + 1
  BY DEF FewGetFar
<1>2. InCallFrom(i) \in SUBSET Clients /\ {} \in SUBSET InCallFrom(i) /\ c \in InCallFrom(i) \ {}
  BY DEF InCallFrom
<1>3. /\ Cardinality(InCallFrom(i)) \in Nat /\ Cardinality(Clients) \in Nat
      /\ Cardinality({}) + 1 <= Cardinality(InCallFrom(i))
  BY <1>2, FewerGetFar
<1>4. Cardinality({}) = 0
  BY FS_EmptySet
<1> QED  BY <1>1, <1>3, <1>4

\* So the slot a client fills is a worker's, if the workers are more.
LEMMA FillsWorkersSlot ==
  ASSUME IsFiniteSet(Clients), Cardinality(Clients) < ThreadCount,
         Inv, FewGetFar, ChosenSlot, NEW c \in Clients, Dispatching(c)
  PROVE  free_sem_loc \in Workers
<1> USE CountAssumption DEF Workers
<1>1. free_sem_loc \in 0..(Slots - 1) /\ j[c] = free_sem_loc
  BY DEF Inv, Types, ChosenSlot, Indexes
<1>2. CASE free_sem_loc = 0
  <2>1. Cardinality(Clients) \in Nat
    BY FS_CardinalityType
  <2> QED  BY <1>2, <2>1
<1>3. CASE free_sem_loc # 0
  <2>1. free_sem_loc \in 1..Slots /\ c \in InCallFrom(free_sem_loc)
    BY <1>1, <1>3 DEF InCallFrom, Dispatching
  <2>2. Cardinality(Clients) \in Nat /\ free_sem_loc <= Cardinality(Clients)
    BY <2>1, FarAsClients
  <2> QED  BY <2>1, <2>2
<1> QED  BY <1>2, <1>3

\* Where every client can get, whatever the workers do.
FarInv == Inv /\ FewGetFar /\ ChosenSlot

\* FarInv is an invariant of a pool with finitely many clients.
LEMMA FarInvAlways ==
  ASSUME IsFiniteSet(Clients)
  PROVE  Spec => []FarInv
<1>1. Init => FarInv
  <2> SUFFICES ASSUME Init PROVE FarInv
    OBVIOUS
  <2>1. FewGetFar
    BY DEF Init, FewGetFar, InCallFrom, Posted
  <2>2. ChosenSlot
    BY DEF Init, ChosenSlot, Dispatching
  <2> QED  BY <2>1, <2>2, InitInv DEF FarInv
<1>2. FarInv /\ [Next]_vars => FarInv'
  BY NextInv, FewGetFarNext, ChosenSlotNext DEF FarInv
<1> QED  BY <1>1, <1>2, PTL DEF Spec

(* No scan has come to the end of the slots.                               *)
NotTurnedAway == \A c \in Clients : cstate[c] = "scan" => j[c] # Slots

\* If there are more slots than clients no scan comes to the end of the slots:
\* thread_avail never returns 0, and drops no task, whatever the others take
\* from under its scan.
THEOREM MoreSlotsThanClients ==
  ASSUME IsFiniteSet(Clients), Cardinality(Clients) < Slots
  PROVE  Spec => []NotTurnedAway
<1>1. FarInv => NotTurnedAway
  <2> SUFFICES ASSUME FarInv, NEW c \in Clients, cstate[c] = "scan", j[c] = Slots PROVE FALSE
    BY DEF NotTurnedAway
  <2>1. Slots \in 1..Slots /\ c \in InCallFrom(Slots)
    BY CountAssumption DEF InCallFrom
  <2>2. Cardinality(Clients) \in Nat /\ Slots <= Cardinality(Clients)
    BY <2>1, FarAsClients DEF FarInv
  <2> QED  BY <2>2, CountAssumption
<1> QED  BY <1>1, FarInvAlways, PTL

\* OwnIndex is an invariant where the constructor is paced.
LEMMA OwnIndexAlways ==
  ASSUME Paced
  PROVE  Spec => []OwnIndex
<1>1. Init => OwnIndex
  BY CountAssumption DEF Init, OwnIndex, Workers
<1>2. Inv /\ OwnIndex /\ [Next]_vars => OwnIndex'
  BY OwnIndexNext
<1> QED  BY <1>1, <1>2, InvAlways, PTL DEF Spec

\* Whatever the clients see while they scan, a pool with more workers than
\* clients, constructed at the pace its author counted on, never has a task put
\* in a slot that no worker waits at: only so many clients get so far.
THEOREM MoreWorkersThanClients ==
  ASSUME Paced, IsFiniteSet(Clients), Cardinality(Clients) < ThreadCount
  PROVE  Spec => []SlotHasWorker
<1>1. FarInv /\ OwnIndex => SlotHasWorker
  <2> SUFFICES ASSUME FarInv, OwnIndex, NEW c \in Clients, cstate[c] \in {"fill", "post"}
               PROVE  \E w \in Workers : wstate[w] # "born" /\ in[w] = free_sem_loc
    BY DEF SlotHasWorker
  <2>1. free_sem_loc \in Workers
    BY FillsWorkersSlot DEF FarInv, Dispatching
  <2>2. wstate[free_sem_loc] \notin {"none", "born"} /\ in[free_sem_loc] = free_sem_loc
    BY <2>1, CountAssumption DEF OwnIndex, Constructed, Workers
  <2> QED  BY <2>1, <2>2
<1> QED  BY <1>1, FarInvAlways, OwnIndexAlways, PTL

-----------------------------------------------------------------------------
(* Deadlock.  When a thread of the pool is not kept waiting, by a worker    *)
(* that is not there yet, a semaphore or the mutex: the guards of its      *)
(* actions.                                                                *)
ConstructorCanRun == k \in Workers /\ wstate[k] # "born"

WorkerCanRun(w) == \/ wstate[w] \in {"born", "running", "unlock"}
                   \/ wstate[w] = "idle" /\ Posted(in[w])

ClientCanRun(c) == \/ Constructed /\ cstate[c] = "next" /\ offered[c] < N
                   \/ cstate[c] \in {"scan", "fill", "post"}
                   \/ cstate[c] = "lock" /\ ~ lock

AllWaiting == /\ ~ ConstructorCanRun
              /\ \A w \in Workers : ~ WorkerCanRun(w)
              /\ \A c \in Clients : ~ ClientCanRun(c)

AllRun == \A t \in Tasks : \E n \in DOMAIN ran : ran[n] = t

(* A posted semaphore is a worker's.                                       *)
PostServed == \A i \in Indexes : Posted(i) => i \in Workers /\ Constructed

(* A task that is offered is in its client's hands or has been dispatched.  *)
Dispatched(t) == \E n \in DOMAIN dispatched : dispatched[n] = t

NoneDropped == \A c \in Clients : \A n \in 1..N : n <= offered[c] =>
                 (cstate[c] # "next" /\ n = offered[c]) \/ Dispatched(<<c, n>>)

\* What is dispatched is added to the list, and nothing leaves it.
LEMMA DispatchedGrows ==
  ASSUME Inv, NEW c \in Clients, Post(c)
  PROVE  /\ Dispatched(<<c, offered[c]>>)'
         /\ \A t : Dispatched(t) => Dispatched(t)'
<1>1. dispatched \in Seq(Tasks) /\ dispatched' = Append(dispatched, <<c, offered[c]>>)
      /\ offered' = offered
  BY DEF Post, Inv, Types
<1> DEFINE d == <<c, offered[c]>>
<1> HIDE DEF d
<1>2. /\ DOMAIN dispatched = 1..Len(dispatched) /\ DOMAIN dispatched' = 1..(Len(dispatched) + 1)
      /\ Len(dispatched) \in Nat /\ dispatched'[Len(dispatched) + 1] = d
      /\ \A n \in 1..Len(dispatched) : dispatched'[n] = dispatched[n]
  BY <1>1 DEF d
<1>3. Len(dispatched) + 1 \in DOMAIN dispatched' /\ DOMAIN dispatched \subseteq DOMAIN dispatched'
  BY <1>2
<1> QED  BY <1>1, <1>2, <1>3 DEF Dispatched, d

\* A semaphore is only posted for a worker.
LEMMA PostServedNext ==
  ASSUME IsFiniteSet(Clients), Cardinality(Clients) < ThreadCount,
         FarInv, OwnIndex, PostServed, [Next]_vars
  PROVE  PostServed'
<1> USE DEF FarInv, Inv, Types, PostServed, Posted, Constructed
<1>1. k' = k \/ NextWorker
  BY DEF Next, Finished, ThreadPool, CreateWorker, worker_thread, ReadIndex, SemWait, RunTask,
         UnlockAfterTask, Call, thread_avail, Scan, LockAndChoose, dispatch_thread, FillSlot, Post,
         vars
<1>2. CASE NextWorker
  BY <1>2, CountAssumption DEF NextWorker, poolVars, Workers
<1>3. ASSUME NEW c \in Clients, Post(c) PROVE PostServed'
  <2>1. free_sem_loc \in Workers
    BY <1>3, FillsWorkersSlot DEF Post, Dispatching
  <2>2. Constructed /\ k' = k
    BY <1>3 DEF Post, OwnIndex
  <2>3. \A i \in Indexes \ {free_sem_loc} : semaphore'[i] = semaphore[i]
    BY <1>3 DEF Post
  <2> QED  BY <2>1, <2>2, <2>3
<1>4. ASSUME NEW w \in Workers, SemWait(w) PROVE PostServed'
  <2>1. \A i \in Indexes : Posted(i)' => Posted(i)
    BY <1>4 DEF SemWait
  <2> QED  BY <1>4, <2>1 DEF SemWait
<1>5. CASE UNCHANGED <<semaphore, k>>
  BY <1>5
<1> QED
  BY <1>2, <1>3, <1>4, <1>5
  DEF Next, Finished, ThreadPool, CreateWorker, worker_thread, ReadIndex, RunTask, UnlockAfterTask,
      Call, thread_avail, Scan, LockAndChoose, dispatch_thread, FillSlot, vars, poolVars

\* No task is dropped: it stays with its client until that posts it.
LEMMA NoneDroppedNext ==
  ASSUME Inv, NotTurnedAway, NoneDropped, [Next]_vars
  PROVE  NoneDropped'
<1>1. ASSUME NEW c \in Clients, Call(c) PROVE NoneDropped'
  <2>1. /\ cstate[c] = "next" /\ cstate' = [cstate EXCEPT ![c] = "scan"]
        /\ offered' = [offered EXCEPT ![c] = @ + 1] /\ dispatched' = dispatched
    BY <1>1 DEF Call
  <2>2. \A d \in Clients \ {c} : cstate'[d] = cstate[d] /\ offered'[d] = offered[d]
    BY <2>1 DEF Inv, Types
  <2>3. cstate'[c] = "scan" /\ offered'[c] = offered[c] + 1 /\ offered[c] \in Nat
    BY <2>1 DEF Inv, Types
  <2>4. \A n \in 1..N : n <= offered'[c] => n <= offered[c] \/ n = offered'[c]
    BY <2>3
  <2> QED  BY <2>1, <2>2, <2>3, <2>4 DEF NoneDropped, Dispatched
<1>2. ASSUME NEW c \in Clients, Post(c) PROVE NoneDropped'
  <2>1. UNCHANGED offered /\ \A d \in Clients \ {c} : cstate'[d] = cstate[d]
    BY <1>2 DEF Post, Inv, Types
  <2>2. Dispatched(<<c, offered[c]>>)' /\ \A t : Dispatched(t) => Dispatched(t)'
    BY <1>2, DispatchedGrows
  <2> QED  BY <2>1, <2>2 DEF NoneDropped
<1>3. ASSUME NEW c \in Clients, Scan(c) \/ LockAndChoose(c) \/ FillSlot(c) PROVE NoneDropped'
  <2>1. /\ UNCHANGED <<offered, dispatched>> /\ cstate[c] # "next" /\ cstate'[c] # "next"
        /\ \A d \in Clients \ {c} : cstate'[d] = cstate[d]
    BY <1>3 DEF Scan, LockAndChoose, FillSlot, Inv, Types, NotTurnedAway
  <2> QED  BY <2>1 DEF NoneDropped, Dispatched
<1>4. CASE UNCHANGED <<offered, cstate, dispatched>>
  BY <1>4 DEF NoneDropped, Dispatched
<1> QED
  BY <1>1, <1>2, <1>3, <1>4
  DEF Next, Finished, ThreadPool, CreateWorker, NextWorker, worker_thread, ReadIndex, SemWait,
      RunTask, UnlockAfterTask, thread_avail, dispatch_thread, vars, clientVars

\* Under the same conditions the threads never all wait for each other, with
\* the mutex left locked or a semaphore posted for nobody: some thread can go on
\* until every task of every client has been run.
THEOREM NeverAllWaiting ==
  ASSUME Paced, IsFiniteSet(Clients), Cardinality(Clients) < ThreadCount
  PROVE  Spec => [](AllWaiting => AllRun)
<1> USE CountAssumption, NAssumption
<1> DEFINE IInv == FarInv /\ OwnIndex /\ PostServed /\ NoneDropped
<1>1. Init => PostServed /\ NoneDropped
  BY DEF Init, PostServed, Posted, NoneDropped
<1>2. FarInv /\ NotTurnedAway /\ OwnIndex /\ PostServed /\ NoneDropped /\ [Next]_vars
      => PostServed' /\ NoneDropped'
  BY PostServedNext, NoneDroppedNext DEF FarInv
<1>3. IInv => (AllWaiting => AllRun)
  <2> SUFFICES ASSUME IInv, AllWaiting PROVE AllRun
    OBVIOUS
  <2>1. Constructed
    <3> SUFFICES ASSUME k # ThreadCount PROVE FALSE
      BY DEF Constructed
    <3>1. k \in Workers
      BY DEF FarInv, Inv, Types, Workers
    <3> QED  BY <3>1 DEF AllWaiting, ConstructorCanRun, WorkerCanRun
  <2>2. \A w \in Workers : wstate[w] = "idle" /\ in[w] = w
    <3>1. \A w \in Workers : w < k
      BY <2>1 DEF Constructed, Workers
    <3>2. \A w \in Workers : wstate[w] \in {"none", "born", "idle", "running", "unlock"}
      BY DEF FarInv, Inv, Types
    <3> QED  BY <3>1, <3>2 DEF OwnIndex, AllWaiting, WorkerCanRun
  <2>3. \A i \in Indexes : ~ Posted(i)
    BY <2>2 DEF PostServed, AllWaiting, WorkerCanRun
  <2>4. \A w \in Workers : ~ Working(w)
    BY <2>2 DEF Working
  <2>5. \A c \in Clients : ~ Dispatching(c)
    BY DEF Dispatching, AllWaiting, ClientCanRun
  <2>6. ~ lock
    BY <2>3, <2>4, <2>5 DEF FarInv, Inv, OneToken
  <2>7. \A c \in Clients : cstate[c] = "next" /\ offered[c] = N
    <3> SUFFICES ASSUME NEW c \in Clients PROVE cstate[c] = "next" /\ offered[c] = N
      OBVIOUS
    <3>1. cstate[c] \in {"next", "scan", "lock", "fill", "post"} /\ offered[c] \in 0..N
      BY DEF FarInv, Inv, Types
    <3>2. cstate[c] = "next" /\ ~ (offered[c] < N)
      BY <2>1, <2>6, <3>1 DEF AllWaiting, ClientCanRun
    <3> HIDE DEF IInv
    <3> QED  BY <3>1, <3>2
  <2>8. Len(dispatched) = Len(ran) /\ \A n \in 1..Len(ran) : ran[n] = dispatched[n]
    BY <2>2, <2>3 DEF FarInv, Inv, OneOutstanding, Outstanding
  <2>9. DOMAIN ran = 1..Len(ran) /\ DOMAIN dispatched = 1..Len(dispatched)
    BY DEF FarInv, Inv, Types
  <2>10. ASSUME NEW c \in Clients, NEW n \in 1..N PROVE Dispatched(<<c, n>>)
    BY <2>7 DEF NoneDropped
  <2>11. ASSUME NEW t \in Tasks PROVE Dispatched(t)
    <3>1. PICK c \in Clients, n \in 1..N : t = <<c, n>>
      BY DEF Tasks
    <3> QED  BY <2>10, <3>1
  <2> QED  BY <2>8, <2>9, <2>11 DEF AllRun, Dispatched
<1>4. IsFiniteSet(Clients) /\ Cardinality(Clients) < Slots
  <2>1. Cardinality(Clients) \in Nat
    BY FS_CardinalityType
  <2> QED  BY <2>1
<1>5. Spec => []NotTurnedAway
  BY <1>4, MoreSlotsThanClients
<1>6. Spec => []FarInv
  BY FarInvAlways
<1>7. Spec => []OwnIndex
  BY OwnIndexAlways
<1> QED  BY <1>1, <1>2, <1>3, <1>5, <1>6, <1>7, PTL DEF Spec

-----------------------------------------------------------------------------
(* The Message class.  First its loops: a recursive function is some        *)
(* function that satisfies its equation, so that each proof names one that  *)
(* does, by what it holds after every round, and shows that any other has   *)
(* the same values.                                                        *)

\* What holds before the first round of a loop, and after a round if it did
\* before it, holds after every round.
LEMMA RoundByRound ==
  ASSUME NEW n \in Nat, NEW S, 0 \in S, \A i \in 1..n : i - 1 \in S => i \in S
  PROVE  0..n \subseteq S
<1> DEFINE R == {ss \in Nat \X Nat : ss[1] < ss[2]}
           D == 0..n \ S
<1> SUFFICES ASSUME D # {} PROVE FALSE
  OBVIOUS
<1>1. IsWellFoundedOn(R, Nat)
  BY NatLessThanWellFounded DEF OpToRel
<1>2. D \subseteq Nat
  OBVIOUS
<1>3. PICK m \in D : \A y \in D : ~ (<<y, m>> \in R)
  BY <1>1, <1>2, WFMin
<1>4. m \in 1..n
  OBVIOUS
<1>5. m - 1 \in 0..n /\ <<m - 1, m>> \in R
  BY <1>4
<1>6. m - 1 \in S
  BY <1>3, <1>5
<1> QED  BY <1>4, <1>6

\* msgAddHdr's loop puts the whole header in front of the list.
LEMMA PushedIs ==
  ASSUME NEW list \in Seq(Bytes), NEW hdr \in Seq(Bytes)
  PROVE  Pushed(list, hdr) = hdr \o list
<1> DEFINE n == Len(hdr)
           Rounds(f) == [i \in 0..n |-> IF i = 0 THEN list ELSE <<hdr[n - i + 1]>> \o f[i - 1]]
           after == CHOOSE f : f = Rounds(f)
           left == [i \in 0..n |-> SubSeq(hdr, n - i + 1, n) \o list]
<1>1. n \in Nat
  OBVIOUS
<1>2. ASSUME NEW i \in 1..n PROVE left[i] = <<hdr[n - i + 1]>> \o left[i - 1]
  OBVIOUS
<1>3. left[0] = list
  OBVIOUS
<1>4. left = Rounds(left)
  <2>1. left = [i \in 0..n |-> left[i]]
    OBVIOUS
  <2> HIDE DEF left, n
  <2>2. \A i \in 0..n : left[i] = IF i = 0 THEN list ELSE <<hdr[n - i + 1]>> \o left[i - 1]
    <3> TAKE i \in 0..n
    <3>1. i # 0 => i \in 1..n
      BY <1>1
    <3> QED  BY <1>2, <1>3, <3>1, Zenon
  <2> QED  BY <2>1, <2>2, Zenon
<1>5. after = Rounds(after)
  <2> HIDE DEF left, Rounds
  <2> QED BY <1>4
<1>6. \A i \in 0..n : after[i] = left[i]
  <2>1. \A i \in 0..n : after[i] = IF i = 0 THEN list ELSE <<hdr[n - i + 1]>> \o after[i - 1]
    <3> HIDE DEF after, n
    <3> QED  BY <1>5
  <2> HIDE DEF left, after, n, Rounds
  <2>2. after[0] = left[0]
    <3>1. 0 \in 0..n
      BY <1>1
    <3> QED  BY <1>3, <2>1, <3>1, Zenon
  <2>3. ASSUME NEW i \in 1..n, after[i - 1] = left[i - 1] PROVE after[i] = left[i]
    <3>1. i \in 0..n /\ i # 0
      BY <1>1
    <3> QED  BY <1>2, <2>1, <2>3, <3>1
  <2> DEFINE Same == {i \in 0..n : after[i] = left[i]}
  <2>4. 0 \in Same
    BY <1>1, <2>2
  <2>5. ASSUME NEW i \in 1..n, i - 1 \in Same PROVE i \in Same
    BY <1>1, <2>3, <2>5
  <2>6. 0..n \subseteq Same
    <3> HIDE DEF Same
    <3> QED  BY <1>1, <2>4, <2>5, RoundByRound
  <2> QED  BY <2>6
<1>7. Pushed(list, hdr) = after[n]
  BY DEF Pushed
<1>8. left[n] = hdr \o list
  <2>1. left[n] = SubSeq(hdr, 1, n) \o list
    BY <1>1
  <2>2. SubSeq(hdr, 1, n) = hdr
    OBVIOUS
  <2> QED  BY <2>1, <2>2
<1> HIDE DEF left, after, Rounds
<1> QED  BY <1>1, <1>6, <1>7, <1>8

\* A round of msgJoin's and msgStripHdr's loops, on what i - 1 rounds left.
LEMMA FrontRound ==
  ASSUME NEW from \in Seq(Bytes), NEW to \in Seq(Bytes), NEW i \in 1..Len(from)
  PROVE  /\ Tail(SubSeq(from, i, Len(from))) = SubSeq(from, i + 1, Len(from))
         /\ Append(to \o SubSeq(from, 1, i - 1), Head(SubSeq(from, i, Len(from))))
              = to \o SubSeq(from, 1, i)
<1>1. Tail(SubSeq(from, i, Len(from))) = SubSeq(from, i + 1, Len(from))
  OBVIOUS
<1>2. Head(SubSeq(from, i, Len(from))) = from[i]
  OBVIOUS
<1>3. Append(to \o SubSeq(from, 1, i - 1), from[i]) = to \o SubSeq(from, 1, i)
  OBVIOUS
<1> QED  BY <1>1, <1>2, <1>3

\* A round of msgSplit's loop, likewise.
LEMMA BackRound ==
  ASSUME NEW from \in Seq(Bytes), NEW to \in Seq(Bytes), NEW i \in 1..Len(from),
         NEW s, s = SubSeq(from, 1, Len(from) - (i - 1))
  PROVE  /\ SubSeq(s, 1, Len(s) - 1) = SubSeq(from, 1, Len(from) - i)
         /\ <<s[Len(s)]>> \o (SubSeq(from, Len(from) - (i - 1) + 1, Len(from)) \o to)
              = SubSeq(from, Len(from) - i + 1, Len(from)) \o to
<1> DEFINE l == Len(from)
<1>1. Len(s) = l - i + 1 /\ Len(s) \in Nat /\ l \in Nat /\ s \in Seq(Bytes)
  OBVIOUS
<1>2. SubSeq(s, 1, Len(s) - 1) = SubSeq(from, 1, l - i)
  BY <1>1
<1>3. s[Len(s)] = from[l - i + 1]
  BY <1>1
<1>4. <<from[l - i + 1]>> \o (SubSeq(from, l - (i - 1) + 1, l) \o to)
        = SubSeq(from, l - i + 1, l) \o to
  OBVIOUS
<1> QED  BY <1>2, <1>3, <1>4

\* msgJoin's and msgStripHdr's loops move a prefix to the end of the other list.
LEMMA MovedFrontIs ==
  ASSUME NEW from \in Seq(Bytes), NEW to \in Seq(Bytes), NEW n \in 0..Len(from)
  PROVE  MovedFront(from, to, n) = [from |-> SubSeq(from, n + 1, Len(from)),
                                    to   |-> to \o SubSeq(from, 1, n)]
<1> DEFINE start == [from |-> from, to |-> to]
           Rounds(f) == [i \in 0..n |->
                           IF i = 0 THEN start
                           ELSE [from |-> Tail(f[i - 1].from),
                                 to   |-> Append(f[i - 1].to, Head(f[i - 1].from))]]
           after == CHOOSE f : f = Rounds(f)
           left == [i \in 0..n |-> [from |-> SubSeq(from, i + 1, Len(from)),
                                    to   |-> to \o SubSeq(from, 1, i)]]
<1>1. n \in Nat
  OBVIOUS
<1>2. ASSUME NEW i \in 1..n
      PROVE  left[i] = [from |-> Tail(left[i - 1].from),
                        to   |-> Append(left[i - 1].to, Head(left[i - 1].from))]
  <2>1. i \in 1..Len(from) /\ i \in 0..n /\ i - 1 \in 0..n /\ (i - 1) + 1 = i
    OBVIOUS
  <2>2. /\ left[i - 1].from = SubSeq(from, i, Len(from))
        /\ left[i - 1].to = to \o SubSeq(from, 1, i - 1)
    BY <2>1
  <2>3. left[i] = [from |-> SubSeq(from, i + 1, Len(from)), to |-> to \o SubSeq(from, 1, i)]
    BY <2>1
  <2> HIDE DEF left
  <2> QED  BY <2>1, <2>2, <2>3, FrontRound, Zenon
<1>3. left[0] = start
  <2>1. SubSeq(from, 1, Len(from)) = from /\ to \o SubSeq(from, 1, 0) = to
    OBVIOUS
  <2>2. left[0] = [from |-> SubSeq(from, 1, Len(from)), to |-> to \o SubSeq(from, 1, 0)]
    BY <1>1
  <2> QED  BY <2>1, <2>2
<1> HIDE DEF start
<1>4. left = Rounds(left)
  <2>1. left = [i \in 0..n |-> left[i]]
    OBVIOUS
  <2> HIDE DEF left
  <2>2. \A i \in 0..n : left[i] = IF i = 0 THEN start
                                  ELSE [from |-> Tail(left[i - 1].from),
                                        to   |-> Append(left[i - 1].to, Head(left[i - 1].from))]
    <3> TAKE i \in 0..n
    <3>1. i # 0 => i \in 1..n
      BY <1>1
    <3> QED  BY <1>2, <1>3, <3>1, Zenon
  <2> QED  BY <2>1, <2>2, Zenon
<1>5. after = Rounds(after)
  <2> HIDE DEF left, Rounds
  <2> QED  BY <1>4
<1>6. \A i \in 0..n : after[i] = left[i]
  <2>1. \A i \in 0..n : after[i] = IF i = 0 THEN start
                                   ELSE [from |-> Tail(after[i - 1].from),
                                         to   |-> Append(after[i - 1].to, Head(after[i - 1].from))]
    <3> HIDE DEF after
    <3> QED  BY <1>5
  <2> HIDE DEF left, after, Rounds
  <2>2. after[0] = left[0]
    <3>1. 0 \in 0..n
      BY <1>1
    <3> QED  BY <1>3, <2>1, <3>1, Zenon
  <2>3. ASSUME NEW i \in 1..n, after[i - 1] = left[i - 1] PROVE after[i] = left[i]
    <3>1. i \in 0..n /\ i # 0
      BY <1>1
    <3> QED  BY <1>2, <2>1, <2>3, <3>1, Zenon
  <2> DEFINE Same == {i \in 0..n : after[i] = left[i]}
  <2>4. 0 \in Same
    BY <1>1, <2>2
  <2>5. ASSUME NEW i \in 1..n, i - 1 \in Same PROVE i \in Same
    BY <1>1, <2>3, <2>5
  <2>6. 0..n \subseteq Same
    <3> HIDE DEF Same
    <3> QED  BY <1>1, <2>4, <2>5, RoundByRound
  <2> QED  BY <2>6
<1>7. MovedFront(from, to, n) = after[n]
  BY DEF MovedFront, start
<1>8. n \in 0..n /\ left[n] = [from |-> SubSeq(from, n + 1, Len(from)), to |-> to \o SubSeq(from, 1, n)]
  BY <1>1
<1> HIDE DEF left, after, Rounds
<1> QED  BY <1>6, <1>7, <1>8, Zenon

\* msgSplit's loop moves a suffix to the front of the other list.
LEMMA MovedBackIs ==
  ASSUME NEW from \in Seq(Bytes), NEW to \in Seq(Bytes), NEW n \in 0..Len(from)
  PROVE  MovedBack(from, to, n) = [from |-> SubSeq(from, 1, Len(from) - n),
                                   to   |-> SubSeq(from, Len(from) - n + 1, Len(from)) \o to]
<1> DEFINE start == [from |-> from, to |-> to]
           Round(prev) == [from |-> SubSeq(prev.from, 1, Len(prev.from) - 1),
                           to   |-> <<prev.from[Len(prev.from)]>> \o prev.to]
           Rounds(f) == [i \in 0..n |-> IF i = 0 THEN start ELSE Round(f[i - 1])]
           after == CHOOSE f : f = Rounds(f)
           left == [i \in 0..n |->
                      [from |-> SubSeq(from, 1, Len(from) - i),
                       to   |-> SubSeq(from, Len(from) - i + 1, Len(from)) \o to]]
<1>1. n \in Nat
  OBVIOUS
<1>2. ASSUME NEW i \in 1..n PROVE left[i] = Round(left[i - 1])
  <2>1. i \in 1..Len(from) /\ i \in 0..n /\ i - 1 \in 0..n
    OBVIOUS
  <2>2. /\ left[i - 1].from = SubSeq(from, 1, Len(from) - (i - 1))
        /\ left[i - 1].to = SubSeq(from, Len(from) - (i - 1) + 1, Len(from)) \o to
    BY <2>1
  <2>3. left[i] = [from |-> SubSeq(from, 1, Len(from) - i),
                   to   |-> SubSeq(from, Len(from) - i + 1, Len(from)) \o to]
    BY <2>1
  <2> DEFINE s == left[i - 1].from
  <2> HIDE DEF left
  <2>4. /\ SubSeq(s, 1, Len(s) - 1) = SubSeq(from, 1, Len(from) - i)
        /\ <<s[Len(s)]>> \o (SubSeq(from, Len(from) - (i - 1) + 1, Len(from)) \o to)
             = SubSeq(from, Len(from) - i + 1, Len(from)) \o to
    <3>1. s = SubSeq(from, 1, Len(from) - (i - 1))
      BY <2>2
    <3> HIDE DEF s
    <3> QED  BY <2>1, <3>1, BackRound
  <2> QED  BY <2>2, <2>3, <2>4, Zenon
<1>3. left[0] = start
  <2>1. SubSeq(from, 1, Len(from) - 0) = from
        /\ SubSeq(from, Len(from) - 0 + 1, Len(from)) \o to = to
    OBVIOUS
  <2>2. left[0] = [from |-> SubSeq(from, 1, Len(from) - 0),
                   to   |-> SubSeq(from, Len(from) - 0 + 1, Len(from)) \o to]
    BY <1>1
  <2> HIDE DEF left
  <2> QED  BY <2>1, <2>2, Zenon
<1>7. MovedBack(from, to, n) = after[n]
  BY DEF MovedBack
<1> HIDE DEF start, Round
<1>4. left = Rounds(left)
  <2>1. left = [i \in 0..n |-> left[i]]
    OBVIOUS
  <2> HIDE DEF left
  <2>2. \A i \in 0..n : left[i] = IF i = 0 THEN start ELSE Round(left[i - 1])
    <3> TAKE i \in 0..n
    <3>1. i # 0 => i \in 1..n
      BY <1>1
    <3> QED  BY <1>2, <1>3, <3>1, Zenon
  <2> QED  BY <2>1, <2>2, Zenon
<1>5. after = Rounds(after)
  <2> HIDE DEF left, Rounds
  <2> QED  BY <1>4
<1>6. \A i \in 0..n : after[i] = left[i]
  <2>1. \A i \in 0..n : after[i] = IF i = 0 THEN start ELSE Round(after[i - 1])
    <3> HIDE DEF after
    <3> QED  BY <1>5
  <2> HIDE DEF left, after, Rounds
  <2>2. after[0] = left[0]
    <3>1. 0 \in 0..n
      BY <1>1
    <3> QED  BY <1>3, <2>1, <3>1, Zenon
  <2>3. ASSUME NEW i \in 1..n, after[i - 1] = left[i - 1] PROVE after[i] = left[i]
    <3>1. i \in 0..n /\ i # 0
      BY <1>1
    <3> QED  BY <1>2, <2>1, <2>3, <3>1, Zenon
  <2> DEFINE Same == {i \in 0..n : after[i] = left[i]}
  <2>4. 0 \in Same
    BY <1>1, <2>2
  <2>5. ASSUME NEW i \in 1..n, i - 1 \in Same PROVE i \in Same
    BY <1>1, <2>3, <2>5
  <2>6. 0..n \subseteq Same
    <3> HIDE DEF Same
    <3> QED  BY <1>1, <2>4, <2>5, RoundByRound
  <2> QED  BY <2>6
<1>8. n \in 0..n /\ left[n] = [from |-> SubSeq(from, 1, Len(from) - n),
                               to   |-> SubSeq(from, Len(from) - n + 1, Len(from)) \o to]
  BY <1>1
<1> HIDE DEF left, after, Rounds
<1> QED  BY <1>6, <1>7, <1>8, Zenon

\* The two parts of a list cut after n bytes.
LEMMA Cut ==
  ASSUME NEW s \in Seq(Bytes), NEW n \in 0..Len(s)
  PROVE  /\ SubSeq(s, 1, n) \in Seq(Bytes) /\ Len(SubSeq(s, 1, n)) = n
         /\ SubSeq(s, n + 1, Len(s)) \in Seq(Bytes)
         /\ Len(SubSeq(s, n + 1, Len(s))) = Len(s) - n
OBVIOUS

\* One list put behind another.
LEMMA Glue ==
  ASSUME NEW s \in Seq(Bytes), NEW t \in Seq(Bytes)
  PROVE  s \o t \in Seq(Bytes) /\ Len(s \o t) = Len(s) + Len(t)
OBVIOUS

\* f lists what n rounds of T leave of start.
IsTurns(f, start, T, n) == f = [i \in 0..n |-> IF i = 0 THEN start ELSE T[f[i - 1]]]

\* There is such a list however many rounds there are.
LEMMA TurnsExist ==
  ASSUME NEW S, NEW start \in S, NEW T \in [S -> S], NEW n \in Nat
  PROVE  \E f \in [0..n -> S] : IsTurns(f, start, T, n)
<1> DEFINE Turns(f, m) == [i \in 0..m |-> IF i = 0 THEN start ELSE T[f[i - 1]]]
           Done == {m \in 0..n : \E f \in [0..m -> S] : f = Turns(f, m)}
<1>1. 0 \in Done
  <2> DEFINE f == [i \in 0..0 |-> start]
  <2>1. f = Turns(f, 0) /\ f \in [0..0 -> S]
    OBVIOUS
  <2>2. 0 \in 0..n
    OBVIOUS
  <2> HIDE DEF f, Turns
  <2> QED  BY <2>1, <2>2
<1>2. ASSUME NEW m \in 1..n, m - 1 \in Done PROVE m \in Done
  <2>1. PICK f \in [0..(m - 1) -> S] : f = Turns(f, m - 1)
    BY <1>2
  <2> DEFINE g == [i \in 0..m |-> IF i = m THEN T[f[m - 1]] ELSE f[i]]
  <2>2. m \in Nat /\ m # 0 /\ m \in 0..n /\ m - 1 \in 0..(m - 1)
        /\ \A i \in 0..m : (i # m => i \in 0..(m - 1)) /\ (i # 0 => i - 1 \in 0..(m - 1))
    OBVIOUS
  <2>3. T[f[m - 1]] \in S
    BY <2>2
  <2>4. g \in [0..m -> S]
    BY <2>2, <2>3
  <2>5. \A i \in 0..m : g[i] = IF i = 0 THEN start ELSE T[g[i - 1]]
    <3> TAKE i \in 0..m
    <3>1. CASE i = m
      <4>1. g[i] = T[f[m - 1]] /\ g[i - 1] = f[m - 1]
        BY <2>2, <3>1
      <4> QED  BY <2>2, <3>1, <4>1
    <3>2. CASE i # m
      <4>1. i \in 0..(m - 1) /\ g[i] = f[i]
        BY <2>2, <3>2
      <4>2. i # 0 => g[i - 1] = f[i - 1]
        BY <2>2, <3>2
      <4>3. f[i] = IF i = 0 THEN start ELSE T[f[i - 1]]
        <5> HIDE DEF g
        <5> QED  BY <2>1, <4>1
      <4> HIDE DEF g
      <4> QED  BY <4>1, <4>2, <4>3
    <3> QED  BY <3>1, <3>2
  <2>6. g = Turns(g, m)
    <3>1. g = [i \in 0..m |-> g[i]]
      OBVIOUS
    <3> HIDE DEF g
    <3> QED  BY <2>5, <3>1
  <2> HIDE DEF g, Turns
  <2> QED  BY <2>2, <2>4, <2>6
<1>3. 0..n \subseteq Done
  <2> HIDE DEF Done
  <2> QED  BY <1>1, <1>2, RoundByRound
<1>4. n \in 0..n
  OBVIOUS
<1> QED  BY <1>3, <1>4 DEF IsTurns

\* One round of a loop over one list takes a byte from an end to the other.
LEMMA TurnKeeps ==
  ASSUME NEW t \in Seq(Bytes), t # << >>
  PROVE  /\ <<t[Len(t)]>> \o SubSeq(t, 1, Len(t) - 1) \in Seq(Bytes)
         /\ Len(<<t[Len(t)]>> \o SubSeq(t, 1, Len(t) - 1)) = Len(t)
         /\ Append(Tail(t), Head(t)) \in Seq(Bytes)
         /\ Len(Append(Tail(t), Head(t))) = Len(t)
<1>1. Len(t) \in Nat /\ Len(t) > 0 /\ t[Len(t)] \in Bytes /\ Head(t) \in Bytes
  OBVIOUS
<1>2. <<t[Len(t)]>> \in Seq(Bytes) /\ Len(<<t[Len(t)]>>) = 1
  BY <1>1
<1>3. SubSeq(t, 1, Len(t) - 1) \in Seq(Bytes) /\ Len(SubSeq(t, 1, Len(t) - 1)) = Len(t) - 1
  <2>1. Len(t) - 1 \in 0..Len(t)
    BY <1>1
  <2> QED  BY <2>1, Cut
<1>4. Tail(t) \in Seq(Bytes) /\ Len(Tail(t)) = Len(t) - 1
  BY <1>1
<1>5. Append(Tail(t), Head(t)) \in Seq(Bytes) /\ Len(Append(Tail(t), Head(t))) = Len(t)
  <2> DEFINE u == Tail(t)
             c == Head(t)
  <2>1. u \in Seq(Bytes) /\ c \in Bytes /\ Len(u) = Len(t) - 1 /\ Len(t) \in Nat
    BY <1>1, <1>4
  <2> HIDE DEF u, c
  <2>2. Append(u, c) \in Seq(Bytes) /\ Len(Append(u, c)) = Len(u) + 1
    BY <2>1
  <2> QED  BY <2>1, <2>2 DEF u, c
<1>6. /\ <<t[Len(t)]>> \o SubSeq(t, 1, Len(t) - 1) \in Seq(Bytes)
      /\ Len(<<t[Len(t)]>> \o SubSeq(t, 1, Len(t) - 1)) = Len(t)
  BY <1>1, <1>2, <1>3, Glue
<1> QED  BY <1>5, <1>6

\* A byte taken from the end of two lists put together is the second one's.
LEMMA TurnOfTwo ==
  ASSUME NEW u \in Seq(Bytes), NEW v \in Seq(Bytes), Len(v) > 0
  PROVE  <<(u \o v)[Len(u \o v)]>> \o SubSeq(u \o v, 1, Len(u \o v) - 1)
           = <<v[Len(v)]>> \o (u \o SubSeq(v, 1, Len(v) - 1))
<1> DEFINE t == u \o v
<1>1. Len(u) \in Nat /\ Len(v) \in Nat /\ Len(t) = Len(u) + Len(v)
  OBVIOUS
<1>2. t[Len(t)] = v[Len(v)]
  BY <1>1
<1>3. SubSeq(t, 1, Len(t) - 1) = u \o SubSeq(v, 1, Len(v) - 1)
  <2> DEFINE x == SubSeq(t, 1, Len(t) - 1)
             w == SubSeq(v, 1, Len(v) - 1)
             y == u \o w
  <2>1. x \in Seq(Bytes) /\ Len(x) = Len(u) + Len(v) - 1
    BY <1>1
  <2>2. w \in Seq(Bytes) /\ Len(w) = Len(v) - 1
    <3>1. Len(v) - 1 \in 0..Len(v)
      BY <1>1
    <3> QED  BY <3>1, Cut
  <2>3. y \in Seq(Bytes) /\ Len(y) = Len(u) + Len(v) - 1
    BY <1>1, <2>2
  <2>4. ASSUME NEW b \in 1..(Len(u) + Len(v) - 1) PROVE x[b] = y[b]
    <3>1. x[b] = t[b]
      BY <1>1
    <3>2. CASE b <= Len(u)
      BY <1>1, <2>2, <3>1, <3>2
    <3>3. CASE b > Len(u)
      <4>1. t[b] = v[b - Len(u)] /\ b - Len(u) \in 1..(Len(v) - 1)
        BY <1>1, <3>3
      <4>2. w[b - Len(u)] = v[b - Len(u)]
        BY <1>1, <4>1
      <4> HIDE DEF w
      <4>3. y[b] = w[b - Len(u)]
        BY <1>1, <2>2, <3>3
      <4> HIDE DEF x, y, t
      <4> QED  BY <3>1, <4>1, <4>2, <4>3
    <3>4. b <= Len(u) \/ b > Len(u)
      BY <1>1
    <3> QED  BY <3>2, <3>3, <3>4
  <2> HIDE DEF x, y
  <2>5. x = y
    BY <1>1, <2>1, <2>3, <2>4
  <2> QED  BY <2>5 DEF x, y
<1> HIDE DEF t
<1> QED  BY <1>2, <1>3 DEF t

\* What such a loop leaves after any number of rounds, if a round keeps to S.
LEMMA TurnsKeep ==
  ASSUME NEW S, NEW n \in Nat, NEW f, f[0] \in S, \A i \in 1..n : f[i - 1] \in S => f[i] \in S
  PROVE  \A i \in 0..n : f[i] \in S
<1> DEFINE Kept == {i \in 0..n : f[i] \in S}
<1>1. 0 \in Kept
  OBVIOUS
<1>2. ASSUME NEW i \in 1..n, i - 1 \in Kept PROVE i \in Kept
  BY <1>2
<1>3. 0..n \subseteq Kept
  <2> HIDE DEF Kept
  <2> QED  BY <1>1, <1>2, RoundByRound
<1> QED  BY <1>3

\* msgSplit's loop over one list: the bytes stay, and as many rounds as there
\* are bytes leave the list as it was.
LEMMA RotatedBackIs ==
  ASSUME NEW s \in Seq(Bytes), NEW n \in Nat, s # << >> \/ n = 0
  PROVE  /\ RotatedBack(s, n) \in Seq(Bytes) /\ Len(RotatedBack(s, n)) = Len(s)
         /\ n = Len(s) => RotatedBack(s, n) = s
<1> DEFINE Turn(t) == <<t[Len(t)]>> \o SubSeq(t, 1, Len(t) - 1)
           Turns(f) == [i \in 0..n |-> IF i = 0 THEN s ELSE Turn(f[i - 1])]
           after == CHOOSE f : f = Turns(f)
           S == {t \in Seq(Bytes) : Len(t) = Len(s)}
<1>1. RotatedBack(s, n) = after[n]
  BY DEF RotatedBack
<1>2. ASSUME NEW t \in S, s # << >> PROVE Turn(t) \in S
  <2>1. t \in Seq(Bytes) /\ Len(t) = Len(s) /\ t # << >>
    BY <1>2
  <2> QED  BY <2>1, TurnKeeps
<1>3. s \in S
  OBVIOUS
<1>4. \E f : f = Turns(f)
  <2> DEFINE T == [t \in S |-> IF s = << >> THEN t ELSE Turn(t)]
  <2> HIDE DEF Turn, S
  <2>1. T \in [S -> S]
    BY <1>2
  <2>2. PICK f \in [0..n -> S] : f = [i \in 0..n |-> IF i = 0 THEN s ELSE T[f[i - 1]]]
    <3> HIDE DEF T
    <3>1. \E f \in [0..n -> S] : IsTurns(f, s, T, n)
      BY <1>3, <2>1, TurnsExist, Zenon
    <3> QED  BY <3>1 DEF IsTurns
  <2>3. \A i \in 0..n : i # 0 => s # << >> /\ f[i - 1] \in S
    OBVIOUS
  <2>4. \A i \in 0..n : i # 0 => T[f[i - 1]] = Turn(f[i - 1])
    BY <2>3
  <2> HIDE DEF T
  <2>5. f = Turns(f)
    BY <2>2, <2>4
  <2> QED  BY <2>5
<1>5. after = Turns(after)
  <2> HIDE DEF Turns
  <2> QED  BY <1>4
<1> HIDE DEF after
<1>6. 0 \in 0..n /\ n \in 0..n /\ \A i \in 1..n : i \in 0..n /\ i # 0 /\ i - 1 \in 0..n
  OBVIOUS
<1>7. after[0] = s /\ \A i \in 1..n : after[i] = Turn(after[i - 1])
  <2> HIDE DEF Turn
  <2>1. \A i \in 0..n : after[i] = IF i = 0 THEN s ELSE Turn(after[i - 1])
    BY <1>5
  <2> HIDE DEF Turns
  <2> QED  BY <1>6, <2>1
<1>8. after[n] \in S
  <2> HIDE DEF Turn, S
  <2>1. \A i \in 1..n : after[i - 1] \in S => after[i] \in S
    BY <1>2, <1>7
  <2>2. after[0] \in S
    BY <1>3, <1>7
  <2>3. \A i \in 0..n : after[i] \in S
    BY <2>1, <2>2, TurnsKeep
  <2> QED  BY <1>6, <2>3
<1>9. ASSUME n = Len(s) PROVE after[n] = s
  <2> DEFINE Back(i) == SubSeq(s, Len(s) - i + 1, Len(s)) \o SubSeq(s, 1, Len(s) - i)
             Same == {i \in 0..n : after[i] = Back(i)}
  <2>1. 0 \in Same
    <3>1. Back(0) = s
      OBVIOUS
    <3> HIDE DEF Back
    <3> QED  BY <1>6, <1>7, <3>1
  <2>2. ASSUME NEW i \in 1..n, i - 1 \in Same PROVE i \in Same
    <3> DEFINE u == SubSeq(s, Len(s) - (i - 1) + 1, Len(s))
               v == SubSeq(s, 1, Len(s) - (i - 1))
               w == SubSeq(s, 1, Len(s) - i)
    <3>1. after[i - 1] = u \o v
      BY <2>2
    <3>2. i \in 1..Len(s) /\ Len(s) \in Nat
      BY <1>9
    <3>3. u \in Seq(Bytes) /\ v \in Seq(Bytes) /\ w \in Seq(Bytes)
          /\ Len(v) = Len(s) - (i - 1) /\ Len(v) > 0
      BY <3>2
    <3>4. SubSeq(v, 1, Len(v) - 1) = w /\ <<v[Len(v)]>> \o (u \o w) = Back(i)
      <4> HIDE DEF w
      <4>1. SubSeq(v, 1, Len(v) - 1) = w
        <5> USE DEF w
        <5> HIDE DEF v
        <5>1. v = SubSeq(s, 1, Len(s) - (i - 1))
          BY DEF v
        <5> QED  BY <3>2, <3>3, <5>1, BackRound
      <4>2. <<v[Len(v)]>> \o (u \o w) = SubSeq(s, Len(s) - i + 1, Len(s)) \o w
        <5> HIDE DEF v
        <5>1. v = SubSeq(s, 1, Len(s) - (i - 1))
          BY DEF v
        <5> QED  BY <3>2, <3>3, <5>1, BackRound
      <4> QED  BY <4>1, <4>2 DEF w
    <3> HIDE DEF u, v, w, Back
    <3>5. Turn(u \o v) = <<v[Len(v)]>> \o (u \o SubSeq(v, 1, Len(v) - 1))
      BY <3>3, TurnOfTwo
    <3>6. after[i] = Turn(after[i - 1]) /\ i \in 0..n
      BY <1>6, <1>7
    <3> HIDE DEF Turn
    <3>7. after[i] = Back(i)
      BY <3>1, <3>4, <3>5, <3>6
    <3> QED  BY <3>6, <3>7
  <2>3. 0..n \subseteq Same
    <3> HIDE DEF Same
    <3> QED  BY <2>1, <2>2, RoundByRound
  <2>4. after[n] = Back(n)
    BY <1>6, <2>3
  <2>5. Back(n) = s
    BY <1>9
  <2> QED  BY <2>4, <2>5
<1> HIDE DEF Turn, Turns
<1> QED  BY <1>1, <1>8, <1>9

\* msgJoin's loop over one list: the bytes stay.
LEMMA RotatedFrontIs ==
  ASSUME NEW s \in Seq(Bytes), NEW n \in Nat, s # << >> \/ n = 0
  PROVE  RotatedFront(s, n) \in Seq(Bytes) /\ Len(RotatedFront(s, n)) = Len(s)
<1> DEFINE Turn(t) == Append(Tail(t), Head(t))
           Turns(f) == [i \in 0..n |-> IF i = 0 THEN s ELSE Turn(f[i - 1])]
           after == CHOOSE f : f = Turns(f)
           S == {t \in Seq(Bytes) : Len(t) = Len(s)}
<1>1. RotatedFront(s, n) = after[n]
  BY DEF RotatedFront
<1>2. ASSUME NEW t \in S, s # << >> PROVE Turn(t) \in S
  <2>1. t \in Seq(Bytes) /\ Len(t) = Len(s) /\ t # << >>
    BY <1>2
  <2> QED  BY <2>1, TurnKeeps
<1>3. s \in S
  OBVIOUS
<1>4. \E f : f = Turns(f)
  <2> DEFINE T == [t \in S |-> IF s = << >> THEN t ELSE Turn(t)]
  <2> HIDE DEF Turn, S
  <2>1. T \in [S -> S]
    BY <1>2
  <2>2. PICK f \in [0..n -> S] : f = [i \in 0..n |-> IF i = 0 THEN s ELSE T[f[i - 1]]]
    <3> HIDE DEF T
    <3>1. \E f \in [0..n -> S] : IsTurns(f, s, T, n)
      BY <1>3, <2>1, TurnsExist, Zenon
    <3> QED  BY <3>1 DEF IsTurns
  <2>3. \A i \in 0..n : i # 0 => s # << >> /\ f[i - 1] \in S
    OBVIOUS
  <2>4. \A i \in 0..n : i # 0 => T[f[i - 1]] = Turn(f[i - 1])
    BY <2>3
  <2> HIDE DEF T
  <2>5. f = Turns(f)
    BY <2>2, <2>4
  <2> QED  BY <2>5
<1>5. after = Turns(after)
  <2> HIDE DEF Turns
  <2> QED  BY <1>4
<1> HIDE DEF after
<1>6. 0 \in 0..n /\ n \in 0..n /\ \A i \in 1..n : i \in 0..n /\ i # 0
  OBVIOUS
<1>7. after[0] = s /\ \A i \in 1..n : after[i] = Turn(after[i - 1])
  <2> HIDE DEF Turn
  <2>1. \A i \in 0..n : after[i] = IF i = 0 THEN s ELSE Turn(after[i - 1])
    BY <1>5
  <2> HIDE DEF Turns
  <2> QED  BY <1>6, <2>1
<1>8. after[n] \in S
  <2> HIDE DEF Turn, S
  <2>1. \A i \in 1..n : after[i - 1] \in S => after[i] \in S
    BY <1>2, <1>7
  <2>2. after[0] \in S
    BY <1>3, <1>7
  <2>3. \A i \in 0..n : after[i] \in S
    BY <2>1, <2>2, TurnsKeep
  <2> QED  BY <1>6, <2>3
<1> HIDE DEF Turn, Turns
<1> QED  BY <1>1, <1>8

-----------------------------------------------------------------------------
(* Types and lengths.  Together they are inductive: what an operation pops  *)
(* goes by the length, and what it leaves by the list.                     *)
MessageInv == MsgTypeOK /\ LengthExact

\* What an operation on one object does to the others, and to its own.
LEMMA OneObject ==
  ASSUME MessageInv, NEW o \in Objs, NEW list \in Seq(Bytes) \cup {Null}, NEW l \in 0..MaxLen,
         msgs' = [msgs EXCEPT ![o] = list],
         msg_length' = [msg_length EXCEPT ![o] = l],
         stripped' \in Seq(Bytes), UNCHANGED undefined, ~ undefined,
         misused' \ {o} = misused \ {o},
         o \in misused' => list # Null,
         o \notin misused' /\ list # Null => l = Len(list)
  PROVE  MessageInv'
<1>1. /\ msg_length' \in [Objs -> 0..MaxLen] /\ msgs' \in [Objs -> Seq(Bytes) \cup {Null}]
      /\ undefined' \in BOOLEAN
  BY DEF MessageInv, MsgTypeOK
<1>2. \A p \in Objs \ {o} : msgs'[p] = msgs[p] /\ msg_length'[p] = msg_length[p]
                            /\ (p \in misused' <=> p \in misused)
  BY DEF MessageInv, MsgTypeOK
<1>3. msgs'[o] = list /\ msg_length'[o] = l
  BY DEF MessageInv, MsgTypeOK
<1>4. misused' \subseteq {p \in Objs : Alive(p)'}
  BY <1>2, <1>3 DEF MessageInv, MsgTypeOK, Alive
<1>5. LengthExact'
  BY <1>2, <1>3 DEF MessageInv, LengthExact, Alive
<1> QED  BY <1>1, <1>4, <1>5 DEF MessageInv, MsgTypeOK

\* A pop too many: some object was misused, and nothing happens afterwards.
LEMMA UnderflowInv ==
  ASSUME MessageInv, NEW o \in Objs, NEW n \in Int, ~ undefined, Alive(o), n <= msg_length[o],
         Underflow(msgs[o], n)
  PROVE  MessageInv'
<1>1. msgs[o] \in Seq(Bytes) /\ Len(msgs[o]) \in Nat /\ msg_length[o] \in Nat
  BY DEF MessageInv, MsgTypeOK, Alive
<1>2. o \in misused
  BY <1>1 DEF MessageInv, LengthExact, Underflow
<1> QED  BY <1>2 DEF MessageInv, MsgTypeOK, LengthExact, Underflow, Alive

\* The constructors, the destructor and msgAddHdr.
LEMMA MessageOwnInv ==
  ASSUME MessageInv, NEW o \in Objs,
         \/ EmptyMessage(o) \/ DeleteMessage(o)
         \/ \E s \in Buffers : NewMessage(o, s) \/ msgAddHdr(o, s)
  PROVE  MessageInv'
<1> USE BuffersAssumption, MaxLenAssumption, NullAssumption
<1>1. stripped \in Seq(Bytes) /\ Null \notin Seq(Bytes)
  BY DEF MessageInv, MsgTypeOK
<1>2. CASE EmptyMessage(o)
  <2>1. o \notin misused /\ << >> \in Seq(Bytes) /\ Len(<< >>) = 0 /\ 0 \in 0..MaxLen
    BY <1>2 DEF EmptyMessage, MessageInv, MsgTypeOK
  <2> QED  BY <1>1, <1>2, <2>1, OneObject DEF EmptyMessage
<1>3. CASE DeleteMessage(o)
  <2>1. 0 \in 0..MaxLen
    OBVIOUS
  <2> QED  BY <1>1, <1>3, <2>1, OneObject DEF DeleteMessage, Called
<1>4. ASSUME NEW s \in Buffers, NewMessage(o, s) PROVE MessageInv'
  <2>1. s \in Seq(Bytes) /\ Len(s) \in 0..MaxLen /\ o \notin misused
    BY <1>4 DEF NewMessage, MessageInv, MsgTypeOK
  <2> QED  BY <1>1, <1>4, <2>1, OneObject DEF NewMessage
<1>5. ASSUME NEW s \in Buffers, msgAddHdr(o, s) PROVE MessageInv'
  <2>1. /\ msgs[o] \in Seq(Bytes) /\ s \in Seq(Bytes) /\ msg_length[o] \in 0..MaxLen
        /\ Alive(o) /\ ~ undefined
    BY <1>5 DEF msgAddHdr, Called, Alive, MessageInv, MsgTypeOK
  <2>2. Pushed(msgs[o], s) = s \o msgs[o]
    BY <2>1, PushedIs
  <2>3. s \o msgs[o] \in Seq(Bytes) /\ Len(s \o msgs[o]) = Len(s) + Len(msgs[o])
        /\ msg_length[o] + Len(s) \in 0..MaxLen
    BY <1>5, <2>1 DEF msgAddHdr
  <2>4. o \notin misused => msg_length[o] = Len(msgs[o])
    BY <2>1 DEF MessageInv, LengthExact
  <2>5. /\ msgs' = [msgs EXCEPT ![o] = s \o msgs[o]]
        /\ msg_length' = [msg_length EXCEPT ![o] = msg_length[o] + Len(s)]
    BY <1>5, <2>2 DEF msgAddHdr, MessageInv, MsgTypeOK
  <2>6. o \notin misused => msg_length[o] + Len(s) = Len(s \o msgs[o])
    BY <2>1, <2>3, <2>4
  <2>7. UNCHANGED <<stripped, undefined, misused>>
    BY <1>5 DEF msgAddHdr
  <2> HIDE DEF MessageInv
  <2> QED  BY <1>1, <2>1, <2>3, <2>5, <2>6, <2>7, OneObject
<1> QED  BY <1>2, <1>3, <1>4, <1>5

\* What msgStripHdr does to an object that has the bytes.
LEMMA StripFacts ==
  ASSUME MessageInv, NEW o \in Objs, NEW len \in Sizes, Called(o), ~ Refuses(o, len),
         len <= Len(msgs[o])
  PROVE  /\ len \in 1..msg_length[o] /\ msgs[o] \in Seq(Bytes) /\ len \in 1..Len(msgs[o])
         /\ msg_length[o] \in 0..MaxLen
         /\ MovedFront(msgs[o], << >>, len)
              = [from |-> SubSeq(msgs[o], len + 1, Len(msgs[o])), to |-> SubSeq(msgs[o], 1, len)]
<1> USE BuffersAssumption, MaxLenAssumption, NullAssumption
<1>1. len \in Int /\ msgs[o] \in Seq(Bytes) /\ Len(msgs[o]) \in Nat /\ msg_length[o] \in 0..MaxLen
  BY DEF Called, Alive, MessageInv, MsgTypeOK, Sizes
<1>2. len \in 1..msg_length[o] /\ len \in 1..Len(msgs[o])
  BY <1>1 DEF Refuses
<1>3. << >> \in Seq(Bytes) /\ len \in 0..Len(msgs[o])
  BY <1>1, <1>2
<1>4. << >> \o SubSeq(msgs[o], 1, len) = SubSeq(msgs[o], 1, len)
  BY <1>1, <1>2
<1> QED  BY <1>1, <1>2, <1>3, <1>4, MovedFrontIs

\* msgStripHdr.
LEMMA StripInv ==
  ASSUME MessageInv, NEW o \in Objs, NEW len \in Sizes, msgStripHdr(o, len)
  PROVE  MessageInv'
<1> USE BuffersAssumption, MaxLenAssumption, NullAssumption
<1>1. Called(o) /\ ~ undefined /\ Alive(o)
  BY DEF msgStripHdr, Called
<1>2. CASE Refuses(o, len)
  <2>1. /\ stripped' = << >> /\ UNCHANGED <<msg_length, msgs, undefined, misused>>
    BY <1>2 DEF msgStripHdr
  <2>2. << >> \in Seq(Bytes)
    OBVIOUS
  <2> QED  BY <2>1, <2>2 DEF MessageInv, MsgTypeOK, LengthExact, Alive
<1>3. CASE ~ Refuses(o, len) /\ Underflow(msgs[o], len)
  <2>1. len \in Int /\ msg_length[o] \in Nat /\ len <= msg_length[o]
    BY <1>3 DEF Refuses, Sizes, MessageInv, MsgTypeOK
  <2> QED  BY <1>1, <1>3, <2>1, UnderflowInv
<1>4. CASE ~ Refuses(o, len) /\ len <= Len(msgs[o]) /\ ~ Underflow(msgs[o], len)
  <2> DEFINE list == SubSeq(msgs[o], len + 1, Len(msgs[o]))
             l == msg_length[o] - len
  <2>1. /\ len \in 1..msg_length[o] /\ msgs[o] \in Seq(Bytes) /\ len \in 1..Len(msgs[o])
        /\ msg_length[o] \in 0..MaxLen
        /\ MovedFront(msgs[o], << >>, len) = [from |-> list, to |-> SubSeq(msgs[o], 1, len)]
    BY <1>1, <1>4, StripFacts
  <2>2. /\ stripped' = SubSeq(msgs[o], 1, len)
        /\ msgs' = [msgs EXCEPT ![o] = list]
        /\ msg_length' = [msg_length EXCEPT ![o] = l]
        /\ UNCHANGED <<undefined, misused>>
    <3> HIDE DEF list
    <3> QED  BY <1>4, <2>1 DEF msgStripHdr
  <2>3. /\ list \in Seq(Bytes) /\ Len(list) = Len(msgs[o]) - len /\ l \in 0..MaxLen
        /\ SubSeq(msgs[o], 1, len) \in Seq(Bytes)
    BY <2>1
  <2>4. o \notin misused => l = Len(list)
    BY <1>1, <2>1, <2>3 DEF MessageInv, LengthExact
  <2>5. list # Null
    BY <2>3
  <2> HIDE DEF list, l
  <2> QED  BY <1>1, <2>2, <2>3, <2>4, <2>5, OneObject
<1> QED  BY <1>2, <1>3, <1>4 DEF msgStripHdr

\* What msgSplit and msgJoin do to the objects other than their two, and to them.
LEMMA TwoObjects ==
  ASSUME MessageInv, NEW o \in Objs, NEW p \in Objs, o # p,
         NEW a \in Seq(Bytes), NEW b \in Seq(Bytes), NEW la \in 0..MaxLen, NEW lb \in 0..MaxLen,
         msgs' = [msgs EXCEPT ![o] = a, ![p] = b],
         msg_length' = [msg_length EXCEPT ![o] = la, ![p] = lb],
         ~ undefined, UNCHANGED <<stripped, undefined>>,
         misused \subseteq misused', misused' \subseteq misused \cup {o, p},
         o \notin misused' => la = Len(a),
         p \notin misused' => lb = Len(b)
  PROVE  MessageInv'
<1> USE BuffersAssumption, MaxLenAssumption, NullAssumption
<1>1. /\ msg_length' \in [Objs -> 0..MaxLen] /\ msgs' \in [Objs -> Seq(Bytes) \cup {Null}]
      /\ undefined' \in BOOLEAN /\ stripped' \in Seq(Bytes)
  BY DEF MessageInv, MsgTypeOK
<1>2. \A q \in Objs \ {o, p} : msgs'[q] = msgs[q] /\ msg_length'[q] = msg_length[q]
                               /\ (q \in misused' <=> q \in misused)
  BY DEF MessageInv, MsgTypeOK
<1>3. msgs'[o] = a /\ msg_length'[o] = la /\ msgs'[p] = b /\ msg_length'[p] = lb
  BY DEF MessageInv, MsgTypeOK
<1>4. misused' \subseteq {q \in Objs : Alive(q)'}
  BY <1>2, <1>3 DEF MessageInv, MsgTypeOK, Alive
<1>5. LengthExact'
  BY <1>2, <1>3 DEF MessageInv, LengthExact, Alive
<1> QED  BY <1>1, <1>4, <1>5 DEF MessageInv, MsgTypeOK

\* What msgSplit leaves in the two lists.
LEMMA SplitFacts ==
  ASSUME MessageInv, NEW o \in Objs, NEW second \in Objs, Called(o), Alive(second),
         NEW len \in 0..msg_length[o], NEW moving, moving = msg_length[o] - len,
         moving <= Len(msgs[o])
  PROVE  /\ msgs[o] \in Seq(Bytes) /\ msgs[second] \in Seq(Bytes)
         /\ msg_length[o] \in 0..MaxLen /\ len \in 0..MaxLen /\ moving \in 0..MaxLen
         /\ moving \in 0..Len(msgs[o]) /\ ~ undefined
         /\ o \notin misused => msg_length[o] = Len(msgs[o])
         /\ LET kept   == SubSeq(msgs[o], 1, Len(msgs[o]) - moving)
                joined == SubSeq(msgs[o], Len(msgs[o]) - moving + 1, Len(msgs[o])) \o msgs[second]
            IN /\ MovedBack(msgs[o], msgs[second], moving) = [from |-> kept, to |-> joined]
               /\ kept \in Seq(Bytes) /\ joined \in Seq(Bytes)
               /\ Len(kept) = Len(msgs[o]) - moving
               /\ Len(joined) = moving + Len(msgs[second])
<1> USE BuffersAssumption, MaxLenAssumption, NullAssumption
<1>1. msgs[o] \in Seq(Bytes) /\ msgs[second] \in Seq(Bytes) /\ msg_length[o] \in 0..MaxLen
      /\ ~ undefined /\ Alive(o)
  BY DEF MessageInv, MsgTypeOK, Called, Alive
<1>2. Len(msgs[o]) \in Nat /\ len \in 0..MaxLen /\ moving \in 0..MaxLen
      /\ moving \in 0..Len(msgs[o])
  BY <1>1
<1>3. o \notin misused => msg_length[o] = Len(msgs[o])
  BY <1>1 DEF MessageInv, LengthExact
<1> DEFINE kept   == SubSeq(msgs[o], 1, Len(msgs[o]) - moving)
           back   == SubSeq(msgs[o], Len(msgs[o]) - moving + 1, Len(msgs[o]))
           joined == back \o msgs[second]
<1>4. /\ kept \in Seq(Bytes) /\ Len(kept) = Len(msgs[o]) - moving
      /\ back \in Seq(Bytes) /\ Len(back) = moving
  <2> DEFINE n == Len(msgs[o]) - moving
  <2>1. n \in 0..Len(msgs[o]) /\ Len(msgs[o]) - n = moving
    BY <1>2
  <2> HIDE DEF n
  <2>2. /\ SubSeq(msgs[o], 1, n) \in Seq(Bytes) /\ Len(SubSeq(msgs[o], 1, n)) = n
        /\ SubSeq(msgs[o], n + 1, Len(msgs[o])) \in Seq(Bytes)
        /\ Len(SubSeq(msgs[o], n + 1, Len(msgs[o]))) = Len(msgs[o]) - n
    BY <1>1, <2>1, Cut
  <2> QED  BY <2>1, <2>2 DEF n
<1>5. joined \in Seq(Bytes) /\ Len(joined) = moving + Len(msgs[second])
  <2> HIDE DEF back
  <2> QED  BY <1>1, <1>4, Glue
<1>6. MovedBack(msgs[o], msgs[second], moving) = [from |-> kept, to |-> joined]
  BY <1>1, <1>2, MovedBackIs
<1> HIDE DEF MessageInv, Called, Alive
<1> QED  BY <1>1, <1>2, <1>3, <1>4, <1>5, <1>6

\* msgSplit into another object.
LEMMA SplitApartInv ==
  ASSUME MessageInv, NEW o \in Objs, NEW second \in Objs, NEW len \in Sizes,
         Called(o), Alive(second), len \in 0..msg_length[o], SplitApart(o, second, len)
  PROVE  MessageInv'
<1> USE BuffersAssumption, MaxLenAssumption, NullAssumption
<1> DEFINE moving == msg_length[o] - len
<1>1. Called(o) /\ Alive(second) /\ o # second /\ len \in 0..msg_length[o]
      /\ ~ undefined /\ Alive(o)
  BY DEF SplitApart, Called
<1>2. CASE Underflow(msgs[o], moving)
  <2>1. moving \in Int /\ moving <= msg_length[o]
    BY <1>1 DEF MessageInv, MsgTypeOK
  <2> QED  BY <1>1, <1>2, <2>1, UnderflowInv
<1>3. CASE ~ Underflow(msgs[o], moving)
  <2> DEFINE kept   == SubSeq(msgs[o], 1, Len(msgs[o]) - moving)
             joined == SubSeq(msgs[o], Len(msgs[o]) - moving + 1, Len(msgs[o])) \o msgs[second]
             moved  == MovedBack(msgs[o], msgs[second], moving)
  <2>1. /\ moving <= Len(msgs[o])
        /\ msgs' = [msgs EXCEPT ![o] = moved.from, ![second] = moved.to]
        /\ msg_length' = [msg_length EXCEPT ![o] = len, ![second] = moving]
        /\ misused' = IF o \in misused \/ msgs[second] # << >>
                        THEN misused \cup {second} ELSE misused
        /\ UNCHANGED <<stripped, undefined>>
    BY <1>3 DEF SplitApart, SplitLengths
  <2>2. /\ moved = [from |-> kept, to |-> joined]
        /\ kept \in Seq(Bytes) /\ joined \in Seq(Bytes)
        /\ len \in 0..MaxLen /\ moving \in 0..MaxLen /\ msgs[o] \in Seq(Bytes)
        /\ Len(kept) = Len(msgs[o]) - moving /\ Len(joined) = moving + Len(msgs[second])
        /\ o \notin misused => msg_length[o] = Len(msgs[o])
    <3>1. /\ Called(o) /\ Alive(second) /\ len \in 0..msg_length[o]
          /\ moving = msg_length[o] - len /\ moving <= Len(msgs[o])
      BY <1>1, <2>1
    <3> HIDE BuffersAssumption, MaxLenAssumption, NullAssumption
    <3> HIDE DEF moving
    <3>2. moved = [from |-> kept, to |-> joined] /\ msgs[o] \in Seq(Bytes)
      BY <3>1, SplitFacts, Zenon
    <3>3. kept \in Seq(Bytes) /\ joined \in Seq(Bytes)
      BY <3>1, SplitFacts, Zenon
    <3>4. Len(kept) = Len(msgs[o]) - moving /\ Len(joined) = moving + Len(msgs[second])
      BY <3>1, SplitFacts, Zenon
    <3>5. len \in 0..MaxLen /\ moving \in 0..MaxLen
          /\ (o \notin misused => msg_length[o] = Len(msgs[o]))
      BY <3>1, SplitFacts, Zenon
    <3> QED  BY <3>2, <3>3, <3>4, <3>5
  <2> HIDE DEF moved, kept, joined
  <2>3. msgs' = [msgs EXCEPT ![o] = kept, ![second] = joined]
    BY <2>1, <2>2
  <2>4. o \notin misused' => len = Len(kept)
    <3>1. o \notin misused' => o \notin misused
      BY <2>1
    <3>2. ASSUME o \notin misused PROVE len = Len(kept)
      BY <1>1, <2>2, <3>2 DEF MessageInv, MsgTypeOK
    <3> QED  BY <3>1, <3>2
  <2>5. second \notin misused' => moving = Len(joined)
    <3>1. second \notin misused' => Len(msgs[second]) = 0
      BY <2>1
    <3> QED  BY <2>2, <3>1
  <2>6. misused \subseteq misused' /\ misused' \subseteq misused \cup {o, second}
    BY <2>1
  <2> HIDE BuffersAssumption, MaxLenAssumption, NullAssumption
  <2> HIDE DEF moving
  <2>7. /\ kept \in Seq(Bytes) /\ joined \in Seq(Bytes) /\ len \in 0..MaxLen /\ moving \in 0..MaxLen
        /\ msg_length' = [msg_length EXCEPT ![o] = len, ![second] = moving]
        /\ UNCHANGED <<stripped, undefined>>
    BY <2>1, <2>2
  <2>8. o # second /\ ~ undefined
    BY <1>1
  <2> QED  BY <2>3, <2>4, <2>5, <2>6, <2>7, <2>8, TwoObjects
<1> QED  BY <1>2, <1>3

\* What msgSplit leaves of an object that is split into itself.
LEMMA SplitSelfFacts ==
  ASSUME MessageInv, NEW o \in Objs, Called(o), NEW len \in 0..msg_length[o],
         NEW moving, moving = msg_length[o] - len, msgs[o] # << >> \/ moving = 0
  PROVE  /\ msgs[o] \in Seq(Bytes) /\ moving \in 0..MaxLen
         /\ RotatedBack(msgs[o], moving) \in Seq(Bytes)
         /\ o \notin misused => msg_length[o] = Len(msgs[o])
         /\ o \notin misused /\ len = 0 => /\ RotatedBack(msgs[o], moving) = msgs[o]
                                          /\ moving = Len(msgs[o])
         /\ o \notin misused /\ len > 0 => msgs[o] # << >>
<1> USE BuffersAssumption, MaxLenAssumption, NullAssumption
<1>1. /\ msgs[o] \in Seq(Bytes) /\ Len(msgs[o]) \in Nat /\ msg_length[o] \in 0..MaxLen
      /\ moving \in 0..MaxLen /\ moving \in Nat /\ Alive(o)
  BY DEF MessageInv, MsgTypeOK, Called, Alive
<1>2. /\ RotatedBack(msgs[o], moving) \in Seq(Bytes)
      /\ moving = Len(msgs[o]) => RotatedBack(msgs[o], moving) = msgs[o]
  BY <1>1, RotatedBackIs
<1>3. o \notin misused => msg_length[o] = Len(msgs[o])
  BY <1>1 DEF MessageInv, LengthExact
<1>4. o \notin misused /\ len = 0 => moving = Len(msgs[o])
  BY <1>1, <1>3
<1>5. o \notin misused /\ len > 0 => msgs[o] # << >>
  BY <1>1, <1>3
<1> QED  BY <1>1, <1>2, <1>3, <1>4, <1>5

\* msgSplit into the object itself.
LEMMA SplitIntoItselfInv ==
  ASSUME MessageInv, NEW o \in Objs, NEW len \in 0..msg_length[o], Called(o),
         SplitIntoItself(o, len)
  PROVE  MessageInv'
<1> USE BuffersAssumption, MaxLenAssumption, NullAssumption
<1> DEFINE moving == msg_length[o] - len
           list   == RotatedBack(msgs[o], moving)
<1>1. ~ undefined /\ Alive(o) /\ moving \in Int /\ moving <= msg_length[o]
      /\ msg_length[o] \in Nat /\ stripped \in Seq(Bytes)
  BY DEF Called, MessageInv, MsgTypeOK
<1>2. CASE Underflow(msgs[o], moving)
  BY <1>1, <1>2, UnderflowInv
<1>3. CASE ~ Underflow(msgs[o], moving)
  <2>1. /\ msgs[o] # << >> \/ moving = 0
        /\ msgs' = [msgs EXCEPT ![o] = list]
        /\ msg_length' = [msg_length EXCEPT ![o] = len, ![o] = moving]
        /\ misused' = IF len > 0 THEN misused \cup {o} ELSE misused
        /\ UNCHANGED <<stripped, undefined>>
    BY <1>3 DEF SplitIntoItself, SplitLengths
  <2>2. msg_length' = [msg_length EXCEPT ![o] = moving]
    <3> HIDE DEF moving
    <3> QED  BY <2>1 DEF MessageInv, MsgTypeOK
  <2>3. /\ moving \in 0..MaxLen /\ list \in Seq(Bytes)
        /\ o \notin misused /\ len = 0 => list = msgs[o] /\ moving = Len(msgs[o])
    <3>1. moving = msg_length[o] - len
      OBVIOUS
    <3> HIDE DEF moving
    <3> QED  BY <2>1, <3>1, SplitSelfFacts
  <2> HIDE DEF moving, list
  <2>4. o \notin misused' => moving = Len(list)
    <3>1. o \notin misused' => o \notin misused /\ ~ (len > 0)
      BY <2>1
    <3>2. ~ (len > 0) => len = 0
      BY <1>1
    <3> QED  BY <2>3, <3>1, <3>2
  <2>5. misused' \ {o} = misused \ {o} /\ list # Null /\ stripped' \in Seq(Bytes)
    BY <1>1, <2>1, <2>3
  <2>6. UNCHANGED undefined
    BY <2>1
  <2> HIDE BuffersAssumption, MaxLenAssumption, NullAssumption
  <2> QED  BY <1>1, <2>1, <2>2, <2>3, <2>4, <2>5, <2>6, OneObject
<1> QED  BY <1>2, <1>3

\* msgSplit.
LEMMA SplitInv ==
  ASSUME MessageInv, NEW o \in Objs, NEW second \in Objs, NEW len \in Sizes, msgSplit(o, second, len)
  PROVE  MessageInv'
BY SplitApartInv, SplitIntoItselfInv DEF msgSplit

\* What msgJoin leaves in the two lists.
LEMMA JoinFacts ==
  ASSUME MessageInv, NEW o \in Objs, NEW second \in Objs, Called(o), Alive(second),
         msg_length[second] <= Len(msgs[second])
  PROVE  LET len    == msg_length[second]
             kept   == SubSeq(msgs[second], len + 1, Len(msgs[second]))
             joined == msgs[o] \o SubSeq(msgs[second], 1, len)
         IN /\ msgs[o] \in Seq(Bytes) /\ msgs[second] \in Seq(Bytes) /\ len \in 0..MaxLen
            /\ len \in 0..Len(msgs[second]) /\ ~ undefined
            /\ o \notin misused => msg_length[o] = Len(msgs[o])
            /\ second \notin misused => len = Len(msgs[second])
            /\ MovedFront(msgs[second], msgs[o], len) = [from |-> kept, to |-> joined]
            /\ kept \in Seq(Bytes) /\ joined \in Seq(Bytes)
            /\ Len(kept) = Len(msgs[second]) - len
            /\ Len(joined) = Len(msgs[o]) + len
<1> USE BuffersAssumption, MaxLenAssumption, NullAssumption
<1> DEFINE len == msg_length[second]
<1>1. msgs[o] \in Seq(Bytes) /\ msgs[second] \in Seq(Bytes) /\ len \in 0..MaxLen
      /\ ~ undefined /\ Alive(o)
  BY DEF MessageInv, MsgTypeOK, Called, Alive
<1> HIDE DEF len
<1>2. Len(msgs[second]) \in Nat /\ len \in 0..Len(msgs[second])
  BY <1>1 DEF len
<1>3. /\ o \notin misused => msg_length[o] = Len(msgs[o])
      /\ second \notin misused => len = Len(msgs[second])
  BY <1>1 DEF MessageInv, LengthExact, len
<1> DEFINE kept   == SubSeq(msgs[second], len + 1, Len(msgs[second]))
           front  == SubSeq(msgs[second], 1, len)
           joined == msgs[o] \o front
<1>4. /\ kept \in Seq(Bytes) /\ Len(kept) = Len(msgs[second]) - len
      /\ front \in Seq(Bytes) /\ Len(front) = len
  BY <1>1, <1>2, Cut
<1>5. joined \in Seq(Bytes) /\ Len(joined) = Len(msgs[o]) + len
  <2> HIDE DEF front
  <2> QED  BY <1>1, <1>4, Glue
<1>6. MovedFront(msgs[second], msgs[o], len) = [from |-> kept, to |-> joined]
  BY <1>1, <1>2, MovedFrontIs
<1> HIDE DEF MessageInv, Called, Alive
<1> QED  BY <1>1, <1>2, <1>3, <1>4, <1>5, <1>6 DEF len

\* msgJoin with another object.
LEMMA JoinOtherInv ==
  ASSUME MessageInv, NEW o \in Objs, NEW second \in Objs, Called(o), Alive(second),
         JoinOther(o, second)
  PROVE  MessageInv'
<1> USE BuffersAssumption, MaxLenAssumption, NullAssumption
<1> DEFINE len == msg_length[second]
<1>1. Called(o) /\ Alive(second) /\ o # second /\ ~ undefined /\ Alive(o)
      /\ len \in 0..MaxLen /\ msg_length[o] \in 0..MaxLen
  BY DEF JoinOther, Called, MessageInv, MsgTypeOK
<1>2. CASE Underflow(msgs[second], len)
  BY <1>1, <1>2, UnderflowInv
<1>3. CASE ~ Underflow(msgs[second], len)
  <2> DEFINE kept   == SubSeq(msgs[second], len + 1, Len(msgs[second]))
             joined == msgs[o] \o SubSeq(msgs[second], 1, len)
             moved  == MovedFront(msgs[second], msgs[o], len)
             l      == msg_length[o] + len
  <2>1. /\ len <= Len(msgs[second]) /\ l <= MaxLen
        /\ msgs' = [msgs EXCEPT ![o] = moved.to, ![second] = moved.from]
        /\ msg_length' = [msg_length EXCEPT ![o] = @ + len]
        /\ misused' = IF {o, second} \cap misused # {} THEN misused \cup {o, second}
                      ELSE IF len > 0 THEN misused \cup {second} ELSE misused
        /\ UNCHANGED <<stripped, undefined>>
    BY <1>3 DEF JoinOther
  <2>2. /\ moved = [from |-> kept, to |-> joined]
        /\ kept \in Seq(Bytes) /\ joined \in Seq(Bytes)
        /\ Len(kept) = Len(msgs[second]) - len /\ Len(joined) = Len(msgs[o]) + len
        /\ o \notin misused => msg_length[o] = Len(msgs[o])
        /\ second \notin misused => len = Len(msgs[second])
    BY <1>1, <2>1, JoinFacts
  <2>3. msg_length' = [msg_length EXCEPT ![o] = l, ![second] = len] /\ l \in 0..MaxLen
    <3>1. l \in 0..MaxLen
      BY <1>1, <2>1
    <3>2. /\ msg_length \in [Objs -> 0..MaxLen] /\ l = msg_length[o] + len
          /\ msg_length[second] = len
      BY DEF MessageInv, MsgTypeOK
    <3> HIDE DEF l, len
    <3>3. msg_length' = [msg_length EXCEPT ![o] = l]
      BY <2>1, <3>2
    <3> QED  BY <1>1, <3>1, <3>2, <3>3
  <2> HIDE DEF moved, kept, joined
  <2>4. msgs' = [msgs EXCEPT ![o] = joined, ![second] = kept]
    BY <2>1, <2>2
  <2>5. o \notin misused' => l = Len(joined)
    <3>1. o \notin misused' => o \notin misused
      BY <2>1
    <3> QED  BY <2>2, <3>1
  <2>6. second \notin misused' => len = Len(kept)
    <3>1. second \notin misused' => second \notin misused /\ ~ (len > 0)
      BY <2>1
    <3>2. ~ (len > 0) => len = 0
      BY <1>1
    <3> QED  BY <2>2, <3>1, <3>2
  <2>7. misused \subseteq misused' /\ misused' \subseteq misused \cup {o, second}
    BY <2>1
  <2>8. /\ len \in 0..MaxLen /\ o # second /\ ~ undefined
        /\ UNCHANGED <<stripped, undefined>>
        /\ kept \in Seq(Bytes) /\ joined \in Seq(Bytes)
    BY <1>1, <2>1, <2>2
  <2> HIDE DEF len, l
  <2> QED  BY <2>3, <2>4, <2>5, <2>6, <2>7, <2>8, TwoObjects
<1> QED  BY <1>2, <1>3

\* What msgJoin leaves of an object that is joined to itself.
LEMMA JoinSelfFacts ==
  ASSUME MessageInv, NEW o \in Objs, Called(o), NEW len, len = msg_length[o],
         msgs[o] # << >> \/ len = 0
  PROVE  /\ msgs[o] \in Seq(Bytes) /\ len \in 0..MaxLen
         /\ RotatedFront(msgs[o], len) \in Seq(Bytes)
         /\ o \notin misused => len = Len(msgs[o])
         /\ o \notin misused /\ len = 0 => RotatedFront(msgs[o], len) = msgs[o]
         /\ o \notin misused /\ len > 0 => msgs[o] # << >>
<1> USE BuffersAssumption, MaxLenAssumption, NullAssumption
<1>1. /\ msgs[o] \in Seq(Bytes) /\ Len(msgs[o]) \in Nat /\ len \in 0..MaxLen
      /\ len \in Nat /\ Alive(o)
  BY DEF MessageInv, MsgTypeOK, Called, Alive
<1>2. /\ RotatedFront(msgs[o], len) \in Seq(Bytes)
      /\ Len(RotatedFront(msgs[o], len)) = Len(msgs[o])
  BY <1>1, RotatedFrontIs
<1>3. o \notin misused => len = Len(msgs[o])
  BY <1>1 DEF MessageInv, LengthExact
<1>4. o \notin misused /\ len = 0 => RotatedFront(msgs[o], len) = msgs[o]
  BY <1>1, <1>2, <1>3
<1>5. o \notin misused /\ len > 0 => msgs[o] # << >>
  BY <1>1, <1>3
<1> QED  BY <1>1, <1>2, <1>3, <1>4, <1>5

\* msgJoin with the object itself.
LEMMA JoinToItselfInv ==
  ASSUME MessageInv, NEW o \in Objs, Called(o), JoinToItself(o)
  PROVE  MessageInv'
<1> USE BuffersAssumption, MaxLenAssumption, NullAssumption
<1> DEFINE len  == msg_length[o]
           list == RotatedFront(msgs[o], len)
<1>1. ~ undefined /\ Alive(o) /\ len \in 0..MaxLen /\ stripped \in Seq(Bytes)
  BY DEF Called, MessageInv, MsgTypeOK
<1>2. CASE Underflow(msgs[o], len)
  BY <1>1, <1>2, UnderflowInv
<1>3. CASE ~ Underflow(msgs[o], len)
  <2>1. /\ msgs[o] # << >> \/ len = 0
        /\ len + len <= MaxLen
        /\ msgs' = [msgs EXCEPT ![o] = list]
        /\ msg_length' = [msg_length EXCEPT ![o] = @ + len]
        /\ misused' = IF len > 0 THEN misused \cup {o} ELSE misused
        /\ UNCHANGED <<stripped, undefined>>
    BY <1>3 DEF JoinToItself
  <2>2. msg_length' = [msg_length EXCEPT ![o] = len + len]
    BY <2>1 DEF MessageInv, MsgTypeOK
  <2>3. /\ list \in Seq(Bytes)
        /\ o \notin misused /\ len = 0 => list = msgs[o] /\ len = Len(msgs[o])
    <3>1. len = msg_length[o]
      OBVIOUS
    <3> HIDE DEF len
    <3> QED  BY <2>1, <3>1, JoinSelfFacts
  <2> HIDE DEF len, list
  <2>4. len + len \in 0..MaxLen
    BY <1>1, <2>1
  <2>5. o \notin misused' => len + len = Len(list)
    <3>1. o \notin misused' => o \notin misused /\ ~ (len > 0)
      BY <2>1
    <3>2. ~ (len > 0) => len = 0 /\ len + len = 0
      BY <1>1
    <3> QED  BY <2>3, <3>1, <3>2
  <2>6. misused' \ {o} = misused \ {o} /\ list # Null /\ stripped' \in Seq(Bytes)
    BY <1>1, <2>1, <2>3
  <2>7. UNCHANGED undefined
    BY <2>1
  <2> HIDE BuffersAssumption, MaxLenAssumption, NullAssumption
  <2> QED  BY <1>1, <2>1, <2>2, <2>3, <2>4, <2>5, <2>6, <2>7, OneObject
<1> QED  BY <1>2, <1>3

\* msgJoin.
LEMMA JoinInv ==
  ASSUME MessageInv, NEW o \in Objs, NEW second \in Objs, msgJoin(o, second)
  PROVE  MessageInv'
BY JoinOtherInv, JoinToItselfInv DEF msgJoin

\* The invariant is inductive: one case per operation.
LEMMA MessageNextInv == MessageInv /\ [MsgNext]_msgVars => MessageInv'
<1> SUFFICES ASSUME MessageInv, [MsgNext]_msgVars PROVE MessageInv'
  OBVIOUS
<1>1. CASE UNCHANGED msgVars
  BY <1>1 DEF msgVars, MessageInv, MsgTypeOK, LengthExact, Alive
<1> QED  BY <1>1, MessageOwnInv, StripInv, SplitInv, JoinInv DEF MsgNext, Undefined

\* MessageInv is an invariant.
LEMMA MessageInvAlways == MsgSpec => []MessageInv
<1>1. MsgInit => MessageInv
  <2> SUFFICES ASSUME MsgInit PROVE MessageInv
    OBVIOUS
  <2>1. msg_length \in [Objs -> 0..MaxLen] /\ msgs \in [Objs -> Seq(Bytes) \cup {Null}]
    BY MaxLenAssumption DEF MsgInit
  <2>2. stripped \in Seq(Bytes) /\ undefined = FALSE /\ misused = {}
    BY DEF MsgInit
  <2>3. \A o \in Objs : ~ Alive(o)
    BY DEF MsgInit, Alive
  <2> QED  BY <2>1, <2>2, <2>3 DEF MessageInv, MsgTypeOK, LengthExact
<1>2. MessageInv /\ [MsgNext]_msgVars => MessageInv'
  BY MessageNextInv
<1> QED  BY <1>1, <1>2, PTL DEF MsgSpec

\* Types are right; in particular no length passes the bound or turns negative.
THEOREM MessageTypes == MsgSpec => []MsgTypeOK
<1>1. MessageInv => MsgTypeOK
  BY DEF MessageInv
<1> QED  BY <1>1, MessageInvAlways, PTL

\* The length kept apart from the list is the list's, through every sequence of
\* operations, an object given to itself among them, for every object that nobody
\* misused; and nothing is popped from an empty list unless some object was
\* misused.
THEOREM LengthsExact == MsgSpec => []LengthExact
<1>1. MessageInv => LengthExact
  BY DEF MessageInv
<1> QED  BY <1>1, MessageInvAlways, PTL

-----------------------------------------------------------------------------
(* A Message is a byte string: each operation is one of ByteStrings's, or   *)
(* changes no string.                                                      *)
Strs == [o \in Objs |-> IF o \in misused THEN Unknown ELSE msgs[o]]

\* What the value of a name says of its object.
LEMMA StrsFacts ==
  ASSUME MessageInv, NEW o \in Objs
  PROVE  /\ Str!Present(o) <=> Alive(o)
         /\ Str!Known(o) <=> Alive(o) /\ o \notin misused
         /\ Strs[o] = IF o \in misused THEN Unknown ELSE msgs[o]
         /\ Alive(o) => msgs[o] \in Seq(Bytes)
         /\ Alive(o) /\ Strs[o] = << >> => o \notin misused
         /\ Alive(o) /\ o \notin misused => msg_length[o] = Len(msgs[o])
<1> USE BuffersAssumption, MaxLenAssumption, NullAssumption
<1>1. Strs[o] = IF o \in misused THEN Unknown ELSE msgs[o]
  BY DEF Strs
<1>2. o \in misused => Alive(o)
  BY DEF MessageInv, MsgTypeOK
<1>3. Alive(o) => msgs[o] \in Seq(Bytes)
  BY DEF MessageInv, MsgTypeOK, Alive
<1>4. Str!Present(o) <=> Alive(o)
  BY <1>1, <1>2 DEF Str!Present, Strs, Alive
<1>5. Str!Known(o) <=> Alive(o) /\ o \notin misused
  BY <1>1, <1>2, <1>3 DEF Str!Known, Strs, Alive
<1>6. << >> # Unknown
  <2>1. << >> \in Seq(Bytes)
    OBVIOUS
  <2> QED  BY <2>1
<1>7. Alive(o) /\ o \notin misused => msg_length[o] = Len(msgs[o])
  BY DEF MessageInv, LengthExact
<1> QED  BY <1>1, <1>3, <1>4, <1>5, <1>6, <1>7

\* A step that changes the contents of one object, or of none.
LEMMA OneString ==
  ASSUME MessageInv, NEW o \in Objs, NEW list,
         msgs' = [msgs EXCEPT ![o] = list],
         misused' \ {o} = misused \ {o}
  PROVE  /\ o \notin misused' => Strs' = [Strs EXCEPT ![o] = list]
         /\ o \in misused' => Strs' = [Strs EXCEPT ![o] = Unknown]
         /\ o \in misused /\ o \in misused' => Strs' = Strs
<1>1. \A q \in Objs \ {o} : msgs'[q] = msgs[q] /\ (q \in misused' <=> q \in misused)
  BY DEF MessageInv, MsgTypeOK
<1>2. msgs'[o] = list
  BY DEF MessageInv, MsgTypeOK
<1> QED  BY <1>1, <1>2 DEF Strs

\* The constructors, the destructor and msgAddHdr.
LEMMA OwnStep ==
  ASSUME MessageInv, NEW o \in Objs,
         \/ EmptyMessage(o) \/ DeleteMessage(o)
         \/ \E s \in Buffers : NewMessage(o, s) \/ msgAddHdr(o, s)
  PROVE  [Str!Next]_(Str!stringVars)
<1> USE BuffersAssumption, MaxLenAssumption, NullAssumption
<1>1. CASE EmptyMessage(o)
  <2>1. ~ Alive(o) /\ o \notin misused /\ misused' = misused /\ UNCHANGED stripped
        /\ msgs' = [msgs EXCEPT ![o] = << >>]
    BY <1>1 DEF EmptyMessage, MessageInv, MsgTypeOK
  <2>2. Strs' = [Strs EXCEPT ![o] = << >>]
    BY <2>1, OneString
  <2>3. Str!Create(o, << >>)
    BY <2>1, <2>2, StrsFacts DEF Str!Create, Strs
  <2> QED  BY <2>3 DEF Str!Next
<1>2. CASE DeleteMessage(o)
  <2>1. Alive(o) /\ misused' = misused \ {o} /\ UNCHANGED stripped
        /\ msgs' = [msgs EXCEPT ![o] = Null]
    BY <1>2 DEF DeleteMessage, Called
  <2>2. Strs' = [Strs EXCEPT ![o] = Null]
    BY <2>1, OneString
  <2>3. Str!Delete(o)
    BY <2>1, <2>2, StrsFacts DEF Str!Delete, Strs
  <2> QED  BY <2>3 DEF Str!Next
<1>3. ASSUME NEW s \in Buffers, NewMessage(o, s) PROVE [Str!Next]_(Str!stringVars)
  <2>1. ~ Alive(o) /\ o \notin misused /\ misused' = misused /\ UNCHANGED stripped
        /\ msgs' = [msgs EXCEPT ![o] = s]
    BY <1>3 DEF NewMessage, MessageInv, MsgTypeOK
  <2>2. Strs' = [Strs EXCEPT ![o] = s]
    BY <2>1, OneString
  <2>3. Str!Create(o, s)
    BY <2>1, <2>2, StrsFacts DEF Str!Create, Strs
  <2> QED  BY <2>3 DEF Str!Next
<1>4. ASSUME NEW s \in Buffers, msgAddHdr(o, s) PROVE [Str!Next]_(Str!stringVars)
  <2>1. Alive(o) /\ UNCHANGED <<misused, stripped>> /\ msgs' = [msgs EXCEPT ![o] = Pushed(@, s)]
    BY <1>4 DEF msgAddHdr, Called
  <2>2. Pushed(msgs[o], s) = s \o msgs[o]
    BY <2>1, PushedIs, StrsFacts
  <2>3. msgs' = [msgs EXCEPT ![o] = s \o msgs[o]]
    BY <2>1, <2>2
  <2>4. CASE o \in misused
    <3>1. Strs' = Strs
      BY <2>1, <2>3, <2>4, OneString
    <3> QED  BY <2>1, <3>1 DEF Str!stringVars, Strs
  <2>5. CASE o \notin misused
    <3>1. Strs' = [Strs EXCEPT ![o] = s \o msgs[o]] /\ Strs[o] = msgs[o] /\ Str!Known(o)
      BY <2>1, <2>3, <2>5, OneString, StrsFacts
    <3>2. Strs' = [Strs EXCEPT ![o] = s \o @]
      BY <3>1
    <3>3. Str!AddHdr(o, s)
      BY <2>1, <3>1, <3>2 DEF Str!AddHdr, Strs
    <3> QED  BY <3>3 DEF Str!Next
  <2> QED  BY <2>4, <2>5
<1> QED  BY <1>1, <1>2, <1>3, <1>4

\* msgStripHdr: a prefix taken from a string, nothing, or whatever a misused
\* object returns.
LEMMA StripStep ==
  ASSUME MessageInv, NEW o \in Objs, NEW len \in Sizes, msgStripHdr(o, len)
  PROVE  [Str!Next]_(Str!stringVars)
<1> USE BuffersAssumption, MaxLenAssumption, NullAssumption
<1>1. Called(o) /\ ~ undefined /\ Alive(o) /\ UNCHANGED misused
  BY DEF msgStripHdr, Called, Underflow
<1>2. /\ Strs[o] = IF o \in misused THEN Unknown ELSE msgs[o]
      /\ Str!Known(o) <=> o \notin misused
      /\ msgs[o] \in Seq(Bytes)
      /\ o \notin misused => msg_length[o] = Len(msgs[o])
  BY <1>1, StrsFacts
<1>3. CASE Underflow(msgs[o], len)
  <2>1. UNCHANGED <<msgs, misused, stripped>>
    BY <1>3 DEF Underflow
  <2> QED  BY <2>1 DEF Str!stringVars
<1>4. CASE Refuses(o, len)
  <2>1. stripped' = << >> /\ UNCHANGED <<msgs, misused>>
    BY <1>4 DEF msgStripHdr
  <2>2. UNCHANGED Strs
    BY <2>1 DEF Strs
  <2>3. CASE o \in misused
    <3>1. Str!StripUnknown(o)
      BY <1>2, <2>2, <2>3 DEF Str!StripUnknown, Strs
    <3> QED  BY <3>1 DEF Str!Next
  <2>4. CASE o \notin misused
    <3>1. len \notin 1..Len(msgs[o])
      BY <1>2, <1>4, <2>4 DEF Refuses
    <3>2. Strs[o] = msgs[o] /\ Str!Known(o)
      BY <1>2, <2>4
    <3>3. Str!StripHdr(o, len)
      BY <2>1, <2>2, <3>1, <3>2 DEF Str!StripHdr, Strs
    <3> QED  BY <3>3 DEF Str!Next
  <2> QED  BY <2>3, <2>4
<1>5. CASE ~ Refuses(o, len) /\ len <= Len(msgs[o]) /\ ~ Underflow(msgs[o], len)
  <2> DEFINE list == SubSeq(msgs[o], len + 1, Len(msgs[o]))
  <2>1. /\ len \in 1..Len(msgs[o])
        /\ MovedFront(msgs[o], << >>, len) = [from |-> list, to |-> SubSeq(msgs[o], 1, len)]
    BY <1>1, <1>5, StripFacts
  <2>2. stripped' = SubSeq(msgs[o], 1, len) /\ msgs' = [msgs EXCEPT ![o] = list]
    <3> HIDE DEF list
    <3> QED  BY <1>5, <2>1 DEF msgStripHdr
  <2>3. CASE o \in misused
    <3>1. Strs' = Strs
      BY <1>1, <2>2, <2>3, OneString
    <3>2. Str!StripUnknown(o)
      BY <1>2, <2>3, <3>1 DEF Str!StripUnknown, Strs
    <3> QED  BY <3>2 DEF Str!Next
  <2>4. CASE o \notin misused
    <3>1. Strs' = [Strs EXCEPT ![o] = list] /\ Strs[o] = msgs[o] /\ Str!Known(o)
      BY <1>1, <1>2, <2>2, <2>4, OneString
    <3>2. Strs' = [Strs EXCEPT ![o] = Str!Back(@, len)]
          /\ stripped' = Str!Front(Strs[o], len) /\ len \in 1..Len(Strs[o])
      BY <2>1, <2>2, <3>1 DEF Str!Back, Str!Front
    <3>3. Str!StripHdr(o, len)
      BY <3>1, <3>2 DEF Str!StripHdr, Strs
    <3> QED  BY <3>3 DEF Str!Next
  <2> QED  BY <2>3, <2>4
<1> QED  BY <1>3, <1>4, <1>5 DEF msgStripHdr

\* A step that changes the contents of two objects.
LEMMA TwoStrings ==
  ASSUME MessageInv, NEW o \in Objs, NEW p \in Objs, o # p, NEW a, NEW b,
         msgs' = [msgs EXCEPT ![o] = a, ![p] = b],
         misused \subseteq misused', misused' \subseteq misused \cup {o, p}
  PROVE  Strs' = [Strs EXCEPT ![o] = IF o \in misused' THEN Unknown ELSE a,
                              ![p] = IF p \in misused' THEN Unknown ELSE b]
<1>1. \A q \in Objs \ {o, p} : msgs'[q] = msgs[q] /\ (q \in misused' <=> q \in misused)
  BY DEF MessageInv, MsgTypeOK
<1>2. msgs'[o] = a /\ msgs'[p] = b
  BY DEF MessageInv, MsgTypeOK
<1> QED  BY <1>1, <1>2 DEF Strs

\* A step of two objects of which one is misused spoils both.
LEMMA SpoilStep ==
  ASSUME MessageInv, NEW o \in Objs, NEW p \in Objs, o # p, NEW a, NEW b,
         msgs' = [msgs EXCEPT ![o] = a, ![p] = b], UNCHANGED stripped,
         Alive(o), Alive(p), o \in misused \/ p \in misused,
         misused' = misused \cup {o, p}
  PROVE  Str!Spoil(o, p)
<1> USE BuffersAssumption, MaxLenAssumption, NullAssumption
<1>1. Strs' = [Strs EXCEPT ![o] = Unknown, ![p] = Unknown]
  BY TwoStrings
<1>2. Str!Present(o) /\ Str!Present(p) /\ ~ (Str!Known(o) /\ Str!Known(p))
  BY StrsFacts
<1> QED  BY <1>1, <1>2 DEF Str!Spoil, Strs

\* An object given to itself keeps its string or stands for none any more.
LEMMA SelfStep ==
  ASSUME MessageInv, NEW o \in Objs, Alive(o), NEW list, msgs' = [msgs EXCEPT ![o] = list],
         UNCHANGED stripped, misused' \ {o} = misused \ {o},
         o \in misused => o \in misused',
         o \notin misused /\ o \notin misused' => list = msgs[o],
         o \notin misused /\ o \in misused' => msgs[o] # << >>
  PROVE  [Str!Next]_(Str!stringVars)
<1>1. CASE o \in misused
  <2>1. Strs' = Strs
    BY <1>1, OneString
  <2> QED  BY <2>1 DEF Str!stringVars, Strs
<1>2. CASE o \notin misused /\ o \notin misused'
  <2>1. Strs' = [Strs EXCEPT ![o] = list] /\ Strs[o] = list
    BY <1>2, OneString, StrsFacts
  <2>2. Strs' = Strs
    BY <2>1 DEF Strs
  <2> QED  BY <2>2 DEF Str!stringVars, Strs
<1>3. CASE o \notin misused /\ o \in misused'
  <2>1. Strs' = [Strs EXCEPT ![o] = Unknown]
    BY <1>3, OneString
  <2>2. Str!Known(o) /\ Strs[o] # << >>
    BY <1>3, StrsFacts
  <2>3. Str!GiveToItself(o)
    BY <2>1, <2>2 DEF Str!GiveToItself, Strs
  <2> QED  BY <2>3 DEF Str!Next
<1> QED  BY <1>1, <1>2, <1>3

\* msgSplit into itself.
LEMMA SplitIntoItselfStep ==
  ASSUME MessageInv, NEW o \in Objs, NEW len \in 0..msg_length[o], Called(o),
         SplitIntoItself(o, len)
  PROVE  [Str!Next]_(Str!stringVars)
<1> DEFINE moving == msg_length[o] - len
           list   == RotatedBack(msgs[o], moving)
<1>1. Alive(o)
  BY DEF Called
<1>2. CASE Underflow(msgs[o], moving)
  <2>1. UNCHANGED <<msgs, misused, stripped>>
    BY <1>2 DEF Underflow
  <2> QED  BY <2>1 DEF Str!stringVars
<1>3. CASE ~ Underflow(msgs[o], moving)
  <2>1. /\ msgs[o] # << >> \/ moving = 0
        /\ msgs' = [msgs EXCEPT ![o] = list]
        /\ misused' = IF len > 0 THEN misused \cup {o} ELSE misused
        /\ UNCHANGED stripped
    BY <1>3 DEF SplitIntoItself
  <2>2. /\ o \notin misused /\ len = 0 => list = msgs[o]
        /\ o \notin misused /\ len > 0 => msgs[o] # << >>
    <3>1. moving = msg_length[o] - len
      OBVIOUS
    <3> HIDE DEF moving
    <3> QED  BY <2>1, <3>1, SplitSelfFacts
  <2>3. len > 0 \/ len = 0
    BY DEF MessageInv, MsgTypeOK
  <2> HIDE DEF list, moving
  <2>4. /\ misused' \ {o} = misused \ {o} /\ (o \in misused => o \in misused')
        /\ o \notin misused /\ o \notin misused' => list = msgs[o]
        /\ o \notin misused /\ o \in misused' => msgs[o] # << >>
    BY <2>1, <2>2, <2>3
  <2> QED  BY <1>1, <2>1, <2>4, SelfStep
<1> QED  BY <1>2, <1>3

\* msgSplit into another: a string cut in two, or two objects spoiled.
LEMMA SplitApartStep ==
  ASSUME MessageInv, NEW o \in Objs, NEW second \in Objs, NEW len \in Sizes,
         Called(o), Alive(second), len \in 0..msg_length[o], SplitApart(o, second, len)
  PROVE  [Str!Next]_(Str!stringVars)
<1> USE BuffersAssumption, MaxLenAssumption, NullAssumption
<1> DEFINE moving == msg_length[o] - len
<1>1. Called(o) /\ Alive(second) /\ o # second /\ len \in 0..msg_length[o] /\ Alive(o)
  BY DEF SplitApart, Called
<1>2. CASE Underflow(msgs[o], moving)
  <2>1. UNCHANGED <<msgs, misused, stripped>>
    BY <1>2 DEF Underflow
  <2> QED  BY <2>1 DEF Str!stringVars
<1>3. CASE ~ Underflow(msgs[o], moving)
  <2> DEFINE kept   == SubSeq(msgs[o], 1, Len(msgs[o]) - moving)
             back   == SubSeq(msgs[o], Len(msgs[o]) - moving + 1, Len(msgs[o]))
             joined == back \o msgs[second]
             moved  == MovedBack(msgs[o], msgs[second], moving)
  <2>1. /\ moving <= Len(msgs[o])
        /\ msgs' = [msgs EXCEPT ![o] = moved.from, ![second] = moved.to]
        /\ misused' = IF o \in misused \/ msgs[second] # << >>
                        THEN misused \cup {second} ELSE misused
        /\ UNCHANGED stripped
    BY <1>3 DEF SplitApart
  <2>2. moved = [from |-> kept, to |-> joined] /\ msgs[o] \in Seq(Bytes)
    <3>1. /\ Called(o) /\ Alive(second) /\ len \in 0..msg_length[o]
          /\ moving = msg_length[o] - len /\ moving <= Len(msgs[o])
      BY <1>1, <2>1
    <3> HIDE BuffersAssumption, MaxLenAssumption, NullAssumption
    <3> HIDE DEF moving
    <3> QED  BY <3>1, SplitFacts, Zenon
  <2>3. msgs' = [msgs EXCEPT ![o] = kept, ![second] = joined]
    <3> HIDE DEF moved, kept, joined
    <3> QED  BY <2>1, <2>2
  <2>4. CASE o \in misused
    <3>1. misused' = misused \cup {o, second}
      BY <2>1, <2>4
    <3>2. Str!Spoil(o, second)
      <4> HIDE DEF kept, joined
      <4> QED  BY <1>1, <2>1, <2>3, <2>4, <3>1, SpoilStep
    <3> QED  BY <3>2 DEF Str!Next
  <2>5. CASE o \notin misused
    <3>1. /\ o \notin misused'
          /\ second \in misused' <=> second \in misused \/ msgs[second] # << >>
          /\ misused \subseteq misused' /\ misused' \subseteq misused \cup {o, second}
      BY <1>1, <2>1, <2>5
    <3>2. Strs' = [Strs EXCEPT ![o] = kept,
                               ![second] = IF second \in misused' THEN Unknown ELSE joined]
      <4> HIDE DEF kept, joined
      <4> QED  BY <1>1, <2>3, <3>1, TwoStrings
    <3>3. /\ Str!Known(o) /\ Str!Present(second) /\ Strs[o] = msgs[o]
          /\ msg_length[o] = Len(msgs[o]) /\ len \in 0..Len(Strs[o])
          /\ Strs[second] = << >> <=> second \notin misused /\ msgs[second] = << >>
      BY <1>1, <2>5, StrsFacts
    <3>4. Len(msgs[o]) - moving = len
      BY <1>1, <3>3 DEF MessageInv, MsgTypeOK
    <3>5. kept = Str!Front(Strs[o], len) /\ back = Str!Back(Strs[o], len)
      BY <3>3, <3>4 DEF Str!Front, Str!Back
    <3>6. msgs[second] = << >> => joined = back
      <4>1. back \in Seq(Bytes)
        BY <2>2, <3>4, <1>1, <3>3
      <4> HIDE DEF back
      <4> QED  BY <4>1
    <3> HIDE DEF kept, back, joined, moved, moving
    <3>7. (IF second \in misused' THEN Unknown ELSE joined)
            = IF Strs[second] = << >> THEN Str!Back(Strs[o], len) ELSE Unknown
      BY <3>1, <3>3, <3>5, <3>6
    <3>8. Strs' = [Strs EXCEPT ![o] = Str!Front(@, len),
                               ![second] = IF @ = << >> THEN Str!Back(Strs[o], len) ELSE Unknown]
      BY <1>1, <3>2, <3>5, <3>7
    <3>9. Str!Split(o, second, len)
      BY <1>1, <2>1, <3>3, <3>8 DEF Str!Split, Strs
    <3> QED  BY <3>9 DEF Str!Next
  <2> QED  BY <2>4, <2>5
<1> QED  BY <1>2, <1>3

\* msgJoin with itself.
LEMMA JoinToItselfStep ==
  ASSUME MessageInv, NEW o \in Objs, Called(o), JoinToItself(o)
  PROVE  [Str!Next]_(Str!stringVars)
<1> DEFINE len  == msg_length[o]
           list == RotatedFront(msgs[o], len)
<1>1. Alive(o) /\ len \in 0..MaxLen
  BY DEF Called, MessageInv, MsgTypeOK
<1>2. CASE Underflow(msgs[o], len)
  <2>1. UNCHANGED <<msgs, misused, stripped>>
    BY <1>2 DEF Underflow
  <2> QED  BY <2>1 DEF Str!stringVars
<1>3. CASE ~ Underflow(msgs[o], len)
  <2>1. /\ msgs[o] # << >> \/ len = 0
        /\ msgs' = [msgs EXCEPT ![o] = list]
        /\ misused' = IF len > 0 THEN misused \cup {o} ELSE misused
        /\ UNCHANGED stripped
    BY <1>3 DEF JoinToItself
  <2>2. /\ o \notin misused /\ len = 0 => list = msgs[o]
        /\ o \notin misused /\ len > 0 => msgs[o] # << >>
    <3>1. len = msg_length[o]
      OBVIOUS
    <3> HIDE DEF len
    <3> QED  BY <2>1, <3>1, JoinSelfFacts
  <2>3. len > 0 \/ len = 0
    BY <1>1, MaxLenAssumption
  <2> HIDE DEF list, len
  <2>4. /\ misused' \ {o} = misused \ {o} /\ (o \in misused => o \in misused')
        /\ o \notin misused /\ o \notin misused' => list = msgs[o]
        /\ o \notin misused /\ o \in misused' => msgs[o] # << >>
    BY <2>1, <2>2, <2>3
  <2> QED  BY <1>1, <2>1, <2>4, SelfStep
<1> QED  BY <1>2, <1>3

\* msgJoin with another: two strings concatenated, or two objects spoiled.
LEMMA JoinOtherStep ==
  ASSUME MessageInv, NEW o \in Objs, NEW second \in Objs, Called(o), Alive(second),
         JoinOther(o, second)
  PROVE  [Str!Next]_(Str!stringVars)
<1> USE BuffersAssumption, MaxLenAssumption, NullAssumption
<1> DEFINE len == msg_length[second]
<1>1. Called(o) /\ Alive(second) /\ o # second /\ Alive(o)
  BY DEF JoinOther, Called
<1>2. CASE Underflow(msgs[second], len)
  <2>1. UNCHANGED <<msgs, misused, stripped>>
    BY <1>2 DEF Underflow
  <2> QED  BY <2>1 DEF Str!stringVars
<1>3. CASE ~ Underflow(msgs[second], len)
  <2> DEFINE kept   == SubSeq(msgs[second], len + 1, Len(msgs[second]))
             joined == msgs[o] \o SubSeq(msgs[second], 1, len)
             moved  == MovedFront(msgs[second], msgs[o], len)
  <2>1. /\ len <= Len(msgs[second])
        /\ msgs' = [msgs EXCEPT ![o] = moved.to, ![second] = moved.from]
        /\ misused' = IF {o, second} \cap misused # {} THEN misused \cup {o, second}
                      ELSE IF len > 0 THEN misused \cup {second} ELSE misused
        /\ UNCHANGED stripped
    BY <1>3 DEF JoinOther
  <2>2. /\ moved = [from |-> kept, to |-> joined]
        /\ msgs[o] \in Seq(Bytes) /\ msgs[second] \in Seq(Bytes)
    BY <1>1, <2>1, JoinFacts
  <2>3. msgs' = [msgs EXCEPT ![o] = joined, ![second] = kept]
    <3> HIDE DEF moved, kept, joined
    <3> QED  BY <2>1, <2>2
  <2>4. CASE {o, second} \cap misused # {}
    <3>1. misused' = misused \cup {o, second} /\ (o \in misused \/ second \in misused)
      BY <2>1, <2>4
    <3>2. Str!Spoil(o, second)
      <4> HIDE DEF kept, joined
      <4> QED  BY <1>1, <2>1, <2>3, <3>1, SpoilStep
    <3> QED  BY <3>2 DEF Str!Next
  <2>5. CASE {o, second} \cap misused = {}
    <3>1. /\ o \notin misused /\ second \notin misused /\ o \notin misused'
          /\ second \in misused' <=> len > 0
          /\ misused \subseteq misused' /\ misused' \subseteq misused \cup {o, second}
      BY <1>1, <2>1, <2>5
    <3>2. Strs' = [Strs EXCEPT ![o] = joined,
                               ![second] = IF second \in misused' THEN Unknown ELSE kept]
      <4> HIDE DEF kept, joined
      <4> QED  BY <1>1, <2>3, <3>1, TwoStrings
    <3>3. /\ Str!Known(o) /\ Str!Known(second) /\ Strs[o] = msgs[o]
          /\ Strs[second] = msgs[second] /\ len = Len(msgs[second])
      BY <1>1, <3>1, StrsFacts
    <3>4. SubSeq(msgs[second], 1, len) = msgs[second]
      BY <2>2, <3>3
    <3>5. joined = Strs[o] \o Strs[second]
      BY <3>3, <3>4
    <3>6. len > 0 <=> Strs[second] # << >>
      BY <2>2, <3>3
    <3>7. Strs[second] = << >> => kept = Strs[second]
      BY <3>3
    <3> HIDE DEF kept, joined, moved, len
    <3>8. Strs' = [Strs EXCEPT ![o] = @ \o Strs[second],
                               ![second] = IF @ = << >> THEN @ ELSE Unknown]
      BY <1>1, <3>1, <3>2, <3>5, <3>6, <3>7
    <3>9. Str!Join(o, second)
      BY <1>1, <2>1, <3>3, <3>8 DEF Str!Join, Strs
    <3> QED  BY <3>9 DEF Str!Next
  <2> QED  BY <2>4, <2>5
<1> QED  BY <1>2, <1>3

\* Every sequence of operations is one on byte strings: for two objects the
\* loops over the lists compute concatenation, prefix and suffix, whatever the
\* lengths; an object misused, by being given to itself for one, is Unknown.
THEOREM MessagesAreStrings == MsgSpec => ImplementsStrings
<1>1. MsgInit => Str!Init
  BY DEF MsgInit, Str!Init
<1>2. MessageInv /\ [MsgNext]_msgVars => [Str!Next]_(Str!stringVars)
  <2> SUFFICES ASSUME MessageInv, [MsgNext]_msgVars PROVE [Str!Next]_(Str!stringVars)
    OBVIOUS
  <2>1. CASE UNCHANGED msgVars
    BY <2>1 DEF msgVars, Str!stringVars
  <2>2. ASSUME NEW o \in Objs, NEW second \in Objs, NEW len \in Sizes, msgSplit(o, second, len)
        PROVE  [Str!Next]_(Str!stringVars)
    BY <2>2, SplitApartStep, SplitIntoItselfStep DEF msgSplit
  <2>3. ASSUME NEW o \in Objs, NEW second \in Objs, msgJoin(o, second)
        PROVE  [Str!Next]_(Str!stringVars)
    BY <2>3, JoinOtherStep, JoinToItselfStep DEF msgJoin
  <2> QED  BY <2>1, <2>2, <2>3, OwnStep, StripStep DEF MsgNext, Undefined
<1> QED  BY <1>1, <1>2, MessageInvAlways, PTL DEF MsgSpec, ImplementsStrings, Str!Spec
=============================================================================
