--------------------------- MODULE ThreadPoolProofs ---------------------------
(***************************************************************************)
(* Theorems about ThreadPool, for any clients, tasks, slots and failures.  *)
(***************************************************************************)
EXTENDS ThreadPool, TLAPS

-----------------------------------------------------------------------------
(* How far a task has come.  Begun: its client is past the attempt to      *)
(* create its thread.  Given: the client has gone on to its next task.     *)
Begun(t) == \/ t[2] < offered[t[1]]
            \/ t[2] = offered[t[1]] /\ cstate[t[1]] \in {"slave", "next"}
Given(t) == \/ t[2] < offered[t[1]]
            \/ t[2] = offered[t[1]] /\ cstate[t[1]] = "next"

Created == running \cup ended

\* Only a task that has come so far has a thread, or a slave.
ProgressInv ==
  /\ \A t \in Created \cup dropped : Begun(t)
  /\ \A t \in Tasks : slave[t] # "none" => Given(t)

\* Where a client stands, and what it has done for its task.
ClientInv ==
  \A c \in Clients :
    /\ cstate[c] # "next" => Task(c) \in Tasks
    /\ cstate[c] = "claim" => i[c] \in Slots
    /\ cstate[c] \in {"create", "restore", "slave"} => i[c] \in Slots /\ slot[Task(c)] = i[c]
    /\ cstate[c] = "restore" => i[c] \in doubtful
    /\ cstate[c] = "slave" =>
         i[c] \in doubtful \/ (Task(c) \in Created /\ pool[i[c]] = Task(c))

\* The id stored for a slot is that of a thread created in it.
IdInv == \A s \in Slots : pool[s] # NoThread => pool[s] \in Created /\ slot[pool[s]] = s

\* A slave joins a thread of its own slot, and its own task's thread unless the
\* slot is in doubt.
SlaveInv ==
  \A t \in Tasks : slave[t] # "none" =>
    /\ slot[t] \in Slots
    /\ slave[t] # "born" /\ target[t] # NoThread =>
         target[t] \in Created /\ slot[target[t]] = slot[t]
    /\ slot[t] \notin doubtful =>
         /\ t \in Created
         /\ slave[t] = "born" => pool[slot[t]] = t
         /\ slave[t] # "born" => target[t] = t
         /\ slave[t] \in {"free", "done"} => t \notin running

\* t has slot s from its client's claim until its slave has set the flag, and in
\* any case while its thread runs.
AtClient(t) == t = Task(t[1]) /\ cstate[t[1]] \in {"create", "restore", "slave"}
Holds(t, s) == /\ slot[t] = s
               /\ t \in running \/ AtClient(t) \/ slave[t] \in {"born", "join", "free"}

HoldInv ==
  \A s \in Slots \ doubtful :
    /\ \A t, u \in Tasks : Holds(t, s) /\ Holds(u, s) => t = u
    /\ status_flags[s] => \A t \in Tasks : ~ Holds(t, s)

IInv == TypeOK /\ ProgressInv /\ ClientInv /\ IdInv /\ SlaveInv /\ HoldInv

-----------------------------------------------------------------------------
\* A task is its client and its number.
LEMMA TaskFacts ==
  /\ \A t \in Tasks : t = <<t[1], t[2]>> /\ t[1] \in Clients /\ t[2] \in 1..N /\ t # NoThread
  /\ \A c \in Clients : Task(c)[1] = c /\ Task(c)[2] = offered[c]
  /\ NoSlot \notin Slots /\ Slots \subseteq 0..threadCount
<1>1. \A t \in Tasks : t = <<t[1], t[2]>> /\ t[1] \in Clients /\ t[2] \in 1..N /\ t # NoThread
  BY DEF Tasks, NoThread
<1>2. \A c \in Clients : Task(c)[1] = c /\ Task(c)[2] = offered[c]
  BY DEF Task
<1>3. NoSlot \notin Slots /\ Slots \subseteq 0..threadCount
  BY CountAssumption DEF NoSlot, Slots
<1> QED  BY <1>1, <1>2, <1>3

\* At the start no task has begun.
LEMMA InitIInv == Init => IInv
<1> SUFFICES ASSUME Init PROVE IInv
  OBVIOUS
<1> USE DEF Init
<1>1. TypeOK
  BY NAssumption, CountAssumption, FailAssumption DEF TypeOK, NoSlot, CStates
<1>2. ProgressInv /\ IdInv /\ SlaveInv
  BY DEF ProgressInv, IdInv, SlaveInv, Created
<1>3. ClientInv
  BY DEF ClientInv
<1>4. HoldInv
  <2>1. \A t \in Tasks : \A s \in Slots : ~ Holds(t, s)
    BY TaskFacts DEF Holds, AtClient
  <2> QED  BY <2>1 DEF HoldInv
<1> QED  BY <1>1, <1>2, <1>3, <1>4 DEF IInv

-----------------------------------------------------------------------------
(* The steps of a client.                                                  *)

\* A step that only moves c: it neither claims nor creates anything.
LEMMA MoveKeeps ==
  ASSUME IInv, NEW c \in Clients, Call(c) \/ thread_avail(c) \/ LookAt(c) \/ Refuse(c)
  PROVE  IInv'
<1>1. TypeOK
  BY DEF IInv
<1>2. /\ UNCHANGED <<status_flags, pool, slot, running, ended, slave, target, doubtful, lost, failures>>
      /\ cstate[c] \in {"next", "avail", "look"} /\ cstate'[c] \in {"next", "avail", "look", "claim"}
      /\ cstate' = [cstate EXCEPT ![c] = cstate'[c]] /\ i' = [i EXCEPT ![c] = i'[c]]
      /\ offered' = [offered EXCEPT ![c] = offered'[c]] /\ i'[c] \in 0..threadCount
      /\ \/ /\ cstate[c] = "next" /\ cstate'[c] = "avail" /\ offered[c] < N /\ offered'[c] = offered[c] + 1
            /\ dropped' = dropped
         \/ cstate[c] # "next" /\ offered'[c] = offered[c] /\ dropped' = dropped
         \/ /\ cstate[c] # "next" /\ cstate'[c] = "next" /\ offered'[c] = offered[c]
            /\ dropped' = dropped \cup {Task(c)}
      /\ cstate'[c] = "claim" => i'[c] \in Slots
  <2>1. CASE Call(c)
    BY <1>1, <2>1, CountAssumption DEF Call, TypeOK, threadVars, slaveVars, historyVars
  <2>2. CASE thread_avail(c)
    BY <1>1, <2>2, CountAssumption DEF thread_avail, Goto, TypeOK, threadVars, slaveVars, historyVars
  <2>3. CASE LookAt(c)
    BY <1>1, <2>3, CountAssumption DEF LookAt, Goto, TypeOK, threadVars, slaveVars, historyVars, Slots
  <2>4. CASE Refuse(c)
    BY <1>1, <2>4, CountAssumption DEF Refuse, Goto, TypeOK, threadVars, slaveVars, historyVars
  <2> QED  BY <2>1, <2>2, <2>3, <2>4
<1>3. cstate[c] # "next" => Task(c) \in Tasks /\ Task(c) \notin Created
  BY <1>1, <1>2, TaskFacts DEF IInv, ClientInv, ProgressInv, Begun
<1>4. TypeOK'
  <2>1. offered' \in [Clients -> 0..N] /\ cstate' \in [Clients -> CStates] /\ i' \in [Clients -> 0..threadCount]
    BY <1>1, <1>2, NAssumption DEF TypeOK, CStates
  <2>2. dropped' \subseteq Tasks \ (running \cup ended)
    BY <1>1, <1>2, <1>3 DEF TypeOK, Created
  <2> QED  BY <1>1, <1>2, <2>1, <2>2 DEF TypeOK
<1>5. \A t \in Tasks : (Begun(t) => Begun(t)') /\ (Given(t) => Given(t)')
  BY <1>1, <1>2, TaskFacts DEF Begun, Given, TypeOK
<1>6. ProgressInv'
  <2>1. Created' = Created /\ Created \subseteq Tasks /\ dropped \subseteq Tasks
    BY <1>1, <1>2 DEF Created, TypeOK
  <2>2. ASSUME NEW t \in Tasks, t = Task(c), cstate'[c] = "next" PROVE Begun(t)'
    <3>1. t[1] = c /\ t[2] = offered'[c]
      BY <1>2, <2>2, TaskFacts
    <3> QED  BY <2>2, <3>1 DEF Begun
  <2>3. ASSUME NEW t \in Created \cup dropped' PROVE Begun(t)'
    <3>1. CASE t \in Created \cup dropped
      BY <1>5, <2>1, <3>1 DEF IInv, ProgressInv
    <3>2. CASE t \notin Created \cup dropped
      BY <1>2, <1>3, <2>2, <2>3, <3>2
    <3> QED  BY <3>1, <3>2
  <2>4. \A t \in Tasks : slave'[t] # "none" => Given(t)'
    BY <1>2, <1>5 DEF IInv, ProgressInv
  <2> QED  BY <2>1, <2>3, <2>4 DEF ProgressInv
<1>7. ClientInv'
  <2> SUFFICES ASSUME NEW d \in Clients
               PROVE /\ cstate'[d] # "next" => Task(d)' \in Tasks
                     /\ cstate'[d] = "claim" => i'[d] \in Slots
                     /\ cstate'[d] \in {"create", "restore", "slave"} => i'[d] \in Slots /\ slot[Task(d)'] = i'[d]
                     /\ cstate'[d] = "restore" => i'[d] \in doubtful
                     /\ cstate'[d] = "slave" =>
                          i'[d] \in doubtful \/ (Task(d)' \in Created /\ pool[i'[d]] = Task(d)')
    BY <1>2 DEF ClientInv, Created
  <2>1. CASE d # c
    <3>1. cstate'[d] = cstate[d] /\ i'[d] = i[d] /\ Task(d)' = Task(d)
      BY <1>1, <1>2, <2>1 DEF TypeOK, Task
    <3> QED  BY <3>1 DEF IInv, ClientInv
  <2>2. CASE d = c
    <3>1. cstate'[c] # "next" => Task(c)' \in Tasks
      <4>1. cstate'[c] # "next" => offered'[c] \in 1..N
        <5>1. cstate[c] # "next" => offered[c] \in 1..N
          BY <1>3, TaskFacts
        <5> QED  BY <1>1, <1>2, <5>1, NAssumption DEF TypeOK
      <4> QED  BY <4>1 DEF Task, Tasks
    <3> QED  BY <1>2, <2>2, <3>1
  <2> QED  BY <2>1, <2>2
<1>8. IdInv' /\ SlaveInv'
  BY <1>2 DEF IInv, IdInv, SlaveInv, Created
<1>9. HoldInv'
  <2>1. \A t \in Tasks : AtClient(t)' => AtClient(t)
    BY <1>1, <1>2, TaskFacts DEF AtClient, TypeOK, Task
  <2>2. \A t \in Tasks : \A s \in Slots : Holds(t, s)' => Holds(t, s)
    BY <1>2, <2>1 DEF Holds
  <2> QED  BY <1>2, <2>2 DEF IInv, HoldInv
<1> QED  BY <1>4, <1>6, <1>7, <1>8, <1>9 DEF IInv

\* What a step of dispatch_thread past the look leaves of the clients and of
\* the progress of the tasks: only c's own task may come further.
Advances(c, k) ==
  /\ k = Task(c) /\ k[1] = c /\ k[2] = offered[c] /\ slave[k] = "none"
  /\ \A d \in Clients : Task(d)' = Task(d)
  /\ \A d \in Clients \ {c} : Task(d) # k /\ cstate'[d] = cstate[d] /\ i'[d] = i[d]
  /\ i[c] \in 0..threadCount /\ i'[c] \in 0..threadCount
  /\ \A t \in Tasks : (Begun(t) => Begun(t)') /\ (Given(t) => Given(t)')
  /\ \A t \in Tasks \ {k} : AtClient(t)' <=> AtClient(t)
  /\ AtClient(k)' <=> cstate'[c] \in {"create", "restore", "slave"}
  /\ AtClient(k) <=> cstate[c] \in {"create", "restore", "slave"}
  /\ cstate[c] # "slave" => k \notin Created \cup dropped
  /\ cstate'[c] \in {"slave", "next"} => Begun(k)'
  /\ cstate'[c] = "next" => Given(k)'

\* A client inside dispatch_thread moves the one task it has in hand and no other.
LEMMA ClientAdvances ==
  ASSUME IInv, NEW c \in Clients,
         cstate[c] \in {"claim", "create", "restore", "slave"},
         cstate' = [cstate EXCEPT ![c] = cstate'[c]], i' = [i EXCEPT ![c] = i'[c]],
         offered' = offered, i'[c] \in 0..threadCount,
         <<cstate[c], cstate'[c]>> \in {<<"claim", "create">>, <<"create", "slave">>, <<"create", "restore">>,
                                        <<"restore", "slave">>, <<"slave", "next">>}
  PROVE  \E k \in Tasks : Advances(c, k)
<1>1. TypeOK /\ Task(c) \in Tasks
  BY DEF IInv, ClientInv
<1>2. PICK k \in Tasks : k = Task(c)
  BY <1>1
<1>3. k[1] = c /\ k[2] = offered[c] /\ offered[c] \in Nat
  BY <1>1, <1>2, TaskFacts DEF TypeOK
<1>4. ~ Given(k) /\ (cstate[c] # "slave" => ~ Begun(k))
  BY <1>3 DEF Given, Begun
<1>5. slave[k] = "none" /\ (cstate[c] # "slave" => k \notin Created \cup dropped)
  BY <1>4 DEF IInv, ProgressInv
<1>6. \A d \in Clients : Task(d)' = Task(d)
  BY DEF Task
<1>7. \A d \in Clients \ {c} : Task(d) # k /\ cstate'[d] = cstate[d] /\ i'[d] = i[d]
  BY <1>1, <1>3, TaskFacts DEF TypeOK
<1>8. i[c] \in 0..threadCount
  BY <1>1 DEF TypeOK
<1>9. cstate'[c] \in {"create", "slave", "restore", "next"} /\ \A d \in Clients \ {c} : cstate'[d] = cstate[d]
  BY <1>7
<1>10. \A t \in Tasks : (Begun(t) => Begun(t)') /\ (Given(t) => Given(t)')
  BY <1>3, <1>9, TaskFacts DEF Begun, Given
<1>11. \A t \in Tasks \ {k} : AtClient(t)' <=> AtClient(t)
  BY <1>2, <1>6, <1>7, TaskFacts DEF AtClient
<1>12. /\ AtClient(k)' <=> cstate'[c] \in {"create", "restore", "slave"}
       /\ AtClient(k) <=> cstate[c] \in {"create", "restore", "slave"}
  BY <1>2, <1>3, <1>6 DEF AtClient
<1>13. /\ cstate'[c] \in {"slave", "next"} => Begun(k)'
       /\ cstate'[c] = "next" => Given(k)'
  BY <1>3 DEF Begun, Given
<1> QED  BY <1>2, <1>3, <1>5, <1>6, <1>7, <1>8, <1>10, <1>11, <1>12, <1>13 DEF Advances

\* Claiming gives c's task the slot; were another to have it, the slot would be
\* in doubt.
LEMMA ClaimKeeps ==
  ASSUME IInv, NEW c \in Clients, Claim(c)
  PROVE  IInv'
<1>1. TypeOK
  BY DEF IInv
<1>2. PICK s : s = i[c]
  OBVIOUS
<1>3. s \in Slots /\ cstate[c] = "claim"
  BY <1>2 DEF Claim, IInv, ClientInv
<1>4. /\ cstate' = [cstate EXCEPT ![c] = "create"] /\ i' = [i EXCEPT ![c] = s] /\ i'[c] = s /\ cstate'[c] = "create"
      /\ UNCHANGED <<offered, pool, running, ended, dropped, slave, target, lost, failures>>
  BY <1>1, <1>2 DEF Claim, Goto, TypeOK, threadVars, slaveVars
<1>5. PICK k \in Tasks : Advances(c, k)
  BY <1>1, <1>3, <1>4, ClientAdvances, TaskFacts
<1>6. k = Task(c) /\ slave[k] = "none" /\ k \notin Created \cup dropped
  BY <1>3, <1>5 DEF Advances
<1>7. /\ status_flags' = [status_flags EXCEPT ![s] = FALSE]
      /\ slot' = [slot EXCEPT ![k] = s]
      /\ doubtful' = IF status_flags[s] THEN doubtful ELSE doubtful \cup {s}
  BY <1>2, <1>6 DEF Claim
<1>8. slot'[k] = s /\ \A t \in Tasks \ {k} : slot'[t] = slot[t]
  BY <1>1, <1>7 DEF TypeOK
<1>9. TypeOK'
  BY <1>1, <1>3, <1>4, <1>7, TaskFacts DEF TypeOK, CStates
<1>10. Created' = Created /\ Created \subseteq Tasks /\ dropped \subseteq Tasks
  BY <1>1, <1>4 DEF Created, TypeOK
<1>11. ProgressInv'
  BY <1>4, <1>5, <1>10 DEF IInv, ProgressInv, Advances
<1>12. ClientInv'
  <2> SUFFICES ASSUME NEW d \in Clients
               PROVE /\ cstate'[d] # "next" => Task(d)' \in Tasks
                     /\ cstate'[d] = "claim" => i'[d] \in Slots
                     /\ cstate'[d] \in {"create", "restore", "slave"} => i'[d] \in Slots /\ slot'[Task(d)'] = i'[d]
                     /\ cstate'[d] = "restore" => i'[d] \in doubtful'
                     /\ cstate'[d] = "slave" =>
                          i'[d] \in doubtful' \/ (Task(d)' \in Created' /\ pool'[i'[d]] = Task(d)')
    BY DEF ClientInv
  <2>1. CASE d = c
    BY <1>3, <1>4, <1>5, <1>6, <1>8, <2>1 DEF Advances
  <2>2. CASE d # c
    <3>1. Task(d)' = Task(d) /\ Task(d) # k /\ cstate'[d] = cstate[d] /\ i'[d] = i[d] /\ doubtful \subseteq doubtful'
      BY <1>5, <1>7, <2>2 DEF Advances
    <3> QED  BY <1>4, <1>8, <1>10, <3>1 DEF IInv, ClientInv
  <2> QED  BY <2>1, <2>2
<1>13. IdInv'
  BY <1>4, <1>6, <1>8, <1>10 DEF IInv, IdInv
<1>14. SlaveInv'
  <2> SUFFICES ASSUME NEW t \in Tasks, slave[t] # "none"
               PROVE  /\ slot'[t] \in Slots
                      /\ slave[t] # "born" /\ target[t] # NoThread =>
                           target[t] \in Created /\ slot'[target[t]] = slot'[t]
                      /\ slot'[t] \notin doubtful' =>
                           /\ t \in Created
                           /\ slave[t] = "born" => pool[slot'[t]] = t
                           /\ slave[t] # "born" => target[t] = t
                           /\ slave[t] \in {"free", "done"} => t \notin running
    BY <1>4, <1>10 DEF SlaveInv
  <2>1. slot'[t] = slot[t] /\ doubtful \subseteq doubtful'
    BY <1>6, <1>7, <1>8
  <2>2. target[t] \in Created => slot'[target[t]] = slot[target[t]]
    BY <1>6, <1>8, <1>10
  <2> QED  BY <2>1, <2>2 DEF IInv, SlaveInv
<1>15. HoldInv'
  <2>1. \A t \in Tasks \ {k} : \A q \in Slots : Holds(t, q)' => Holds(t, q)
    BY <1>4, <1>5, <1>8 DEF Holds, Advances
  <2>2. \A q \in Slots : Holds(k, q)' => q = s
    BY <1>8 DEF Holds
  <2> SUFFICES ASSUME NEW q \in Slots, q \notin doubtful'
               PROVE  /\ \A t, u \in Tasks : Holds(t, q)' /\ Holds(u, q)' => t = u
                      /\ status_flags'[q] => \A t \in Tasks : ~ Holds(t, q)'
    BY DEF HoldInv
  <2>3. q \notin doubtful
    BY <1>7
  <2>4. CASE q = s
    <3>1. status_flags[s]
      BY <1>7, <2>4
    <3>2. \A t \in Tasks \ {k} : ~ Holds(t, s)'
      BY <1>3, <2>1, <2>3, <2>4, <3>1 DEF IInv, HoldInv
    <3>3. ~ status_flags'[s]
      BY <1>1, <1>3, <1>7 DEF TypeOK
    <3> QED  BY <2>4, <3>2, <3>3
  <2>5. CASE q # s
    <3>1. \A t \in Tasks : Holds(t, q)' => Holds(t, q)
      BY <2>1, <2>2, <2>5
    <3>2. status_flags'[q] = status_flags[q]
      BY <1>1, <1>7, <2>5 DEF TypeOK
    <3> QED  BY <2>3, <3>1, <3>2 DEF IInv, HoldInv
  <2> QED  BY <2>4, <2>5
<1> QED  BY <1>9, <1>11, <1>12, <1>13, <1>14, <1>15 DEF IInv

\* A step that gives no slot that is not in doubt to a task and frees none.
LEMMA HoldersShrink ==
  ASSUME HoldInv, doubtful \subseteq doubtful',
         \A q \in Slots \ doubtful' : /\ status_flags'[q] => status_flags[q]
                                      /\ \A t \in Tasks : Holds(t, q)' => Holds(t, q)
  PROVE  HoldInv'
BY DEF HoldInv

\* The thread is that of the task that has the slot, and its id is stored there.
LEMMA CreateThreadKeeps ==
  ASSUME IInv, NEW c \in Clients, CreateThread(c)
  PROVE  IInv'
<1>1. TypeOK
  BY DEF IInv
<1>2. PICK s : s = i[c]
  OBVIOUS
<1>3. s \in Slots /\ cstate[c] = "create" /\ slot[Task(c)] = s
  BY <1>2 DEF CreateThread, IInv, ClientInv
<1>4. /\ cstate' = [cstate EXCEPT ![c] = "slave"] /\ i' = [i EXCEPT ![c] = s] /\ i'[c] = s /\ cstate'[c] = "slave"
      /\ UNCHANGED <<offered, status_flags, slot, ended, dropped, slave, target, doubtful, lost, failures>>
  BY <1>1, <1>2 DEF CreateThread, Goto, TypeOK, slaveVars, historyVars
<1>5. PICK k \in Tasks : Advances(c, k)
  BY <1>1, <1>3, <1>4, ClientAdvances, TaskFacts
<1>6. k = Task(c) /\ slave[k] = "none" /\ k \notin Created \cup dropped /\ Holds(k, s)
  BY <1>3, <1>5 DEF Advances, Holds
<1>7. running' = running \cup {k} /\ pool' = [pool EXCEPT ![s] = k]
  BY <1>2, <1>6 DEF CreateThread
<1>8. pool'[s] = k /\ \A q \in Slots \ {s} : pool'[q] = pool[q]
  BY <1>1, <1>3, <1>7 DEF TypeOK
<1>9. Created' = Created \cup {k} /\ Created \subseteq Tasks
  BY <1>1, <1>4, <1>7 DEF Created, TypeOK
<1>10. TypeOK'
  <2>1. k \notin ended /\ k \notin running /\ k \notin dropped
    BY <1>6 DEF Created
  <2>2. running' \subseteq Tasks /\ ended' \subseteq Tasks \ running' /\ dropped' \subseteq Tasks \ (running' \cup ended')
    BY <1>1, <1>4, <1>7, <2>1 DEF TypeOK
  <2> QED  BY <1>1, <1>3, <1>4, <1>7, <2>2, TaskFacts DEF TypeOK, CStates
<1>11. ProgressInv'
  <2>1. Begun(k)' /\ \A t \in Tasks : (Begun(t) => Begun(t)') /\ (Given(t) => Given(t)')
    BY <1>4, <1>5 DEF Advances
  <2>2. dropped' \subseteq Tasks
    BY <1>10 DEF TypeOK
  <2>3. \A t \in Created' \cup dropped' : Begun(t)'
    BY <1>4, <1>9, <2>1, <2>2 DEF IInv, ProgressInv
  <2>4. \A t \in Tasks : slave'[t] # "none" => Given(t)'
    BY <1>4, <2>1 DEF IInv, ProgressInv
  <2> QED  BY <2>3, <2>4 DEF ProgressInv
\* Nobody else has the slot unless it is in doubt.
<1>12. ASSUME NEW t \in Tasks, t # k, s \notin doubtful PROVE ~ Holds(t, s)
  BY <1>3, <1>6, <1>12 DEF IInv, HoldInv
<1>13. ClientInv'
  <2> SUFFICES ASSUME NEW d \in Clients
               PROVE /\ cstate'[d] # "next" => Task(d)' \in Tasks
                     /\ cstate'[d] = "claim" => i'[d] \in Slots
                     /\ cstate'[d] \in {"create", "restore", "slave"} => i'[d] \in Slots /\ slot'[Task(d)'] = i'[d]
                     /\ cstate'[d] = "restore" => i'[d] \in doubtful'
                     /\ cstate'[d] = "slave" =>
                          i'[d] \in doubtful' \/ (Task(d)' \in Created' /\ pool'[i'[d]] = Task(d)')
    BY DEF ClientInv
  <2>1. CASE d = c
    BY <1>3, <1>4, <1>5, <1>6, <1>8, <1>9, <2>1 DEF Advances
  <2>2. CASE d # c
    <3>1. Task(d)' = Task(d) /\ Task(d) # k /\ cstate'[d] = cstate[d] /\ i'[d] = i[d]
      BY <1>5, <2>2 DEF Advances
    <3>2. /\ cstate[d] # "next" => Task(d) \in Tasks
          /\ cstate[d] = "claim" => i[d] \in Slots
          /\ cstate[d] \in {"create", "restore", "slave"} => i[d] \in Slots /\ slot[Task(d)] = i[d]
          /\ cstate[d] = "restore" => i[d] \in doubtful
          /\ cstate[d] = "slave" =>
               i[d] \in doubtful \/ (Task(d) \in Created /\ pool[i[d]] = Task(d))
      BY DEF IInv, ClientInv
    <3>3. ASSUME cstate[d] = "slave", i[d] \notin doubtful PROVE i[d] # s
      <4>1. Task(d) \in Tasks /\ slot[Task(d)] = i[d] /\ AtClient(Task(d))
        BY <3>2, <3>3, TaskFacts DEF AtClient
      <4>2. Holds(Task(d), i[d])
        BY <4>1 DEF Holds
      <4> QED  BY <1>12, <3>1, <3>3, <4>1, <4>2
    <3> QED  BY <1>4, <1>8, <1>9, <3>1, <3>2, <3>3
  <2> QED  BY <2>1, <2>2
<1>14. IdInv'
  BY <1>3, <1>4, <1>6, <1>8, <1>9 DEF IInv, IdInv
<1>15. SlaveInv'
  <2> SUFFICES ASSUME NEW t \in Tasks, slave[t] # "none"
               PROVE  /\ slot[t] \in Slots
                      /\ slave[t] # "born" /\ target[t] # NoThread =>
                           target[t] \in Created' /\ slot[target[t]] = slot[t]
                      /\ slot[t] \notin doubtful =>
                           /\ t \in Created'
                           /\ slave[t] = "born" => pool'[slot[t]] = t
                           /\ slave[t] # "born" => target[t] = t
                           /\ slave[t] \in {"free", "done"} => t \notin running'
    BY <1>4 DEF SlaveInv
  <2>1. t # k
    BY <1>6
  <2>2. slot[t] \notin doubtful /\ slave[t] = "born" => slot[t] # s
    BY <1>12, <2>1 DEF Holds
  <2> QED  BY <1>7, <1>8, <1>9, <2>1, <2>2 DEF IInv, SlaveInv
<1>16. HoldInv'
  <2>1. \A t \in Tasks \ {k} : \A q \in Slots : Holds(t, q)' => Holds(t, q)
    BY <1>4, <1>5, <1>7 DEF Holds, Advances
  <2>2. \A q \in Slots : Holds(k, q)' => Holds(k, q)
    BY <1>3, <1>4, <1>6 DEF Holds
  <2> QED  BY <1>4, <2>1, <2>2, HoldersShrink DEF IInv
<1> QED  BY <1>10, <1>11, <1>13, <1>14, <1>15, <1>16 DEF IInv

\* The end of dispatch_thread, and the failures: the slot of a create that
\* fails is in doubt from then on, and only such a slot is set free here.
LEMMA EndKeeps ==
  ASSUME IInv, NEW c \in Clients, CreateFails(c) \/ RestoreFlag(c) \/ CreateSlave(c) \/ SlaveFails(c)
  PROVE  IInv'
<1>1. TypeOK
  BY DEF IInv
<1>2. PICK s : s = i[c]
  OBVIOUS
<1>3. s \in Slots /\ cstate[c] \in {"create", "restore", "slave"} /\ slot[Task(c)] = s
  BY <1>2 DEF CreateFails, RestoreFlag, CreateSlave, SlaveFails, IInv, ClientInv
<1>4. /\ cstate' = [cstate EXCEPT ![c] = cstate'[c]] /\ i' = [i EXCEPT ![c] = i'[c]] /\ i'[c] \in {0, s}
      /\ \/ cstate[c] = "create" /\ cstate'[c] = "restore"
         \/ cstate[c] = "restore" /\ cstate'[c] = "slave"
         \/ cstate[c] = "slave" /\ cstate'[c] = "next"
      /\ cstate'[c] # "next" => i'[c] = s
      /\ cstate'[c] = "restore" => s \in doubtful'
      /\ doubtful \subseteq doubtful' /\ doubtful' \subseteq Slots
      /\ UNCHANGED <<offered, slot, running, ended, dropped, target>>
  <2>1. CASE CreateFails(c)
    BY <1>1, <1>2, <1>3, <2>1 DEF CreateFails, Goto, TypeOK, threadVars, slaveVars
  <2>2. CASE RestoreFlag(c)
    BY <1>1, <1>2, <1>3, <2>2 DEF RestoreFlag, Goto, TypeOK, threadVars, slaveVars, historyVars
  <2>3. CASE CreateSlave(c)
    BY <1>1, <1>2, <1>3, <2>3 DEF CreateSlave, Goto, TypeOK, threadVars, historyVars
  <2>4. CASE SlaveFails(c)
    BY <1>1, <1>2, <1>3, <2>4 DEF SlaveFails, Goto, TypeOK, threadVars, slaveVars
  <2> QED  BY <2>1, <2>2, <2>3, <2>4
<1>5. PICK k \in Tasks : Advances(c, k)
  <2>1. i'[c] \in 0..threadCount
    BY <1>3, <1>4, TaskFacts, CountAssumption
  <2>2. <<cstate[c], cstate'[c]>> \in {<<"claim", "create">>, <<"create", "slave">>, <<"create", "restore">>,
                                        <<"restore", "slave">>, <<"slave", "next">>}
    BY <1>4
  <2>3. cstate' = [cstate EXCEPT ![c] = cstate'[c]] /\ i' = [i EXCEPT ![c] = i'[c]] /\ offered' = offered
    BY <1>4
  <2>4. cstate[c] \in {"claim", "create", "restore", "slave"}
    BY <1>3
  <2> QED  BY <2>1, <2>2, <2>3, <2>4, ClientAdvances
<1>6. k = Task(c) /\ slave[k] = "none" /\ Holds(k, s)
  BY <1>3, <1>5 DEF Advances, Holds
<1>7. \A q \in Slots : pool'[q] = pool[q] \/ (q = s /\ s \in doubtful' /\ pool'[q] = NoThread)
  BY <1>1, <1>2, <1>3 DEF CreateFails, RestoreFlag, CreateSlave, SlaveFails, TypeOK
<1>8. \A q \in Slots : status_flags'[q] = status_flags[q] \/ q \in doubtful'
  <2>1. RestoreFlag(c) => s \in doubtful
    BY <1>2 DEF RestoreFlag, IInv, ClientInv
  <2> QED  BY <1>1, <1>2, <1>3, <1>4, <2>1 DEF CreateFails, RestoreFlag, CreateSlave, SlaveFails, TypeOK
<1>9. /\ \A t \in Tasks \ {k} : slave'[t] = slave[t]
      /\ slave'[k] = "none" \/ (slave'[k] = "born" /\ cstate'[c] = "next")
      /\ slave' \in [Tasks -> {"none", "born", "join", "free", "done"}]
  BY <1>1, <1>6 DEF CreateFails, RestoreFlag, CreateSlave, SlaveFails, slaveVars, TypeOK, Goto
<1>10. TypeOK'
  <2>1. failures' \in 0..MaxFailures
    BY <1>1, FailAssumption DEF CreateFails, RestoreFlag, CreateSlave, SlaveFails, TypeOK
  <2>2. status_flags' \in [Slots -> BOOLEAN] /\ pool' \in [Slots -> Tasks \cup {NoThread}]
    BY <1>1, <1>2, <1>3 DEF CreateFails, RestoreFlag, CreateSlave, SlaveFails, TypeOK
  <2>3. lost' \subseteq Slots
    BY <1>1, <1>2, <1>3 DEF CreateFails, RestoreFlag, CreateSlave, SlaveFails, TypeOK, historyVars
  <2>4. cstate' \in [Clients -> CStates] /\ i' \in [Clients -> 0..threadCount]
    <3>1. cstate \in [Clients -> CStates] /\ cstate'[c] \in CStates
      BY <1>1, <1>4 DEF TypeOK, CStates
    <3>2. i \in [Clients -> 0..threadCount] /\ i'[c] \in 0..threadCount
      BY <1>1, <1>3, <1>4, TaskFacts, CountAssumption DEF TypeOK
    <3>3. cstate' = [cstate EXCEPT ![c] = cstate'[c]] /\ i' = [i EXCEPT ![c] = i'[c]]
      BY <1>4
    <3> QED  BY <3>1, <3>2, <3>3
  <2> QED  BY <1>1, <1>4, <1>9, <2>1, <2>2, <2>3, <2>4 DEF TypeOK
<1>11. Created' = Created /\ Created \subseteq Tasks /\ dropped \subseteq Tasks
  BY <1>1, <1>4 DEF Created, TypeOK
<1>12. ProgressInv'
  <2>1. \A t \in Tasks : slave'[t] # "none" => Given(t)'
    BY <1>5, <1>9 DEF IInv, ProgressInv, Advances
  <2>2. \A t \in Created' \cup dropped' : Begun(t)'
    BY <1>4, <1>5, <1>11 DEF IInv, ProgressInv, Advances
  <2> QED  BY <2>1, <2>2 DEF ProgressInv
<1>13. ClientInv'
  <2> SUFFICES ASSUME NEW d \in Clients
               PROVE /\ cstate'[d] # "next" => Task(d)' \in Tasks
                     /\ cstate'[d] = "claim" => i'[d] \in Slots
                     /\ cstate'[d] \in {"create", "restore", "slave"} => i'[d] \in Slots /\ slot'[Task(d)'] = i'[d]
                     /\ cstate'[d] = "restore" => i'[d] \in doubtful'
                     /\ cstate'[d] = "slave" =>
                          i'[d] \in doubtful' \/ (Task(d)' \in Created' /\ pool'[i'[d]] = Task(d)')
    BY DEF ClientInv
  <2>1. CASE d = c
    <3>1. Task(c)' = k /\ slot'[k] = s
      BY <1>3, <1>4, <1>5, <1>6 DEF Advances
    <3>2. cstate'[c] = "slave" => s \in doubtful'
      BY <1>2, <1>4 DEF IInv, ClientInv
    <3> QED  BY <1>3, <1>4, <2>1, <3>1, <3>2
  <2>2. CASE d # c
    <3>1. Task(d)' = Task(d) /\ cstate'[d] = cstate[d] /\ i'[d] = i[d]
      BY <1>5, <2>2 DEF Advances
    <3>2. /\ cstate[d] # "next" => Task(d) \in Tasks
          /\ cstate[d] = "claim" => i[d] \in Slots
          /\ cstate[d] \in {"create", "restore", "slave"} => i[d] \in Slots /\ slot[Task(d)] = i[d]
          /\ cstate[d] = "restore" => i[d] \in doubtful
          /\ cstate[d] = "slave" =>
               i[d] \in doubtful \/ (Task(d) \in Created /\ pool[i[d]] = Task(d))
      BY DEF IInv, ClientInv
    <3> QED  BY <1>4, <1>7, <1>11, <3>1, <3>2
  <2> QED  BY <2>1, <2>2
<1>14. IdInv'
  BY <1>4, <1>7, <1>11 DEF IInv, IdInv
<1>15. SlaveInv'
  <2> SUFFICES ASSUME NEW t \in Tasks, slave'[t] # "none"
               PROVE  /\ slot[t] \in Slots
                      /\ slave'[t] # "born" /\ target[t] # NoThread =>
                           target[t] \in Created /\ slot[target[t]] = slot[t]
                      /\ slot[t] \notin doubtful' =>
                           /\ t \in Created
                           /\ slave'[t] = "born" => pool'[slot[t]] = t
                           /\ slave'[t] # "born" => target[t] = t
                           /\ slave'[t] \in {"free", "done"} => t \notin running
    BY <1>4, <1>11 DEF SlaveInv
  <2>1. CASE t = k
    <3>1. slave'[k] = "born" /\ cstate[c] = "slave" /\ slot[k] = s
      BY <1>3, <1>4, <1>6, <1>9, <2>1
    <3>2. s \in doubtful \/ (k \in Created /\ pool[s] = k)
      BY <1>2, <1>6, <3>1 DEF IInv, ClientInv
    <3> QED  BY <1>3, <1>4, <1>7, <2>1, <3>1, <3>2
  <2>2. CASE t # k
    <3>1. slave'[t] = slave[t]
      BY <1>9, <2>2
    <3> QED  BY <1>4, <1>7, <3>1 DEF IInv, SlaveInv
  <2> QED  BY <2>1, <2>2
<1>16. HoldInv'
  <2>1. \A t \in Tasks \ {k} : \A q \in Slots : Holds(t, q)' => Holds(t, q)
    BY <1>4, <1>5, <1>9 DEF Holds, Advances
  <2>2. \A q \in Slots : Holds(k, q)' => Holds(k, q)
    BY <1>3, <1>4, <1>6 DEF Holds
  <2> QED  BY <1>4, <1>8, <2>1, <2>2, HoldersShrink DEF IInv
<1> QED  BY <1>10, <1>12, <1>13, <1>14, <1>15, <1>16 DEF IInv

-----------------------------------------------------------------------------
(* The steps of the threads the pool creates.                              *)

\* What does not change in them.
LEMMA ThreadFrame ==
  ASSUME IInv, UNCHANGED <<pool, offered, cstate, i, slot, Created, dropped, failures, doubtful, lost>>,
         \A t \in Tasks : slave[t] = "none" => slave'[t] = "none"
  PROVE  /\ ProgressInv' /\ ClientInv' /\ IdInv'
         /\ \A t \in Tasks : AtClient(t)' <=> AtClient(t)
<1>1. \A c \in Clients : Task(c)' = Task(c)
  BY DEF Task
<1>2. \A t \in Tasks : (Begun(t)' <=> Begun(t)) /\ (Given(t)' <=> Given(t)) /\ (AtClient(t)' <=> AtClient(t))
  BY <1>1, TaskFacts DEF Begun, Given, AtClient
<1>3. Created \subseteq Tasks /\ dropped \subseteq Tasks
  BY DEF Created, IInv, TypeOK
<1>4. ProgressInv'
  BY <1>2, <1>3 DEF IInv, ProgressInv
<1>5. ClientInv' /\ IdInv'
  BY <1>1 DEF IInv, ClientInv, IdInv
<1> QED  BY <1>2, <1>4, <1>5

\* A thread that ends holds its slot through its slave, if it has one.
LEMMA EndTaskKeeps ==
  ASSUME IInv, NEW t \in Tasks, EndTask(t)
  PROVE  IInv'
<1>1. /\ t \in running /\ running' = running \ {t} /\ ended' = ended \cup {t}
      /\ UNCHANGED <<status_flags, pool, offered, cstate, i, slot, dropped, slave, target, doubtful, lost, failures>>
  BY DEF EndTask, clientVars, slaveVars, historyVars
<1>2. Created' = Created
  BY <1>1 DEF Created
<1>3. TypeOK'
  BY <1>1 DEF IInv, TypeOK
<1>4. ProgressInv' /\ ClientInv' /\ IdInv' /\ \A u \in Tasks : AtClient(u)' <=> AtClient(u)
  BY <1>1, <1>2, ThreadFrame
<1>5. SlaveInv'
  BY <1>1, <1>2 DEF IInv, SlaveInv
<1>6. HoldInv'
  <2>1. \A u \in Tasks : \A q \in Slots : Holds(u, q)' => Holds(u, q)
    BY <1>1, <1>4 DEF Holds
  <2> QED  BY <1>1, <2>1, HoldersShrink DEF IInv
<1> QED  BY <1>3, <1>4, <1>5, <1>6 DEF IInv

\* The slave reads the id of its own task's thread, unless the slot is in doubt.
LEMMA ReadIdKeeps ==
  ASSUME IInv, NEW t \in Tasks, ReadId(t)
  PROVE  IInv'
<1>1. TypeOK
  BY DEF IInv
<1>2. /\ slave[t] = "born" /\ slave' = [slave EXCEPT ![t] = "join"]
      /\ target' = [target EXCEPT ![t] = pool[slot[t]]]
      /\ UNCHANGED <<status_flags, pool, offered, cstate, i, slot, running, ended, dropped, doubtful, lost, failures>>
  BY DEF ReadId, clientVars, threadVars, historyVars
<1>3. slave'[t] = "join" /\ target'[t] = pool[slot[t]]
      /\ \A u \in Tasks \ {t} : slave'[u] = slave[u] /\ target'[u] = target[u]
  BY <1>1, <1>2 DEF TypeOK
<1>4. Created' = Created /\ slot[t] \in Slots
  BY <1>2 DEF Created, IInv, SlaveInv
<1>5. TypeOK'
  BY <1>1, <1>2, <1>4 DEF TypeOK
<1>6. ProgressInv' /\ ClientInv' /\ IdInv' /\ \A u \in Tasks : AtClient(u)' <=> AtClient(u)
  BY <1>2, <1>3, <1>4, ThreadFrame
<1>7. SlaveInv'
  <2> SUFFICES ASSUME NEW u \in Tasks, slave'[u] # "none"
               PROVE  /\ slot[u] \in Slots
                      /\ slave'[u] # "born" /\ target'[u] # NoThread =>
                           target'[u] \in Created /\ slot[target'[u]] = slot[u]
                      /\ slot[u] \notin doubtful =>
                           /\ u \in Created
                           /\ slave'[u] = "born" => pool[slot[u]] = u
                           /\ slave'[u] # "born" => target'[u] = u
                           /\ slave'[u] \in {"free", "done"} => u \notin running
    BY <1>2, <1>4 DEF SlaveInv
  <2>1. CASE u = t
    <3>1. pool[slot[t]] # NoThread => pool[slot[t]] \in Created /\ slot[pool[slot[t]]] = slot[t]
      BY <1>4 DEF IInv, IdInv
    <3>2. slot[t] \notin doubtful => t \in Created /\ pool[slot[t]] = t
      BY <1>2 DEF IInv, SlaveInv
    <3> QED  BY <1>3, <1>4, <2>1, <3>1, <3>2
  <2>2. CASE u # t
    BY <1>3, <2>2 DEF IInv, SlaveInv
  <2> QED  BY <2>1, <2>2
<1>8. HoldInv'
  <2>1. \A u \in Tasks : \A q \in Slots : Holds(u, q)' => Holds(u, q)
    BY <1>2, <1>3, <1>6 DEF Holds
  <2> QED  BY <1>2, <2>1, HoldersShrink DEF IInv
<1> QED  BY <1>5, <1>6, <1>7, <1>8 DEF IInv

\* A join returns when the thread has ended, unless the slot is in doubt.
LEMMA JoinKeeps ==
  ASSUME IInv, NEW t \in Tasks, Join(t) \/ JoinUndefined(t)
  PROVE  IInv'
<1>1. TypeOK
  BY DEF IInv
<1>2. /\ slave[t] = "join" /\ slave' = [slave EXCEPT ![t] = "free"]
      /\ UNCHANGED <<status_flags, pool, offered, cstate, i, slot, running, ended, dropped, target, doubtful, lost, failures>>
  BY DEF Join, JoinUndefined, clientVars, threadVars, historyVars
<1>3. slave'[t] = "free" /\ \A u \in Tasks \ {t} : slave'[u] = slave[u]
  BY <1>1, <1>2 DEF TypeOK
<1>4. Created' = Created
  BY <1>2 DEF Created
<1>5. TypeOK'
  BY <1>1, <1>2 DEF TypeOK
<1>6. ProgressInv' /\ ClientInv' /\ IdInv' /\ \A u \in Tasks : AtClient(u)' <=> AtClient(u)
  BY <1>2, <1>3, <1>4, ThreadFrame
<1>7. slot[t] \notin doubtful => t \notin running
  <2> SUFFICES ASSUME slot[t] \notin doubtful PROVE t \notin running
    OBVIOUS
  <2>1. target[t] = t
    BY <1>2 DEF IInv, SlaveInv
  <2>2. CASE Join(t)
    BY <1>1, <2>1, <2>2 DEF Join, TypeOK
  <2>3. CASE JoinUndefined(t)
    <3>1. PICK u \in Tasks \ {t} : slave[u] \in {"join", "free", "done"} /\ target[u] = t
      BY <2>1, <2>3, TaskFacts DEF JoinUndefined
    <3>2. slot[t] = slot[u]
      BY <3>1, TaskFacts DEF IInv, SlaveInv
    <3>3. target[u] = u
      BY <3>1, <3>2 DEF IInv, SlaveInv
    <3> QED  BY <3>1, <3>3
  <2> QED  BY <2>2, <2>3
<1>8. SlaveInv'
  <2> SUFFICES ASSUME NEW u \in Tasks, slave'[u] # "none"
               PROVE  /\ slot[u] \in Slots
                      /\ slave'[u] # "born" /\ target[u] # NoThread =>
                           target[u] \in Created /\ slot[target[u]] = slot[u]
                      /\ slot[u] \notin doubtful =>
                           /\ u \in Created
                           /\ slave'[u] = "born" => pool[slot[u]] = u
                           /\ slave'[u] # "born" => target[u] = u
                           /\ slave'[u] \in {"free", "done"} => u \notin running
    BY <1>2, <1>4 DEF SlaveInv
  <2>1. CASE u = t
    BY <1>2, <1>3, <1>7, <2>1 DEF IInv, SlaveInv
  <2>2. CASE u # t
    BY <1>3, <2>2 DEF IInv, SlaveInv
  <2> QED  BY <2>1, <2>2
<1>9. HoldInv'
  <2>1. \A u \in Tasks : \A q \in Slots : Holds(u, q)' => Holds(u, q)
    BY <1>2, <1>3, <1>6 DEF Holds
  <2> QED  BY <1>2, <2>1, HoldersShrink DEF IInv
<1> QED  BY <1>5, <1>6, <1>8, <1>9 DEF IInv

\* The slave gives the slot back: its task, which has ended, was the only one
\* that had it.
LEMMA FreeSlotKeeps ==
  ASSUME IInv, NEW t \in Tasks, FreeSlot(t)
  PROVE  IInv'
<1>1. TypeOK
  BY DEF IInv
<1>2. PICK s : s = slot[t]
  OBVIOUS
<1>3. /\ slave[t] = "free" /\ slave' = [slave EXCEPT ![t] = "done"]
      /\ status_flags' = [status_flags EXCEPT ![s] = TRUE]
      /\ UNCHANGED <<pool, offered, cstate, i, slot, running, ended, dropped, target, doubtful, lost, failures>>
  BY <1>2 DEF FreeSlot, clientVars, threadVars, historyVars
<1>4. slave'[t] = "done" /\ \A u \in Tasks \ {t} : slave'[u] = slave[u]
  BY <1>1, <1>3 DEF TypeOK
<1>5. Created' = Created /\ s \in Slots
  BY <1>2, <1>3 DEF Created, IInv, SlaveInv
<1>6. TypeOK'
  BY <1>1, <1>3 DEF TypeOK
<1>7. ProgressInv' /\ ClientInv' /\ IdInv' /\ \A u \in Tasks : AtClient(u)' <=> AtClient(u)
  BY <1>3, <1>4, <1>5, ThreadFrame
<1>8. SlaveInv'
  <2> SUFFICES ASSUME NEW u \in Tasks, slave'[u] # "none"
               PROVE  /\ slot[u] \in Slots
                      /\ slave'[u] # "born" /\ target[u] # NoThread =>
                           target[u] \in Created /\ slot[target[u]] = slot[u]
                      /\ slot[u] \notin doubtful =>
                           /\ u \in Created
                           /\ slave'[u] = "born" => pool[slot[u]] = u
                           /\ slave'[u] # "born" => target[u] = u
                           /\ slave'[u] \in {"free", "done"} => u \notin running
    BY <1>3, <1>5 DEF SlaveInv
  <2>1. CASE u = t
    BY <1>3, <1>4, <2>1 DEF IInv, SlaveInv
  <2>2. CASE u # t
    BY <1>4, <2>2 DEF IInv, SlaveInv
  <2> QED  BY <2>1, <2>2
<1>9. HoldInv'
  <2>1. \A u \in Tasks : \A q \in Slots : Holds(u, q)' => Holds(u, q)
    BY <1>3, <1>4, <1>7 DEF Holds
  <2>2. s \notin doubtful => \A u \in Tasks : ~ Holds(u, s)'
    <3> SUFFICES ASSUME s \notin doubtful, NEW u \in Tasks PROVE ~ Holds(u, s)'
      OBVIOUS
    <3>1. CASE u # t
      <4>1. Holds(t, s)
        BY <1>2, <1>3 DEF Holds
      <4> QED  BY <1>5, <2>1, <3>1, <4>1 DEF IInv, HoldInv
    <3>2. CASE u = t
      <4>1. t \notin running
        BY <1>2, <1>3 DEF IInv, SlaveInv
      <4>2. ~ AtClient(t)
        <5>1. Given(t)
          BY <1>3 DEF IInv, ProgressInv
        <5>2. t[2] \in Nat /\ offered[t[1]] \in Nat
          BY <1>1, TaskFacts DEF TypeOK
        <5> QED  BY <5>1, <5>2, TaskFacts DEF Given, AtClient
      <4> QED  BY <1>3, <1>4, <1>7, <3>2, <4>1, <4>2 DEF Holds
    <3> QED  BY <3>1, <3>2
  <2>3. \A q \in Slots \ {s} : status_flags'[q] = status_flags[q]
    BY <1>1, <1>3 DEF TypeOK
  <2> SUFFICES ASSUME NEW q \in Slots \ doubtful
               PROVE  /\ \A u, v \in Tasks : Holds(u, q)' /\ Holds(v, q)' => u = v
                      /\ status_flags'[q] => \A u \in Tasks : ~ Holds(u, q)'
    BY <1>3 DEF HoldInv
  <2>4. CASE q = s
    BY <2>2, <2>4
  <2>5. CASE q # s
    BY <2>1, <2>3, <2>5 DEF IInv, HoldInv
  <2> QED  BY <2>4, <2>5
<1> QED  BY <1>6, <1>7, <1>8, <1>9 DEF IInv

-----------------------------------------------------------------------------
\* Every step keeps the invariant.
LEMMA NextIInv == IInv /\ [Next]_vars => IInv'
<1> SUFFICES ASSUME IInv, [Next]_vars PROVE IInv'
  OBVIOUS
<1>1. CASE UNCHANGED vars
  <2>1. UNCHANGED <<status_flags, pool, offered, cstate, i, slot, running, ended, dropped, slave, target,
                    doubtful, lost, failures>>
    BY <1>1 DEF vars, clientVars, threadVars, slaveVars, historyVars
  <2>2. Created' = Created
    BY <2>1 DEF Created
  <2>3. ProgressInv' /\ ClientInv' /\ IdInv' /\ \A u \in Tasks : AtClient(u)' <=> AtClient(u)
    BY <2>1, <2>2, ThreadFrame
  <2>4. TypeOK' /\ SlaveInv'
    BY <2>1, <2>2 DEF IInv, TypeOK, SlaveInv
  <2>5. \A u \in Tasks : \A q \in Slots : Holds(u, q)' => Holds(u, q)
    BY <2>1, <2>3 DEF Holds
  <2>6. HoldInv'
    BY <2>1, <2>5, HoldersShrink DEF IInv
  <2> QED  BY <2>3, <2>4, <2>6 DEF IInv
<1>2. ASSUME NEW c \in Clients, Call(c) \/ thread_avail(c) \/ dispatch_thread(c) PROVE IInv'
  BY <1>2, MoveKeeps, ClaimKeeps, CreateThreadKeeps, EndKeeps DEF dispatch_thread
<1>3. ASSUME NEW t \in Tasks, EndTask(t) \/ slave_function(t) PROVE IInv'
  BY <1>3, EndTaskKeeps, ReadIdKeeps, JoinKeeps, FreeSlotKeeps DEF slave_function
<1> QED  BY <1>1, <1>2, <1>3 DEF Next, Finished

\* The invariant always holds.
THEOREM Invariance == Spec => []IInv
  BY InitIInv, NextIInv, PTL DEF Spec

\* Every variable keeps its type; a task's thread never both runs and has
\* ended, and no task that was dropped has one.
THEOREM TypeCorrect == Spec => []TypeOK
<1>1. IInv => TypeOK
  BY DEF IInv
<1> QED  BY Invariance, <1>1, PTL

\* A slot that no two clients claimed at once and in which no create failed
\* runs one thread at a time and is free only when that has ended.
THEOREM OneThreadPerSlotCorrect == Spec => []OneThreadPerSlot
<1>1. ASSUME IInv PROVE OneThreadPerSlot
  <2>1. \A s \in Slots : \A t \in RunningIn(s) : t \in Tasks /\ Holds(t, s)
    BY <1>1 DEF RunningIn, Holds, IInv, TypeOK
  <2> QED  BY <1>1, <2>1 DEF OneThreadPerSlot, IInv, HoldInv
<1> QED  BY Invariance, <1>1, PTL

-----------------------------------------------------------------------------
(* No slot is stranded.  t has the claim on s: its client is between the    *)
(* claim and the slave, or its slave exists and has not set the flag.      *)
Keeps(t, s) == slot[t] = s /\ (AtClient(t) \/ slave[t] \in {"born", "join", "free"})

ClaimInv == \A s \in Slots \ (doubtful \cup lost) :
              ~ status_flags[s] => \E t \in Tasks : Keeps(t, s)

(* Who can bring a claimed slot back: the client that goes on to create its *)
(* slave, or the slave, which waits for nothing but the task's thread.     *)
OnItsWayBack(s) ==
  \/ \E c \in Clients : cstate[c] \in {"create", "slave"} /\ i[c] = s
  \/ \E t \in Tasks : /\ slot[t] = s
                      /\ slave[t] \in {"born", "free"} \/ (slave[t] = "join" /\ target[t] \in ended)

NoSlotStranded == \A s \in Slots \ (doubtful \cup lost) :
                    status_flags[s] \/ RunningIn(s) # {} \/ OnItsWayBack(s)

\* A step that takes no claim away and claims no slot.
LEMMA ClaimStays ==
  ASSUME ClaimInv, UNCHANGED slot, doubtful \subseteq doubtful', lost \subseteq lost',
         NEW s \in Slots \ (doubtful' \cup lost'), ~ status_flags'[s], ~ status_flags[s],
         \A t \in Tasks : Keeps(t, s) =>
           (AtClient(t) => AtClient(t)' \/ slave'[t] \in {"born", "join", "free"})
             /\ (slave[t] \in {"born", "join", "free"} => slave'[t] \in {"born", "join", "free"})
  PROVE  \E t \in Tasks : Keeps(t, s)'
<1>1. PICK t \in Tasks : Keeps(t, s)
  BY DEF ClaimInv
<1>2. Keeps(t, s)'
  BY <1>1 DEF Keeps
<1> QED  BY <1>2

\* Each step leaves a claimed slot with somebody who has the claim.
LEMMA NextClaimInv == IInv /\ ClaimInv /\ [Next]_vars => ClaimInv'
<1> SUFFICES ASSUME IInv, ClaimInv, [Next]_vars, NEW s \in Slots \ (doubtful' \cup lost'), ~ status_flags'[s]
             PROVE  \E t \in Tasks : Keeps(t, s)'
  BY DEF ClaimInv
<1>0. TypeOK
  BY DEF IInv
<1> USE DEF clientVars, threadVars, slaveVars, historyVars
<1>1. ASSUME NEW c \in Clients, Call(c) \/ thread_avail(c) \/ LookAt(c) \/ Refuse(c)
      PROVE  \E t \in Tasks : Keeps(t, s)'
  <2>1. /\ UNCHANGED <<slot, status_flags, slave, doubtful, lost>>
        /\ cstate[c] \notin {"create", "restore", "slave"}
        /\ cstate' = [cstate EXCEPT ![c] = cstate'[c]] /\ offered' = [offered EXCEPT ![c] = offered'[c]]
    BY <1>0, <1>1 DEF Call, thread_avail, LookAt, Refuse, Goto, TypeOK
  <2>2. \A t \in Tasks : AtClient(t) => AtClient(t)'
    BY <1>0, <2>1, TaskFacts DEF AtClient, Task, TypeOK
  <2> QED  BY <2>1, <2>2, ClaimStays
<1>2. ASSUME NEW c \in Clients, Claim(c) PROVE \E t \in Tasks : Keeps(t, s)'
  <2>1. /\ cstate[c] = "claim" /\ cstate' = [cstate EXCEPT ![c] = "create"]
        /\ status_flags' = [status_flags EXCEPT ![i[c]] = FALSE]
        /\ slot' = [slot EXCEPT ![Task(c)] = i[c]]
        /\ doubtful \subseteq doubtful' /\ UNCHANGED <<offered, slave, lost>>
    BY <1>2 DEF Claim, Goto
  <2>2. Task(c) \in Tasks /\ i[c] \in Slots
    BY <2>1 DEF IInv, ClientInv
  <2>3. CASE s = i[c]
    <3>1. slot'[Task(c)] = s /\ Task(c)' = Task(c) /\ Task(c)[1] = c /\ cstate'[c] = "create"
      BY <1>0, <2>1, <2>2, <2>3, TaskFacts DEF TypeOK, Task
    <3>2. AtClient(Task(c))'
      BY <3>1, TaskFacts DEF AtClient
    <3> QED  BY <2>2, <3>1, <3>2 DEF Keeps
  <2>4. CASE s # i[c]
    <3>1. ~ status_flags[s]
      BY <1>0, <2>1, <2>4 DEF TypeOK
    <3>2. PICK t \in Tasks : Keeps(t, s)
      BY <2>1, <3>1 DEF ClaimInv
    <3>3. t # Task(c)
      <4>1. slave[Task(c)] = "none"
        <5>1. ~ Given(Task(c))
          <6>1. offered[c] \in Nat
            BY <1>0, NAssumption DEF TypeOK
          <6> QED  BY <2>1, <6>1, TaskFacts DEF Given
        <5> QED  BY <2>2, <5>1 DEF IInv, ProgressInv
      <4>2. ~ AtClient(Task(c))
        BY <2>1, TaskFacts DEF AtClient
      <4> QED  BY <3>2, <4>1, <4>2 DEF Keeps
    <3>4. slot'[t] = slot[t] /\ slave'[t] = slave[t]
      BY <1>0, <2>1, <3>3 DEF TypeOK
    <3>5. AtClient(t) => AtClient(t)'
      BY <1>0, <2>1, TaskFacts DEF AtClient, Task, TypeOK
    <3> QED  BY <3>2, <3>4, <3>5 DEF Keeps
  <2> QED  BY <2>3, <2>4
<1>3. ASSUME NEW c \in Clients, CreateThread(c) \/ CreateFails(c) \/ RestoreFlag(c)
      PROVE  \E t \in Tasks : Keeps(t, s)'
  <2>1. /\ cstate'[c] \in {"create", "restore", "slave"}
        /\ cstate' = [cstate EXCEPT ![c] = cstate'[c]]
        /\ doubtful \subseteq doubtful' /\ UNCHANGED <<offered, slot, slave, lost>>
        /\ status_flags'[s] = status_flags[s] \/ status_flags'[s]
    BY <1>0, <1>3 DEF CreateThread, CreateFails, RestoreFlag, Goto, TypeOK
  <2>2. \A t \in Tasks : AtClient(t) => AtClient(t)'
    BY <1>0, <2>1, TaskFacts DEF AtClient, Task, TypeOK
  <2> QED  BY <2>1, <2>2, ClaimStays
<1>4. ASSUME NEW c \in Clients, CreateSlave(c) PROVE \E t \in Tasks : Keeps(t, s)'
  <2>1. /\ cstate' = [cstate EXCEPT ![c] = "next"] /\ slave' = [slave EXCEPT ![Task(c)] = "born"]
        /\ UNCHANGED <<offered, slot, status_flags, doubtful, lost>>
    BY <1>4 DEF CreateSlave, Goto
  <2>2. \A t \in Tasks : slave'[t] = IF t = Task(c) THEN "born" ELSE slave[t]
    BY <1>0, <2>1 DEF TypeOK
  <2>3. \A t \in Tasks : AtClient(t) => AtClient(t)' \/ slave'[t] = "born"
    BY <1>0, <2>1, <2>2, TaskFacts DEF AtClient, Task, TypeOK
  <2> QED  BY <2>1, <2>2, <2>3, ClaimStays
<1>5. ASSUME NEW c \in Clients, SlaveFails(c) PROVE \E t \in Tasks : Keeps(t, s)'
  <2>1. /\ cstate[c] = "slave" /\ cstate' = [cstate EXCEPT ![c] = "next"] /\ lost' = lost \cup {i[c]}
        /\ UNCHANGED <<offered, slot, slave, status_flags, doubtful>>
    BY <1>5 DEF SlaveFails, Goto
  <2>2. slot[Task(c)] = i[c] /\ s # i[c]
    BY <2>1 DEF IInv, ClientInv
  <2>3. \A t \in Tasks : Keeps(t, s) /\ AtClient(t) => AtClient(t)'
    BY <1>0, <2>1, <2>2, TaskFacts DEF Keeps, AtClient, Task, TypeOK
  <2> QED  BY <2>1, <2>3, ClaimStays
<1>6. ASSUME NEW t \in Tasks, EndTask(t) \/ ReadId(t) \/ Join(t) \/ JoinUndefined(t)
      PROVE  \E u \in Tasks : Keeps(u, s)'
  <2>1. /\ UNCHANGED <<offered, cstate, slot, status_flags, doubtful, lost>>
        /\ \A u \in Tasks : slave'[u] = slave[u] \/ slave'[u] \in {"join", "free"}
    BY <1>0, <1>6 DEF EndTask, ReadId, Join, JoinUndefined, TypeOK
  <2>2. \A u \in Tasks : AtClient(u) => AtClient(u)'
    BY <2>1 DEF AtClient, Task
  <2> QED  BY <2>1, <2>2, ClaimStays
<1>7. ASSUME NEW t \in Tasks, FreeSlot(t) PROVE \E u \in Tasks : Keeps(u, s)'
  <2>1. /\ status_flags' = [status_flags EXCEPT ![slot[t]] = TRUE] /\ slave' = [slave EXCEPT ![t] = "done"]
        /\ UNCHANGED <<offered, cstate, slot, doubtful, lost>>
    BY <1>7 DEF FreeSlot
  <2>2. slot[t] # s /\ ~ status_flags[s]
    BY <1>0, <2>1 DEF TypeOK
  <2>3. \A u \in Tasks : slot[u] = s => slave'[u] = slave[u]
    BY <1>0, <2>1, <2>2 DEF TypeOK
  <2>4. \A u \in Tasks : AtClient(u) => AtClient(u)'
    BY <2>1 DEF AtClient, Task
  <2> QED  BY <2>1, <2>2, <2>3, <2>4, ClaimStays DEF Keeps
<1>8. CASE UNCHANGED vars
  <2>1. UNCHANGED <<offered, cstate, slot, slave, status_flags, doubtful, lost>>
    BY <1>8 DEF vars
  <2>2. \A t \in Tasks : AtClient(t) => AtClient(t)'
    BY <2>1 DEF AtClient, Task
  <2> QED  BY <2>1, <2>2, ClaimStays
<1> QED
  BY <1>1, <1>2, <1>3, <1>4, <1>5, <1>6, <1>7, <1>8 DEF Next, Finished, dispatch_thread, slave_function

\* A claimed slot is never stranded: unless two clients claimed it at once or a
\* create failed, it has a task running in it, or a thread that can go on and
\* brings it back.  The exceptions of EventuallyFree are all there are.
THEOREM NeverStranded == Spec => []NoSlotStranded
<1>1. Init => ClaimInv
  BY DEF Init, ClaimInv
<1>2. ASSUME IInv, ClaimInv PROVE NoSlotStranded
  <2> SUFFICES ASSUME NEW s \in Slots \ (doubtful \cup lost), ~ status_flags[s]
               PROVE  RunningIn(s) # {} \/ OnItsWayBack(s)
    BY DEF NoSlotStranded
  <2>1. PICK t \in Tasks : Keeps(t, s)
    BY <1>2 DEF ClaimInv
  <2>2. CASE AtClient(t)
    <3>1. PICK c \in Clients : c = t[1]
      BY TaskFacts
    <3>2. i[c] = s /\ cstate[c] \in {"create", "slave"}
      BY <1>2, <2>1, <2>2, <3>1 DEF Keeps, AtClient, IInv, ClientInv
    <3> QED  BY <3>2 DEF OnItsWayBack
  <2>3. CASE slave[t] \in {"born", "free"}
    BY <2>1, <2>3 DEF Keeps, OnItsWayBack
  <2>4. CASE slave[t] = "join"
    <3>1. slot[t] = s /\ target[t] = t /\ t \in running \cup ended
      BY <1>2, <2>1, <2>4 DEF Keeps, IInv, SlaveInv, Created
    <3> QED  BY <2>4, <3>1 DEF OnItsWayBack, RunningIn
  <2> QED  BY <2>1, <2>2, <2>3, <2>4 DEF Keeps
<1> QED  BY Invariance, <1>1, <1>2, NextClaimInv, PTL DEF Spec
=============================================================================
