------------------------ MODULE EventSchedulerProofs ------------------------
(***************************************************************************)
(* Theorems about EventScheduler, for any clients, any number of events    *)
(* and any size of table.                                                  *)
(***************************************************************************)
EXTENDS EventScheduler, Sequences, FiniteSetTheorems, TLAPS

-----------------------------------------------------------------------------
(* Facts about events and indexes.                                         *)

\* An event is a client and a number; no event is the absence of one.
LEMMA EventFacts ==
  /\ \A e \in Events : /\ e[1] \in Clients /\ e[2] \in 1..N[e[1]]
                       /\ e = <<e[1], e[2]>> /\ e # NoEvent
  /\ \A c \in Clients : \A n \in 1..N[c] : <<c, n>> \in Events
  /\ \A c, d \in Clients : \A j, k \in Nat :
       /\ (<<c, j>> = <<d, k>>) => c = d /\ j = k
       /\ <<c, j>>[1] = c /\ <<c, j>>[2] = k => j = k
<1>1. \A e \in Events : e[1] \in Clients /\ e[2] \in 1..N[e[1]] /\ e = <<e[1], e[2]>>
  BY DEF Events
<1>2. \A c \in Clients : \A n \in 1..N[c] : <<c, n>> \in Events
  BY DEF Events
<1>3. \A e \in Events : e # NoEvent
  <2> TAKE e \in Events
  <2>1. Len(<<e[1], e[2]>>) = 2 /\ Len(NoEvent) = 0
    BY DEF NoEvent
  <2> QED  BY <1>1, <2>1
<1> QED  BY <1>1, <1>2, <1>3

\* The table is no longer than the arrays, and 111 is not one of its indexes.
LEMMA IndexFacts ==
  /\ max_events \in Nat /\ max_events <= Places /\ Places \in Nat
  /\ Indexes \subseteq Nat /\ Unused \notin Indexes
  /\ \A k \in 0..max_events : k \in Indexes \/ k = max_events
  /\ \A k \in Indexes : k \in 0..max_events /\ k # max_events /\ k + 1 \in 0..max_events
  BY MaxEventsAssumption DEF Places, Indexes, Unused

-----------------------------------------------------------------------------
(* Type correctness.  The thread created for an event, and the place it    *)
(* works on, must be of an event that has been scheduled.                  *)
Active(t) == timer[t] \in {"waiting", "expired", "call"}

ClientInv ==
  \A c \in Clients :
    /\ cstate[c] # "next" => scheduled[c] >= 1 /\ id[Current(c)] = Unused
    /\ cstate[c] \notin {"next", "sleep"} => timer[Current(c)] = "none"
    /\ cstate[c] \in {"fill", "mark", "clear"} => m[c] \in Indexes

EventInv ==
  \A e \in Events :
    /\ scheduled[e[1]] < e[2] => timer[e] = "none" /\ id[e] = Unused
    /\ timer[e] = "born" /\ e \notin late => cstate[e[1]] = "sleep" /\ e = Current(e[1])
    /\ Active(e) /\ ~ undefined => index[e] \in Indexes

TypeInv == TypeOK /\ ClientInv /\ EventInv

\* The event a client is scheduling is one of its own.
LEMMA CurrentFacts ==
  ASSUME TypeInv
  PROVE  /\ \A c \in Clients : scheduled[c] \in Nat /\ N[c] \in Nat
         /\ \A c \in Clients : cstate[c] # "next" => Current(c) \in Events
         /\ \A c \in Clients : Current(c)[1] = c /\ Current(c)[2] = scheduled[c]
         /\ \A c, d \in Clients : Current(c) = Current(d) => c = d
<1> USE NAssumption DEF TypeInv, TypeOK, ClientInv
<1>1. \A c \in Clients : scheduled[c] \in Nat /\ N[c] \in Nat /\ scheduled[c] <= N[c]
  OBVIOUS
<1>2. \A c \in Clients : Current(c)[1] = c /\ Current(c)[2] = scheduled[c]
  BY DEF Current
<1>3. \A c \in Clients : cstate[c] # "next" => Current(c) \in Events
  <2> SUFFICES ASSUME NEW c \in Clients, cstate[c] # "next" PROVE Current(c) \in Events
    OBVIOUS
  <2>1. scheduled[c] \in 1..N[c]
    BY <1>1
  <2> QED  BY <2>1, EventFacts DEF Current
<1> QED  BY <1>1, <1>2, <1>3

\* The initial state has the right types.
LEMMA InitTypeInv == Init => TypeInv
<1> SUFFICES ASSUME Init PROVE TypeInv
  OBVIOUS
<1> USE NAssumption, IndexFacts DEF Init
<1>1. ed \in [Indexes -> Place] /\ undefined \in BOOLEAN
  BY DEF Place
<1>2. TypeOK
  <2>1. id \in [Events -> 0..max_events \cup {Unused}] /\ m \in [Clients -> 0..max_events]
        /\ index \in [Events -> 0..max_events]
    OBVIOUS
  <2>2. scheduled \in [Clients -> Nat] /\ \A c \in Clients : scheduled[c] <= N[c]
    OBVIOUS
  <2>3. cstate \in [Clients -> CStates] /\ timer \in [Events -> TStates]
    BY DEF CStates, TStates
  <2> QED  BY <1>1, <2>1, <2>2, <2>3 DEF TypeOK
<1>3. ClientInv
  BY DEF ClientInv
<1>4. EventInv
  BY DEF EventInv, Active
<1> QED  BY <1>2, <1>3, <1>4 DEF TypeInv

\* Only Call changes which event a client is scheduling.
SameCurrent == \A c \in Clients : Current(c)' = Current(c)

\* A client that begins to schedule an event keeps the types.
LEMMA CallTypeInv ==
  ASSUME TypeInv, NEW c \in Clients, Call(c)
  PROVE  TypeInv'
<1> USE CurrentFacts DEF Call, Goto, timerVars, historyVars
<1>1. TypeOK'
  BY NAssumption, IndexFacts DEF TypeInv, TypeOK, CStates
<1>2. /\ Current(c)' \in Events /\ scheduled[c] < Current(c)'[2] /\ Current(c)'[1] = c
      /\ \A d \in Clients \ {c} : Current(d)' = Current(d)
  <2>1. scheduled'[c] \in 1..N[c] /\ scheduled'[c] = scheduled[c] + 1
    BY NAssumption DEF TypeInv, TypeOK
  <2>2. \A d \in Clients \ {c} : scheduled'[d] = scheduled[d]
    BY DEF TypeInv, TypeOK
  <2> QED  BY <2>1, <2>2, EventFacts DEF Current
<1>3. ClientInv'
  BY <1>2, IndexFacts DEF TypeInv, TypeOK, ClientInv, EventInv
<1>4. EventInv'
  BY <1>2, EventFacts DEF TypeInv, TypeOK, EventInv, Active, Current
<1> QED  BY <1>1, <1>3, <1>4 DEF TypeInv

\* The steps of eventSchedule keep the types.
LEMMA ScheduleTypeInv ==
  ASSUME TypeInv, ~ undefined, NEW c \in Clients, eventSchedule(c)
  PROVE  TypeInv'
<1>0. SameCurrent
  BY DEF eventSchedule, InUse, FoundUnused, NoneUnused, Fill, Mark, ClearCancel, CreateTimer,
         CreateFails, Return, Current, SameCurrent
<1> USE <1>0, CurrentFacts DEF Goto, timerVars, historyVars, SameCurrent
<1>1. TypeOK'
  <2> USE IndexFacts DEF TypeInv, TypeOK
  <2>1. CASE InUse(c)
    BY <2>1 DEF InUse, CStates
  <2>2. CASE FoundUnused(c)
    BY <2>2 DEF FoundUnused, CStates
  <2>3. CASE NoneUnused(c)
    BY <2>3 DEF NoneUnused, CStates
  <2>4. CASE Fill(c)
    <3>1. m[c] \in Indexes /\ Current(c) \in Events
      BY <2>4 DEF Fill, ClientInv
    <3>2. ed' \in [Indexes -> Place]
      BY <2>4, <3>1 DEF Fill, Place
    <3> QED  BY <2>4, <3>2 DEF Fill, CStates
  <2>5. CASE Mark(c)
    <3>1. m[c] \in Indexes
      BY <2>5 DEF Mark, ClientInv
    <3>2. ed' \in [Indexes -> Place]
      BY <2>5, <3>1 DEF Mark, Place
    <3> QED  BY <2>5, <3>2 DEF Mark, CStates
  <2>6. CASE ClearCancel(c)
    <3>1. m[c] \in Indexes
      BY <2>6 DEF ClearCancel, ClientInv
    <3>2. ed' \in [Indexes -> Place]
      <4>1. [ed[m[c]] EXCEPT !.cancel = FALSE] \in Place
        <5>1. ed[m[c]] \in Place /\ FALSE \in BOOLEAN
          BY <3>1
        <5> QED  BY <5>1, Zenon DEF Place
      <4> QED  BY <2>6, <3>1, <4>1 DEF ClearCancel
    <3> QED  BY <2>6, <3>2 DEF ClearCancel, CStates
  <2>7. CASE CreateTimer(c) \/ CreateFails(c)
    <3>1. undefined' \in BOOLEAN
      BY <2>7, Zenon DEF CreateTimer, CreateFails
    <3>2. Current(c) \in Events
      BY <2>7 DEF CreateTimer, CreateFails
    <3> QED  BY <2>7, <3>1, <3>2 DEF CreateTimer, CreateFails, CStates, TStates
  <2>8. CASE Return(c)
    <3>1. Current(c) \in Events
      BY <2>8 DEF Return
    <3> QED  BY <2>8, <3>1 DEF Return, CStates
  <2> QED  BY <2>1, <2>2, <2>3, <2>4, <2>5, <2>6, <2>7, <2>8 DEF eventSchedule
<1>2. ClientInv'
  <2> USE IndexFacts DEF TypeInv, TypeOK, ClientInv
  <2>1. CASE InUse(c) \/ FoundUnused(c) \/ NoneUnused(c)
    BY <2>1 DEF InUse, FoundUnused, NoneUnused
  <2>2. CASE Fill(c) \/ Mark(c) \/ ClearCancel(c)
    BY <2>2 DEF Fill, Mark, ClearCancel
  <2>3. CASE CreateTimer(c) \/ CreateFails(c) \/ Return(c)
    BY <2>3 DEF CreateTimer, CreateFails, Return
  <2> QED  BY <2>1, <2>2, <2>3 DEF eventSchedule
<1>3. EventInv'
  <2> USE EventFacts, IndexFacts DEF TypeInv, TypeOK, EventInv, ClientInv, Active
  <2>1. CASE InUse(c) \/ FoundUnused(c) \/ NoneUnused(c)
    BY <2>1 DEF InUse, FoundUnused, NoneUnused
  <2>2. CASE Fill(c) \/ Mark(c) \/ ClearCancel(c)
    BY <2>2 DEF Fill, Mark, ClearCancel
  <2>3. CASE CreateTimer(c) \/ CreateFails(c) \/ Return(c)
    BY <2>3 DEF CreateTimer, CreateFails, Return
  <2> QED  BY <2>1, <2>2, <2>3 DEF eventSchedule
<1> QED  BY <1>1, <1>2, <1>3 DEF TypeInv

\* A cancel keeps the types.
LEMMA CancelTypeInv ==
  ASSUME TypeInv, NEW c \in Clients, NEW e \in Events, eventCancel(c, e)
  PROVE  TypeInv'
<1> USE DEF eventCancel, NoteCancel, clientVars, timerVars
<1>1. TypeOK'
  BY DEF TypeInv, TypeOK, Place
<1> QED  BY <1>1 DEF TypeInv, ClientInv, EventInv, Current, Active

\* The steps of an event's thread keep the types.
LEMMA TimerTypeInv ==
  ASSUME TypeInv, ~ undefined, NEW t \in Events, worker_thread(t)
  PROVE  TypeInv'
<1> USE DEF clientVars, historyVars
<1>0. SameCurrent
  BY DEF worker_thread, ReadIndex, Select, LookAtCancel, CallFunction, Current, SameCurrent
<1>1. TypeOK'
  <2> USE IndexFacts DEF TypeInv, TypeOK, TStates
  <2>1. CASE ReadIndex(t)
    <3>1. undefined' \in BOOLEAN
      BY <2>1, Zenon DEF ReadIndex
    <3> QED  BY <2>1, <3>1 DEF ReadIndex
  <2>2. CASE Select(t) \/ LookAtCancel(t)
    BY <2>2 DEF Select, LookAtCancel
  <2>3. CASE CallFunction(t)
    <3>1. undefined' \in BOOLEAN
      BY <2>3, Zenon DEF CallFunction
    <3>2. ed[index[t]] \in Place
      BY <2>3 DEF CallFunction, EventInv, Active
    <3>3. ed[index[t]].event \in Events \cup {NoEvent}
      BY <3>2 DEF Place
    <3> QED  BY <2>3, <3>1, <3>3 DEF CallFunction
  <2> QED  BY <2>1, <2>2, <2>3 DEF worker_thread
<1>2. ClientInv'
  BY <1>0, CurrentFacts DEF TypeInv, TypeOK, ClientInv, worker_thread, ReadIndex, Select,
     LookAtCancel, CallFunction, SameCurrent, EventInv, Active
<1>3. EventInv'
  <2> USE <1>0, CurrentFacts, EventFacts, IndexFacts DEF TypeInv, TypeOK, EventInv, SameCurrent, Active
  <2>1. CASE ReadIndex(t)
    <3>1. PICK n \in 0..max_events : index' = [index EXCEPT ![t] = n] /\ undefined' = (n = max_events)
      BY <2>1, Zenon DEF ReadIndex
    <3>2. undefined' \/ n \in Indexes
      <4>1. n = max_events \/ n \in Indexes
        OBVIOUS
      <4> QED  BY <3>1, <4>1, Zenon
    <3>3. timer' = [timer EXCEPT ![t] = "waiting"] /\ scheduled' = scheduled /\ id' = id
          /\ cstate' = cstate /\ late' = late
      BY <2>1 DEF ReadIndex
    <3>4. index' = [index EXCEPT ![t] = n]
      BY <3>1
    <3>5. SUFFICES ASSUME NEW e \in Events PROVE
            /\ scheduled'[e[1]] < e[2] => timer'[e] = "none" /\ id'[e] = Unused
            /\ timer'[e] = "born" /\ e \notin late' => cstate'[e[1]] = "sleep" /\ e = Current(e[1])'
            /\ Active(e)' /\ ~ undefined' => index'[e] \in Indexes
      OBVIOUS
    <3>6. scheduled'[e[1]] < e[2] => timer'[e] = "none" /\ id'[e] = Unused
      BY <2>1, <3>3 DEF ReadIndex
    <3>7. timer'[e] = "born" /\ e \notin late' => cstate'[e[1]] = "sleep" /\ e = Current(e[1])'
      BY <3>3
    <3>8. CASE e = t
      BY <3>2, <3>4, <3>6, <3>7, <3>8
    <3>9. CASE e # t
      BY <3>3, <3>4, <3>6, <3>7, <3>9
    <3> QED  BY <3>8, <3>9
  <2>2. CASE Select(t) \/ LookAtCancel(t)
    BY <2>2 DEF Select, LookAtCancel
  <2>3. CASE CallFunction(t)
    BY <2>3 DEF CallFunction
  <2> QED  BY <2>1, <2>2, <2>3 DEF worker_thread
<1> QED  BY <1>1, <1>2, <1>3 DEF TypeInv

\* TypeInv is inductive.
LEMMA NextTypeInv == TypeInv /\ [Next]_vars => TypeInv'
<1> SUFFICES ASSUME TypeInv, [Next]_vars PROVE TypeInv'
  OBVIOUS
<1>1. CASE UNCHANGED vars
  BY <1>1 DEF vars, clientVars, timerVars, historyVars, TypeInv, TypeOK, ClientInv, EventInv,
     Current, Active
<1>2. CASE ~ undefined /\ Step
  BY <1>2, CallTypeInv, ScheduleTypeInv, CancelTypeInv, TimerTypeInv DEF Step
<1> QED  BY <1>1, <1>2 DEF Next, Ended, Finished

\* The table, the clients' locals and the threads always have the right types;
\* in particular no thread works on a place past the table.
THEOREM TypeCorrect == Spec => []TypeOK
<1>1. TypeInv => TypeOK
  BY DEF TypeInv
<1> QED  BY <1>1, InitTypeInv, NextTypeInv, PTL DEF Spec

-----------------------------------------------------------------------------
(* Whose place is whose.  A place is marked when its e_id is set.  Unless   *)
(* two clients have taken it at once, a place belongs to one event from    *)
(* the moment its client has filled it, and is never filled again.         *)
Marked(p) == ed[p].e_id # Unused

ClientPlaces ==
  \A c \in Clients :
    /\ cstate[c] \in {"clear", "create", "sleep"} /\ m[c] \in Indexes => Marked(m[c])
    /\ cstate[c] \in {"mark", "clear", "create", "sleep"} /\ m[c] \in Indexes \ shared
         => ed[m[c]].event = Current(c)
    /\ cstate[c] \in {"fill", "mark"} /\ m[c] \notin shared => ~ Marked(m[c])

Exclusive ==
  \A c, d \in Clients :
    c # d /\ m[c] = m[d] /\ cstate[c] \in {"fill", "mark"} /\ cstate[d] \in {"fill", "mark"}
      => m[c] \in shared

TimerPlaces ==
  \A t \in Events \ late : Active(t) /\ ~ undefined =>
    /\ Marked(index[t])
    /\ index[t] \notin shared => ed[index[t]].event = t

PlaceInv == TypeInv /\ ClientPlaces /\ Exclusive /\ TimerPlaces

\* Nothing is taken at the start.
LEMMA InitPlaceInv == Init => PlaceInv
<1> SUFFICES ASSUME Init PROVE PlaceInv
  OBVIOUS
<1>1. /\ \A c \in Clients : cstate[c] = "next"
      /\ \A t \in Events : timer[t] = "none"
  BY DEF Init
<1> QED  BY <1>1, InitTypeInv DEF PlaceInv, ClientPlaces, Exclusive, TimerPlaces, Active

\* The steps of eventSchedule keep the places apart.
LEMMA SchedulePlaceInv ==
  ASSUME PlaceInv, TypeInv', ~ undefined, NEW c \in Clients, Call(c) \/ eventSchedule(c)
  PROVE  PlaceInv'
<1>0. /\ \A d \in Clients \ {c} : Current(d)' = Current(d)
      /\ (Fill(c) \/ Mark(c) \/ ClearCancel(c) \/ CreateTimer(c) \/ CreateFails(c)) => SameCurrent
  BY DEF PlaceInv, TypeInv, TypeOK, Call, eventSchedule, InUse, FoundUnused, NoneUnused, Fill, Mark,
         ClearCancel, CreateTimer, CreateFails, Return, Current, SameCurrent
<1> USE <1>0, IndexFacts DEF PlaceInv, TypeInv, TypeOK, Goto, timerVars, historyVars, SameCurrent
<1> HIDE DEF Indexes
<1>1. CASE Call(c)
  BY <1>1 DEF Call, ClientPlaces, Exclusive, TimerPlaces, Marked, Active
<1>2. CASE InUse(c)
  BY <1>2 DEF InUse, ClientPlaces, Exclusive, TimerPlaces, Marked, Active
<1>3. CASE FoundUnused(c)
  BY <1>3 DEF FoundUnused, ClientPlaces, Exclusive, TimerPlaces, Marked, Active
<1>4. CASE NoneUnused(c)
  BY <1>4 DEF NoneUnused, ClientPlaces, Exclusive, TimerPlaces, Marked, Active
<1>5. CASE Fill(c)
  <2>1. m[c] \in Indexes
    BY <1>5 DEF Fill, ClientInv
  <2>2. \A p \in Indexes : /\ ed'[p].e_id = ed[p].e_id
                         /\ ed'[p].event = IF p = m[c] THEN Current(c) ELSE ed[p].event
    BY <1>5, <2>1 DEF Fill, Place
  <2>3. UNCHANGED <<m, timer, index, undefined, shared, late>>
    BY <1>5 DEF Fill
  <2>4. ClientPlaces'
    BY <1>5, <2>1, <2>2, <2>3 DEF Fill, ClientPlaces, Exclusive, Marked
  <2>5. Exclusive'
    BY <1>5, <2>3 DEF Fill, Exclusive
  <2>6. TimerPlaces'
    BY <2>1, <2>2, <2>3, <1>5 DEF Fill, TimerPlaces, ClientPlaces, EventInv, Marked, Active
  <2> QED  BY <2>4, <2>5, <2>6
<1>6. CASE Mark(c)
  <2>1. m[c] \in Indexes
    BY <1>6 DEF Mark, ClientInv
  <2>2. \A p \in Indexes : /\ ed'[p].e_id = IF p = m[c] THEN p ELSE ed[p].e_id
                         /\ ed'[p].event = ed[p].event
    BY <1>6, <2>1 DEF Mark, Place
  <2>3. UNCHANGED <<m, timer, index, undefined, shared, late>>
    BY <1>6 DEF Mark
  <2>4. ClientPlaces'
    BY <1>6, <2>1, <2>2, <2>3 DEF Mark, ClientPlaces, Exclusive, Marked
  <2>5. Exclusive'
    BY <1>6, <2>3 DEF Mark, Exclusive
  <2>6. TimerPlaces'
    BY <2>1, <2>2, <2>3, <1>6 DEF Mark, TimerPlaces, ClientPlaces, EventInv, Marked, Active
  <2> QED  BY <2>4, <2>5, <2>6
<1>7. CASE ClearCancel(c)
  <2>1. m[c] \in Indexes
    BY <1>7 DEF ClearCancel, ClientInv
  <2>2. \A p \in Indexes : ed'[p].e_id = ed[p].e_id /\ ed'[p].event = ed[p].event
    BY <1>7, <2>1 DEF ClearCancel, Place
  <2>3. UNCHANGED <<m, timer, index, undefined, shared, late>>
    BY <1>7 DEF ClearCancel
  <2>4. ClientPlaces'
    BY <1>7, <2>1, <2>2, <2>3 DEF ClearCancel, ClientPlaces, Exclusive, Marked
  <2>5. Exclusive'
    BY <1>7, <2>3 DEF ClearCancel, Exclusive
  <2>6. TimerPlaces'
    BY <2>1, <2>2, <2>3, <1>7 DEF ClearCancel, TimerPlaces, ClientPlaces, EventInv, Marked, Active
  <2> QED  BY <2>4, <2>5, <2>6
<1>8. CASE CreateTimer(c) \/ CreateFails(c)
  <2>1. UNCHANGED <<ed, m, index, shared, late>> /\ cstate' = [cstate EXCEPT ![c] = "sleep"]
    BY <1>8 DEF CreateTimer, CreateFails
  <2>2. cstate[c] = "create"
    BY <1>8 DEF CreateTimer, CreateFails
  <2>0. SameCurrent
    BY <1>8, <1>0
  <2>3. ClientPlaces' /\ Exclusive'
    BY <2>0, <2>1, <2>2 DEF ClientPlaces, Exclusive, Marked
  <2>4. \A t \in Events : Active(t)' => Active(t)
    BY <1>8 DEF CreateTimer, CreateFails, Active
  <2>5. TimerPlaces'
    BY <2>1, <2>4 DEF TimerPlaces, Marked
  <2> QED  BY <2>3, <2>5
<1>9. CASE Return(c)
  BY <1>9 DEF Return, ClientPlaces, Exclusive, TimerPlaces, Marked, Active
<1> QED  BY <1>1, <1>2, <1>3, <1>4, <1>5, <1>6, <1>7, <1>8, <1>9 DEF eventSchedule

\* A cancel changes only cancel flags.
LEMMA CancelPlaceInv ==
  ASSUME PlaceInv, TypeInv', NEW c \in Clients, NEW e \in Events, eventCancel(c, e)
  PROVE  PlaceInv'
<1>1. \A p \in Indexes : ed'[p].event = ed[p].event /\ ed'[p].e_id = ed[p].e_id
  BY DEF PlaceInv, TypeInv, TypeOK, eventCancel, Place
<1>2. /\ UNCHANGED <<clientVars, timerVars, undefined, shared, late>>
      /\ \A d \in Clients : Current(d)' = Current(d)
  BY DEF eventCancel, clientVars, Current
<1> QED  BY <1>1, <1>2, IndexFacts DEF PlaceInv, TypeInv, TypeOK, ClientInv, EventInv, ClientPlaces, Exclusive,
     TimerPlaces, Marked, Active, clientVars, timerVars

\* The steps of an event's thread keep the places apart.
LEMMA TimerPlaceInv ==
  ASSUME PlaceInv, TypeInv', ~ undefined, NEW t \in Events, worker_thread(t)
  PROVE  PlaceInv'
<1>0. SameCurrent
  BY DEF worker_thread, ReadIndex, Select, LookAtCancel, CallFunction, Current, SameCurrent, clientVars
<1> USE <1>0, IndexFacts DEF PlaceInv, TypeInv, TypeOK, clientVars, historyVars, SameCurrent
<1> HIDE DEF Indexes
<1>1. CASE ReadIndex(t)
  <2>1. PICK n \in 0..max_events : /\ t \notin late => n = m[t[1]]
                                   /\ index' = [index EXCEPT ![t] = n]
                                   /\ undefined' = (n = max_events)
    BY <1>1, Zenon DEF ReadIndex
  <2>2. undefined' \/ n \in Indexes
    <3>1. n = max_events \/ n \in Indexes
      OBVIOUS
    <3> QED  BY <2>1, <3>1, Zenon
  <2>3. index' = [index EXCEPT ![t] = n] /\ (t \notin late => n = m[t[1]])
    BY <2>1
  <2>4. UNCHANGED <<ed, cstate, m, shared, late>> /\ timer' = [timer EXCEPT ![t] = "waiting"]
    BY <1>1 DEF ReadIndex
  <2>5. ClientPlaces' /\ Exclusive'
    BY <2>4 DEF ClientPlaces, Exclusive, Marked
  <2>6. t \notin late => t[1] \in Clients /\ cstate[t[1]] = "sleep" /\ t = Current(t[1])
    BY <1>1, EventFacts DEF ReadIndex, EventInv
  <2>7. TimerPlaces'
    BY <2>2, <2>3, <2>4, <2>6 DEF TimerPlaces, ClientPlaces, Marked, Active
  <2> QED  BY <2>5, <2>7
<1>2. CASE Select(t) \/ LookAtCancel(t)
  BY <1>2 DEF Select, LookAtCancel, ClientPlaces, Exclusive, TimerPlaces, Marked, Active
<1>3. CASE CallFunction(t)
  BY <1>3 DEF CallFunction, ClientPlaces, Exclusive, TimerPlaces, Marked, Active
<1> QED  BY <1>1, <1>2, <1>3 DEF worker_thread

\* PlaceInv is inductive.
LEMMA NextPlaceInv == PlaceInv /\ [Next]_vars => PlaceInv'
<1> SUFFICES ASSUME PlaceInv, [Next]_vars PROVE PlaceInv'
  OBVIOUS
<1>0. TypeInv'
  BY NextTypeInv DEF PlaceInv
<1>1. CASE UNCHANGED vars
  BY <1>0, <1>1 DEF vars, clientVars, timerVars, historyVars, PlaceInv, ClientPlaces, Exclusive,
     TimerPlaces, Marked, Active, Current
<1>2. CASE ~ undefined /\ Step
  BY <1>0, <1>2, SchedulePlaceInv, CancelPlaceInv, TimerPlaceInv DEF Step
<1> QED  BY <1>1, <1>2 DEF Next, Ended, Finished

-----------------------------------------------------------------------------
(* Which function a thread has called.  It has called its own, with the    *)
(* two exceptions, because the place it calls from is still its event's;   *)
(* after the call the thread has ended, and its index stays what it was.   *)
RanInv ==
  \A r \in ran : /\ timer[r[1]] = "done"
                 /\ r[1] = r[2] \/ r[1] \in late \/ index[r[1]] \in shared

\* RanInv is preserved by every step.
LEMMA NextRanInv == PlaceInv /\ RanInv /\ [Next]_vars => RanInv'
<1> SUFFICES ASSUME PlaceInv, RanInv, [Next]_vars PROVE RanInv'
  OBVIOUS
<1> USE DEF PlaceInv, TypeInv, TypeOK, RanInv
<1>1. CASE UNCHANGED vars
  BY <1>1 DEF vars, timerVars, historyVars
<1>2. ASSUME NEW c \in Clients, Call(c) \/ eventSchedule(c) PROVE RanInv'
  <2>1. \A t \in Events : timer[t] = "done" => timer'[t] = "done"
    BY <1>2 DEF Call, eventSchedule, InUse, FoundUnused, NoneUnused, Fill, Mark, ClearCancel,
       CreateTimer, CreateFails, Return, Goto, ClientInv, timerVars
  <2>2. UNCHANGED <<index, ran>> /\ late \subseteq late' /\ shared \subseteq shared'
    BY <1>2 DEF Call, eventSchedule, InUse, FoundUnused, NoneUnused, Fill, Mark, ClearCancel,
       CreateTimer, CreateFails, Return, timerVars, historyVars
  <2> QED  BY <2>1, <2>2
<1>3. ASSUME NEW c \in Clients, NEW e \in Events, eventCancel(c, e) PROVE RanInv'
  BY <1>3 DEF eventCancel, timerVars
<1>4. ASSUME ~ undefined, NEW t \in Events, worker_thread(t) PROVE RanInv'
  <2>1. CASE ReadIndex(t)
    <3>1. PICK n \in 0..max_events : index' = [index EXCEPT ![t] = n]
      BY <2>1, Zenon DEF ReadIndex
    <3> QED  BY <2>1, <3>1 DEF ReadIndex, historyVars
  <2>2. CASE Select(t) \/ LookAtCancel(t)
    BY <2>2 DEF Select, LookAtCancel, historyVars
  <2>3. CASE CallFunction(t)
    <3>1. t \in late \/ index[t] \in shared \/ ed[index[t]].event = t
      BY <1>4, <2>3 DEF CallFunction, TimerPlaces, Active
    <3>2. /\ ran' \subseteq ran \cup {<<t, ed[index[t]].event>>}
          /\ timer' = [timer EXCEPT ![t] = "done"]
          /\ UNCHANGED <<index, late, shared>>
      BY <2>3 DEF CallFunction, historyVars
    <3> QED  BY <3>1, <3>2
  <2> QED  BY <1>4, <2>1, <2>2, <2>3 DEF worker_thread
<1> QED  BY <1>1, <1>2, <1>3, <1>4 DEF Next, Step, Ended, Finished

-----------------------------------------------------------------------------
(* A thread reads its index right, or too late.                            *)
Read(t) == timer[t] \in {"waiting", "expired", "call", "done"}

IndexInv ==
  /\ \A p \in Indexes : ed[p].e_id \in {p, Unused}
  /\ \A c \in Clients : cstate[c] = "sleep" /\ Current(c) \notin late /\ Read(Current(c))
                         => index[Current(c)] = m[c]
  /\ \A e \in Events \ late : id[e] \in Indexes /\ Read(e) => index[e] = id[e]

\* IndexInv is preserved by every step.
LEMMA NextIndexInv == PlaceInv /\ IndexInv /\ [Next]_vars => IndexInv'
<1> SUFFICES ASSUME PlaceInv, IndexInv, [Next]_vars PROVE IndexInv'
  OBVIOUS
<1> USE IndexFacts DEF PlaceInv, TypeInv, TypeOK, IndexInv
<1> HIDE DEF Indexes
<1>1. CASE UNCHANGED vars
  BY <1>1 DEF vars, timerVars, clientVars, historyVars, Current, Read
<1>2. ASSUME ~ undefined, NEW c \in Clients, Call(c) \/ eventSchedule(c) PROVE IndexInv'
  <2>0. /\ \A d \in Clients \ {c} : Current(d)' = Current(d)
        /\ Current(c) \in Events \/ cstate[c] = "next"
        /\ \A d \in Clients \ {c} : Current(d) # Current(c)
        /\ ~ Call(c) => SameCurrent
    BY <1>2, CurrentFacts DEF Call, eventSchedule, InUse, FoundUnused, NoneUnused, Fill, Mark,
       ClearCancel, CreateTimer, CreateFails, Return, Current, SameCurrent
  <2>1. CASE Call(c)
    BY <2>0, <2>1 DEF Call, Goto, timerVars, historyVars, Read
  <2>2. CASE InUse(c) \/ FoundUnused(c) \/ NoneUnused(c)
    BY <2>0, <2>2 DEF InUse, FoundUnused, NoneUnused, Goto, timerVars, historyVars, Read
  <2>3. CASE Fill(c) \/ Mark(c) \/ ClearCancel(c)
    <3>1. m[c] \in Indexes
      BY <2>3 DEF Fill, Mark, ClearCancel, Goto, ClientInv
    <3>2. \A p \in Indexes : ed'[p].e_id = ed[p].e_id \/ ed'[p].e_id = p
      BY <2>3, <3>1 DEF Fill, Mark, ClearCancel, Place
    <3>3. UNCHANGED <<m, id, timerVars, historyVars>> /\ SameCurrent
      BY <2>0, <2>3 DEF Fill, Mark, ClearCancel, Call
    <3>4. \A d \in Clients : cstate'[d] = "sleep" => cstate[d] = "sleep"
      BY <2>3 DEF Fill, Mark, ClearCancel, Goto
    <3> QED  BY <3>2, <3>3, <3>4 DEF timerVars, historyVars, SameCurrent, Read
  <2>4. CASE CreateTimer(c) \/ CreateFails(c)
    <3>1. UNCHANGED <<ed, m, id, index, late>> /\ cstate' = [cstate EXCEPT ![c] = "sleep"] /\ SameCurrent
      BY <2>0, <2>4 DEF CreateTimer, CreateFails, Goto, historyVars, Call
    <3>2. \A e \in Events : Read(e)' => Read(e) /\ e # Current(c)
      BY <2>0, <2>4 DEF CreateTimer, CreateFails, Goto, Read, ClientInv
    <3>3. \A d \in Clients : cstate'[d] = "sleep" /\ Read(Current(d))' => d # c /\ cstate[d] = "sleep"
      BY <2>0, <2>4, <3>1, <3>2, CurrentFacts DEF SameCurrent, CreateTimer, CreateFails, Goto, Read
    <3>4. \A d \in Clients : cstate[d] = "sleep" /\ Read(Current(d))' => Read(Current(d))
      BY <3>1, <3>2, CurrentFacts DEF SameCurrent, Read
    <3> QED  BY <3>1, <3>2, <3>3, <3>4 DEF SameCurrent
  <2>5. CASE Return(c)
    <3>1. /\ UNCHANGED <<ed, m, timer, index>> /\ cstate' = [cstate EXCEPT ![c] = "next"] /\ SameCurrent
          /\ id' = [id EXCEPT ![Current(c)] = m[c]] /\ late \subseteq late'
          /\ cstate[c] = "sleep"
      BY <2>0, <2>5 DEF Return, Goto, timerVars, Call
    <3> QED  BY <2>0, <3>1 DEF SameCurrent, Read
  <2> QED  BY <1>2, <2>1, <2>2, <2>3, <2>4, <2>5 DEF eventSchedule
<1>3. ASSUME NEW c \in Clients, NEW e \in Events, eventCancel(c, e) PROVE IndexInv'
  <2>1. \A p \in Indexes : ed'[p].e_id = ed[p].e_id
    BY <1>3 DEF eventCancel, Place
  <2> QED  BY <1>3, <2>1 DEF eventCancel, clientVars, timerVars, Current, Read
<1>4. ASSUME ~ undefined, NEW t \in Events, worker_thread(t) PROVE IndexInv'
  <2>0. SameCurrent
    BY <1>4 DEF worker_thread, ReadIndex, Select, LookAtCancel, CallFunction, Current, SameCurrent, clientVars
  <2>1. CASE ReadIndex(t)
    <3>1. PICK n \in 0..max_events : /\ index' = [index EXCEPT ![t] = n]
                                     /\ t \notin late => n = m[t[1]]
      BY <2>1, Zenon DEF ReadIndex
    <3>2. t \notin late => t[1] \in Clients /\ cstate[t[1]] = "sleep" /\ t = Current(t[1])
      BY <2>1, EventFacts DEF ReadIndex, EventInv
    <3>3. t \notin late => id[t] = Unused
      BY <3>2 DEF ClientInv
    <3>4. UNCHANGED <<ed, cstate, m, id, late>> /\ timer' = [timer EXCEPT ![t] = "waiting"]
      BY <2>1 DEF ReadIndex, clientVars, historyVars
    <3>5. \A d \in Clients : Current(d) = t => d = t[1]
      BY CurrentFacts
    <3>6. \A e \in Events \ {t} : index'[e] = index[e] /\ (Read(e)' => Read(e))
      BY <1>4, <3>1, <3>4 DEF Read
    <3>7. index'[t] = n
      BY <1>4, <3>1
    <3>8. ASSUME NEW d \in Clients, cstate[d] = "sleep", Current(d) \notin late, Read(Current(d))'
          PROVE  index'[Current(d)] = m[d]
      <4>1. Current(d) \in Events
        BY <3>8, CurrentFacts
      <4>2. CASE Current(d) = t
        BY <1>4, <3>1, <3>5, <3>7, <3>8, <4>2
      <4>3. CASE Current(d) # t
        <5>1. Read(Current(d))
          BY <2>0, <3>6, <3>8, <4>1, <4>3 DEF SameCurrent, Read
        <5> QED  BY <3>6, <3>8, <4>1, <4>3, <5>1
      <4> QED  BY <4>2, <4>3
    <3>9. ASSUME NEW e \in Events \ late, id[e] \in Indexes, Read(e)' PROVE index'[e] = id[e]
      <4>1. e # t
        BY <3>3, <3>9
      <4> QED  BY <3>6, <3>9, <4>1
    <3> QED  BY <2>0, <3>4, <3>8, <3>9 DEF SameCurrent
  <2>2. CASE Select(t) \/ LookAtCancel(t) \/ CallFunction(t)
    <3>1. \A e \in Events : Read(e)' => Read(e)
      BY <2>2 DEF Select, LookAtCancel, CallFunction, Read
    <3>2. UNCHANGED <<ed, clientVars, index, late>>
      BY <2>2 DEF Select, LookAtCancel, CallFunction, historyVars
    <3>3. \A d \in Clients : cstate[d] = "sleep" /\ Read(Current(d))' => Read(Current(d))
      BY <2>0, <3>1, <3>2, CurrentFacts DEF SameCurrent, Read, clientVars
    <3> QED  BY <2>0, <3>1, <3>2, <3>3 DEF SameCurrent, clientVars
  <2> QED  BY <1>4, <2>1, <2>2 DEF worker_thread
<1> QED  BY <1>1, <1>2, <1>3, <1>4 DEF Next, Step, Ended, Finished

-----------------------------------------------------------------------------
(* A cancel that came before the thread looked stays in the event's place, *)
(* which nobody but another eventSchedule of the same place clears.        *)
CancelInv ==
  \A e \in cancelled \ late :
    /\ id[e] \in Indexes /\ timer[e] \notin {"none", "born"}
    /\ id[e] \notin shared =>
         /\ timer[e] # "call" /\ <<e, e>> \notin ran
         /\ timer[e] \in {"waiting", "expired"} => ed[id[e]].cancel

\* A step of eventSchedule preserves CancelInv: the flag it clears is that of
\* its own place.
LEMMA ScheduleCancelInv ==
  ASSUME PlaceInv, IndexInv, CancelInv, NEW c \in Clients,
         ~ undefined, Call(c) \/ eventSchedule(c)
  PROVE  CancelInv'
<1> USE IndexFacts DEF PlaceInv, TypeInv, TypeOK
<1> HIDE DEF Indexes
<1>1. /\ cancelled' = cancelled /\ ran' = ran /\ late \subseteq late' /\ shared \subseteq shared'
  BY DEF Call, eventSchedule, InUse, FoundUnused, NoneUnused, Fill, Mark, ClearCancel,
     CreateTimer, CreateFails, Return, timerVars, historyVars
<1>2. ASSUME NEW e \in cancelled \ late PROVE id'[e] = id[e] /\ timer'[e] = timer[e]
  <2>1. id[e] # Unused /\ timer[e] # "none" /\ e \in Events
    BY <1>2 DEF CancelInv
  <2>2. /\ cstate[c] # "next" => id[Current(c)] = Unused
        /\ cstate[c] = "create" => timer[Current(c)] = "none"
    BY DEF ClientInv
  <2> QED  BY <2>1, <2>2 DEF Call, eventSchedule, InUse, FoundUnused, NoneUnused, Fill, Mark, ClearCancel,
     CreateTimer, CreateFails, Return, Goto, timerVars, historyVars
<1>3. ASSUME NEW e \in cancelled \ late, id[e] \notin shared, timer[e] \in {"waiting", "expired"}
      PROVE  ed'[id[e]].cancel = ed[id[e]].cancel
  <2>1. id[e] \in Indexes /\ e \in Events \ late /\ index[e] = id[e]
    BY <1>3 DEF CancelInv, IndexInv, Read
  <2>2. ed[id[e]].event = e
    BY <1>3, <2>1 DEF TimerPlaces, Active
  <2>3. CASE ClearCancel(c)
    <3>1. cstate[c] = "clear" /\ m[c] \in Indexes /\ id[Current(c)] = Unused
      BY <2>3 DEF ClearCancel, Goto, ClientInv
    <3>2. m[c] # id[e]
      BY <1>3, <2>1, <2>2, <3>1 DEF ClientPlaces
    <3> QED  BY <2>1, <2>3, <3>2 DEF ClearCancel
  <2>4. CASE Fill(c) \/ Mark(c)
    <3>1. m[c] \in Indexes
      BY <2>4 DEF Fill, Mark, Goto, ClientInv
    <3> QED  BY <2>1, <2>4, <3>1 DEF Fill, Mark, Place
  <2>5. CASE ~ (ClearCancel(c) \/ Fill(c) \/ Mark(c))
    <3>1. ed' = ed
      BY <2>5 DEF Call, eventSchedule, InUse, FoundUnused, NoneUnused, CreateTimer, CreateFails, Return
    <3> QED  BY <3>1
  <2> QED  BY <2>3, <2>4, <2>5
<1>4. ASSUME NEW e \in cancelled' \ late'
      PROVE  /\ id'[e] \in Indexes /\ timer'[e] \notin {"none", "born"}
             /\ id'[e] \notin shared' =>
                  /\ timer'[e] # "call" /\ <<e, e>> \notin ran'
                  /\ timer'[e] \in {"waiting", "expired"} => ed'[id'[e]].cancel
  <2>1. e \in cancelled \ late /\ (id[e] \notin shared' => id[e] \notin shared)
    BY <1>1, <1>4
  <2>2. id'[e] = id[e] /\ timer'[e] = timer[e]
    BY <1>2, <2>1
  <2>3. /\ id[e] \in Indexes /\ timer[e] \notin {"none", "born"}
        /\ id[e] \notin shared => timer[e] # "call" /\ <<e, e>> \notin ran
    BY <2>1 DEF CancelInv
  <2>4. id[e] \notin shared /\ timer[e] \in {"waiting", "expired"} => ed'[id[e]].cancel
    <3>1. HAVE id[e] \notin shared /\ timer[e] \in {"waiting", "expired"}
    <3>2. ed[id[e]].cancel
      BY <2>1, <3>1 DEF CancelInv
    <3> QED  BY <1>3, <2>1, <3>1, <3>2
  <2> QED  BY <1>1, <2>1, <2>2, <2>3, <2>4
<1> QED  BY <1>4 DEF CancelInv

\* A cancel preserves CancelInv: it finds the event's place by its id.
LEMMA CancelCancelInv ==
  ASSUME PlaceInv, RanInv, IndexInv, CancelInv, ~ undefined,
         NEW c \in Clients, NEW f \in Events, eventCancel(c, f)
  PROVE  CancelInv'
<1> USE IndexFacts DEF PlaceInv, TypeInv, TypeOK
<1> HIDE DEF Indexes
<1>1. UNCHANGED <<clientVars, timerVars, shared, late>> /\ id[f] \in Indexes
  BY DEF eventCancel
<1>2. \A p \in Indexes : ed'[p] = IF ed[p].e_id = id[f] THEN [ed[p] EXCEPT !.cancel = TRUE] ELSE ed[p]
  BY DEF eventCancel
<1>3. \A p \in Indexes : ed[p].cancel \/ ed[p].e_id = id[f] => ed'[p].cancel
  <2> TAKE p \in Indexes
  <2>1. ed[p] \in Place
    OBVIOUS
  <2>2. [ed[p] EXCEPT !.cancel = TRUE].cancel
    BY <2>1, Zenon DEF Place
  <2> QED  BY <1>2, <2>2
<1>4. \A e \in cancelled' : e \in cancelled \/ (e = f /\ timer[f] \in {"born", "waiting", "expired"})
  BY DEF eventCancel, NoteCancel
<1>5. ASSUME f \notin late, timer[f] \in {"born", "waiting", "expired"}
      PROVE  /\ timer[f] # "born" /\ <<f, f>> \notin ran
             /\ id[f] \notin shared => ed'[id[f]].cancel
  <2>1. timer[f] # "born"
    BY <1>1, <1>5, EventFacts DEF EventInv, ClientInv
  <2>2. <<f, f>> \notin ran
    <3>1. timer[f] # "done"
      BY <1>5
    <3> QED  BY <3>1 DEF RanInv
  <2>3. index[f] = id[f]
    BY <1>1, <1>5, <2>1 DEF IndexInv, Read
  <2>4. ed[id[f]].e_id # Unused
    BY <1>5, <2>1, <2>3 DEF TimerPlaces, Active, Marked
  <2>5. ed[id[f]].e_id = id[f]
    BY <1>1, <2>4 DEF IndexInv
  <2> QED  BY <1>1, <1>3, <2>1, <2>2, <2>5
<1>6. ASSUME NEW e \in cancelled' \ late'
      PROVE  /\ id'[e] \in Indexes /\ timer'[e] \notin {"none", "born"}
             /\ id'[e] \notin shared' =>
                  /\ timer'[e] # "call" /\ <<e, e>> \notin ran'
                  /\ timer'[e] \in {"waiting", "expired"} => ed'[id'[e]].cancel
  <2>1. CASE e \in cancelled
    BY <1>1, <1>3, <1>6, <2>1 DEF CancelInv, clientVars, timerVars
  <2>2. CASE e = f /\ timer[f] \in {"born", "waiting", "expired"}
    BY <1>1, <1>5, <1>6, <2>2 DEF clientVars, timerVars
  <2> QED  BY <1>4, <1>6, <2>1, <2>2
<1> QED  BY <1>6 DEF CancelInv

\* A step of an event's thread preserves CancelInv: it looks at the flag of
\* its own place.
LEMMA TimerCancelInv ==
  ASSUME PlaceInv, IndexInv, CancelInv, ~ undefined, NEW t \in Events, worker_thread(t)
  PROVE  CancelInv'
<1> USE IndexFacts DEF PlaceInv, TypeInv, TypeOK
<1> HIDE DEF Indexes
<1>1. UNCHANGED <<ed, clientVars, historyVars>>
  BY DEF worker_thread, ReadIndex, Select, LookAtCancel, CallFunction
<1>2. \A e \in Events \ {t} : timer'[e] = timer[e] /\ (<<e, e>> \in ran' => <<e, e>> \in ran)
  BY DEF worker_thread, ReadIndex, Select, LookAtCancel, CallFunction
<1>3. ASSUME t \in cancelled \ late
      PROVE  /\ timer'[t] \notin {"none", "born"}
             /\ id[t] \notin shared =>
                  /\ timer'[t] # "call" /\ <<t, t>> \notin ran'
                  /\ timer'[t] \in {"waiting", "expired"} => ed[id[t]].cancel
  <2>1. /\ id[t] \in Indexes /\ timer[t] \notin {"none", "born"}
        /\ id[t] \notin shared =>
             /\ timer[t] # "call" /\ <<t, t>> \notin ran
             /\ timer[t] \in {"waiting", "expired"} => ed[id[t]].cancel
    BY <1>3 DEF CancelInv
  <2>2. CASE ReadIndex(t)
    BY <2>1, <2>2 DEF ReadIndex
  <2>3. CASE Select(t)
    BY <2>1, <2>3 DEF Select
  <2>4. CASE LookAtCancel(t)
    <3>1. index[t] = id[t]
      BY <1>3, <2>1, <2>4 DEF LookAtCancel, IndexInv, Read
    <3> QED  BY <2>1, <2>4, <3>1 DEF LookAtCancel
  <2>5. CASE CallFunction(t)
    BY <2>1, <2>5 DEF CallFunction
  <2> QED  BY <2>2, <2>3, <2>4, <2>5 DEF worker_thread
<1> QED  BY <1>1, <1>2, <1>3 DEF CancelInv, clientVars, historyVars

SafetyInv == PlaceInv /\ RanInv /\ IndexInv /\ CancelInv

\* SafetyInv is inductive.
LEMMA NextSafetyInv == SafetyInv /\ [Next]_vars => SafetyInv'
<1> SUFFICES ASSUME SafetyInv, [Next]_vars PROVE SafetyInv'
  OBVIOUS
<1>1. PlaceInv' /\ RanInv' /\ IndexInv'
  BY NextPlaceInv, NextRanInv, NextIndexInv DEF SafetyInv
<1>2. CASE UNCHANGED vars
  BY <1>1, <1>2 DEF vars, clientVars, timerVars, historyVars, SafetyInv, CancelInv
<1>3. CASE ~ undefined /\ Step
  BY <1>1, <1>3, ScheduleCancelInv, CancelCancelInv, TimerCancelInv DEF Step, SafetyInv
<1> QED  BY <1>2, <1>3 DEF Next, Ended, Finished

\* SafetyInv holds at the start.
LEMMA InitSafetyInv == Init => SafetyInv
<1> SUFFICES ASSUME Init PROVE SafetyInv
  OBVIOUS
<1>1. \A p \in Indexes : ed[p].e_id = Unused
  BY DEF Init
<1>2. /\ \A c \in Clients : cstate[c] = "next"
      /\ \A e \in Events : id[e] = Unused
      /\ ran = {} /\ cancelled = {}
  BY DEF Init
<1> QED  BY <1>1, <1>2, InitPlaceInv, IndexFacts DEF SafetyInv, RanInv, IndexInv, CancelInv

\* A cancelled event does not run: whoever cancels an event before its thread
\* looks is obeyed, unless that thread read its index too late or two clients
\* took the event's place at once.
THEOREM CancelCorrect == Spec => []CancelHonoured
<1>1. SafetyInv => CancelHonoured
  BY DEF SafetyInv, CancelInv, CancelHonoured
<1> QED  BY <1>1, InitSafetyInv, NextSafetyInv, PTL DEF Spec

-----------------------------------------------------------------------------
(* Why the table is left only when it is too small: every marked place     *)
(* holds an event of its own, and a client that has found no unused place  *)
(* is scheduling one more.                                                 *)
Known   == {e \in Events : e[2] <= scheduled[e[1]]}
Past(c) == cstate[c] \in {"create", "sleep"} /\ m[c] = max_events

Distinct ==
  /\ \A p \in Indexes : ed[p].event # NoEvent => ed[p].event \in Known
  /\ \A p, q \in Indexes : ed[p].event = ed[q].event /\ ed[p].event # NoEvent => p = q
  /\ \A c \in Clients : cstate[c] \in {"search", "fill"} \/ Past(c) =>
       \A p \in Indexes : ed[p].event # Current(c)

Filled ==
  /\ \A p \in Indexes : Marked(p) => ed[p].event # NoEvent
  /\ \A c \in Clients : cstate[c] = "mark" => ed[m[c]].event # NoEvent

Searched ==
  /\ \A c \in Clients : cstate[c] = "search" => \A p \in Indexes : p < m[c] => Marked(p)
  /\ \A c \in Clients : Past(c) => \A p \in Indexes : Marked(p)

TooMany == Cardinality(Known) > max_events

FullInv == /\ Distinct /\ Filled /\ Searched /\ IsFiniteSet(Known)
           /\ undefined => late # {} \/ TooMany

\* A client that has found the table full is one event too many for it.
LEMMA PastTooMany ==
  ASSUME PlaceInv, FullInv, NEW c \in Clients, Past(c)
  PROVE  TooMany
<1> DEFINE holder == [p \in 0..max_events |-> IF p \in Indexes THEN ed[p].event ELSE Current(c)]
<1>1. Current(c) \in Known
  BY CurrentFacts DEF Past, PlaceInv, Known
<1>2. holder \in [0..max_events -> Known]
  BY <1>1 DEF FullInv, Distinct, Filled, Searched
<1>3. \A p, q \in 0..max_events : holder[p] = holder[q] => p = q
  <2>1. \A p \in Indexes : holder[p] = ed[p].event /\ ed[p].event # Current(c) /\ ed[p].event # NoEvent
    BY IndexFacts DEF FullInv, Distinct, Filled, Searched
  <2>2. \A p \in 0..max_events : p \in Indexes \/ (p = max_events /\ holder[p] = Current(c))
    BY IndexFacts
  <2> HIDE DEF holder
  <2> QED  BY <2>1, <2>2 DEF FullInv, Distinct
<1>4. IsFiniteSet(0..max_events) /\ Cardinality(0..max_events) = max_events + 1
  BY FS_Interval, IndexFacts
<1>5. IsFiniteSet(Known) /\ Cardinality(Known) \in Nat
  BY FS_CardinalityType DEF FullInv
<1> HIDE DEF holder
<1>6. ~ (Cardinality(Known) < Cardinality(0..max_events))
  BY <1>2, <1>3, <1>4, <1>5, FS_PigeonHole
<1> QED  BY <1>4, <1>5, <1>6, IndexFacts DEF TooMany

\* A call makes one more event known; nothing is in the table of it yet.
LEMMA CallFullInv ==
  ASSUME PlaceInv, FullInv, ~ undefined, NEW c \in Clients, Call(c)
  PROVE  FullInv'
<1> USE IndexFacts DEF PlaceInv, TypeInv, TypeOK
<1> HIDE DEF Indexes
<1>1. /\ UNCHANGED <<ed, undefined, late>>
      /\ cstate' = [cstate EXCEPT ![c] = "search"] /\ m' = [m EXCEPT ![c] = 0]
      /\ scheduled' = [scheduled EXCEPT ![c] = @ + 1]
  BY DEF Call, Goto, historyVars
<1>2. /\ Current(c)' \in Events /\ Current(c)' \notin Known
      /\ \A d \in Clients \ {c} : Current(d)' = Current(d)
  <2>1. scheduled[c] \in Nat /\ N[c] \in Nat /\ scheduled[c] < N[c]
    BY CurrentFacts DEF Call
  <2>2. scheduled[c] + 1 \in 1..N[c]
    BY <2>1
  <2> QED  BY <1>1, <2>1, <2>2, EventFacts DEF Current, Known
<1>3. Known' = Known \cup {Current(c)'}
  BY <1>1, <1>2, EventFacts DEF Known, Current
<1>4. Distinct'
  <2>1. \A p \in Indexes : ed[p].event # NoEvent => ed[p].event \in Known /\ ed[p].event # Current(c)'
    BY <1>2 DEF FullInv, Distinct
  <2>2. Current(c)' # NoEvent
    BY <1>2, EventFacts
  <2>3. \A d \in Clients : cstate'[d] \in {"search", "fill"} \/ Past(d)'
          => d = c \/ cstate[d] \in {"search", "fill"} \/ Past(d)
    BY <1>1 DEF Past
  <2>4. \A d \in Clients : cstate'[d] \in {"search", "fill"} \/ Past(d)'
          => \A p \in Indexes : ed[p].event # Current(d)'
    BY <1>2, <2>1, <2>2, <2>3 DEF FullInv, Distinct
  <2> QED  BY <1>1, <1>3, <2>1, <2>4 DEF FullInv, Distinct
<1>5. Filled' /\ Searched'
  BY <1>1 DEF FullInv, Filled, Searched, Past, Marked
<1>6. IsFiniteSet(Known)'
  BY <1>3, FS_AddElement DEF FullInv
<1> QED  BY <1>1, <1>4, <1>5, <1>6 DEF FullInv

\* The steps of eventSchedule preserve FullInv.
LEMMA ScheduleFullInv ==
  ASSUME PlaceInv, FullInv, ~ undefined, NEW c \in Clients, eventSchedule(c)
  PROVE  FullInv'
<1> USE IndexFacts DEF PlaceInv, TypeInv, TypeOK
<1> HIDE DEF Indexes
<1>1. scheduled' = scheduled /\ SameCurrent /\ Known' = Known
  BY DEF eventSchedule, InUse, FoundUnused, NoneUnused, Fill, Mark, ClearCancel, CreateTimer,
     CreateFails, Return, Current, SameCurrent, Known
<1>2. /\ \A d \in Clients \ {c} : Current(d) # Current(c)
      /\ Current(c) \in Known /\ Current(c) # NoEvent
  <2>1. cstate[c] # "next"
    BY DEF eventSchedule, InUse, FoundUnused, NoneUnused, Fill, Mark, ClearCancel, CreateTimer,
       CreateFails, Return, Goto
  <2> QED  BY <2>1, CurrentFacts, EventFacts DEF Known
<1>3. ASSUME Distinct', Filled', Searched', undefined' => late' # {} \/ TooMany PROVE FullInv'
  BY <1>1, <1>3 DEF FullInv, TooMany
<1>4. CASE InUse(c) \/ FoundUnused(c) \/ NoneUnused(c)
  <2>1. UNCHANGED <<ed, undefined>>
    BY <1>4 DEF InUse, FoundUnused, NoneUnused
  <2>2. Distinct'
    BY <1>1, <1>4, <2>1 DEF FullInv, Distinct, InUse, FoundUnused, NoneUnused, Goto, Past, SameCurrent
  <2>3. Filled'
    BY <1>4, <2>1 DEF FullInv, Filled, InUse, FoundUnused, NoneUnused, Goto, Marked
  <2>4. Searched'
    <3>1. \A p \in Indexes : Marked(p)' = Marked(p)
      BY <2>1 DEF Marked
    <3>2. CASE InUse(c)
      BY <1>4, <3>1, <3>2 DEF FullInv, Searched, InUse, Goto, Past, Marked
    <3>3. CASE FoundUnused(c)
      BY <1>4, <3>1, <3>3 DEF FullInv, Searched, FoundUnused, Goto, Past
    <3>4. CASE NoneUnused(c)
      <4>1. \A p \in Indexes : p < max_events
        BY MaxEventsAssumption DEF Indexes
      <4> QED  BY <3>1, <3>4, <4>1 DEF FullInv, Searched, NoneUnused, Goto, Past
    <3> QED  BY <1>4, <3>2, <3>3, <3>4
  <2> QED  BY <1>3, <2>1, <2>2, <2>3, <2>4
<1>5. CASE Fill(c)
  <2>1. m[c] \in Indexes /\ cstate[c] = "fill" /\ cstate' = [cstate EXCEPT ![c] = "mark"]
        /\ UNCHANGED <<m, undefined>>
    BY <1>5 DEF Fill, Goto, ClientInv
  <2>2. \A p \in Indexes : /\ ed'[p].e_id = ed[p].e_id
                           /\ ed'[p].event = IF p = m[c] THEN Current(c) ELSE ed[p].event
    BY <1>5, <2>1 DEF Fill, Place
  <2>3. Distinct'
    BY <1>1, <1>2, <2>1, <2>2 DEF FullInv, Distinct, Past, SameCurrent
  <2>4. Filled'
    BY <1>2, <2>1, <2>2 DEF FullInv, Filled, Marked, ClientInv
  <2>5. Searched'
    BY <2>1, <2>2 DEF FullInv, Searched, Marked, Past
  <2> QED  BY <1>3, <2>1, <2>3, <2>4, <2>5
<1>6. CASE Mark(c) \/ ClearCancel(c)
  <2>1. /\ m[c] \in Indexes /\ UNCHANGED <<m, undefined>>
        /\ \E to \in {"clear", "create"} : cstate' = [cstate EXCEPT ![c] = to]
    BY <1>6 DEF Mark, ClearCancel, Goto, ClientInv
  <2>2. \A p \in Indexes : /\ ed'[p].event = ed[p].event
                           /\ Marked(p) => Marked(p)'
                           /\ Marked(p)' => Marked(p) \/ (p = m[c] /\ cstate[c] = "mark")
    BY <1>6, <2>1 DEF Mark, ClearCancel, Goto, Place, Marked
  <2>3. Distinct'
    BY <1>1, <2>1, <2>2 DEF FullInv, Distinct, Past, SameCurrent
  <2>4. Filled'
    BY <2>1, <2>2 DEF FullInv, Filled, ClientInv
  <2>5. Searched'
    BY <2>1, <2>2 DEF FullInv, Searched, Past
  <2> QED  BY <1>3, <2>1, <2>3, <2>4, <2>5
<1>7. CASE CreateTimer(c) \/ CreateFails(c)
  <2>1. /\ UNCHANGED <<ed, m>> /\ cstate[c] = "create" /\ cstate' = [cstate EXCEPT ![c] = "sleep"]
    BY <1>7 DEF CreateTimer, CreateFails, Goto
  <2>2. m[c] = Places => Past(c)
    BY <2>1 DEF Past
  <2>3. m[c] = Places => TooMany
    BY <2>2, PastTooMany
  <2>4. undefined' => TooMany
    BY <1>7, <2>3, Zenon DEF CreateTimer, CreateFails
  <2>5. Distinct'
    BY <1>1, <2>1 DEF FullInv, Distinct, Past, SameCurrent
  <2>6. Filled' /\ Searched'
    BY <2>1 DEF FullInv, Filled, Searched, Past, Marked
  <2> QED  BY <1>3, <2>4, <2>5, <2>6
<1>8. CASE Return(c)
  <2>1. UNCHANGED <<ed, m, undefined>> /\ cstate' = [cstate EXCEPT ![c] = "next"]
    BY <1>8 DEF Return, Goto
  <2>2. Distinct'
    BY <1>1, <2>1 DEF FullInv, Distinct, Past, SameCurrent
  <2>3. Filled' /\ Searched'
    BY <2>1 DEF FullInv, Filled, Searched, Past, Marked
  <2> QED  BY <1>3, <2>1, <2>2, <2>3
<1> QED  BY <1>4, <1>5, <1>6, <1>7, <1>8 DEF eventSchedule

\* The steps of an event's thread preserve FullInv: one that has read its
\* index in time leaves the table only behind a client that has.
LEMMA TimerFullInv ==
  ASSUME PlaceInv, FullInv, ~ undefined, NEW t \in Events, worker_thread(t)
  PROVE  FullInv'
<1>1. UNCHANGED <<ed, clientVars, historyVars>>
  BY DEF worker_thread, ReadIndex, Select, LookAtCancel, CallFunction
<1>2. Distinct' /\ Filled' /\ Searched' /\ IsFiniteSet(Known)' /\ Known' = Known
  BY <1>1 DEF FullInv, Distinct, Filled, Searched, Known, Marked, Past, Current, clientVars
<1>3. undefined' => t \in late \/ TooMany
  <2>1. CASE ReadIndex(t)
    <3>1. PICK n \in 0..max_events : (t \notin late => n = m[t[1]]) /\ undefined' = (n = max_events)
      BY <2>1, Zenon DEF ReadIndex
    <3>2. t \notin late => t[1] \in Clients /\ cstate[t[1]] = "sleep"
      BY <2>1, EventFacts DEF ReadIndex, EventInv, PlaceInv, TypeInv
    <3>3. t \notin late /\ n = max_events => Past(t[1])
      BY <3>1, <3>2 DEF Past
    <3>4. t \notin late /\ n = max_events => TooMany
      BY <3>2, <3>3, PastTooMany
    <3> QED  BY <3>1, <3>4, Zenon
  <2>2. CASE Select(t) \/ LookAtCancel(t)
    BY <2>2 DEF Select, LookAtCancel
  <2>3. CASE CallFunction(t)
    <3>1. t \notin late => ed[index[t]].event # NoEvent
      BY <2>3 DEF CallFunction, PlaceInv, TypeInv, TimerPlaces, EventInv, Active, FullInv, Filled
    <3>2. undefined' = (ed[index[t]].event = NoEvent)
      BY <2>3, Zenon DEF CallFunction
    <3> QED  BY <3>1, <3>2, Zenon
  <2> QED  BY <2>1, <2>2, <2>3 DEF worker_thread
<1>4. TooMany' = TooMany /\ late' = late
  BY <1>1, <1>2 DEF TooMany, historyVars
<1> QED  BY <1>2, <1>3, <1>4 DEF FullInv

OwnInv == PlaceInv /\ RanInv /\ FullInv

\* OwnInv holds at the start.
LEMMA InitOwnInv == Init => OwnInv
<1> SUFFICES ASSUME Init PROVE OwnInv
  OBVIOUS
<1>1. /\ \A c \in Clients : cstate[c] = "next" /\ scheduled[c] = 0
      /\ \A p \in Indexes : ed[p].event = NoEvent /\ ed[p].e_id = Unused
      /\ ran = {} /\ undefined = FALSE
  BY DEF Init
<1>2. Known = {}
  BY <1>1, EventFacts, NAssumption DEF Known
<1> QED  BY <1>1, <1>2, InitPlaceInv, FS_EmptySet
     DEF OwnInv, RanInv, FullInv, Distinct, Filled, Searched, Past, Marked

\* OwnInv is inductive.
LEMMA NextOwnInv == OwnInv /\ [Next]_vars => OwnInv'
<1> SUFFICES ASSUME OwnInv, [Next]_vars PROVE OwnInv'
  OBVIOUS
<1>1. PlaceInv' /\ RanInv'
  BY NextPlaceInv, NextRanInv DEF OwnInv
<1>2. ASSUME UNCHANGED <<ed, clientVars, undefined, late>> PROVE FullInv'
  BY <1>2 DEF OwnInv, FullInv, Distinct, Filled, Searched, TooMany, Known, Marked, Past, Current, clientVars
<1>3. CASE UNCHANGED vars
  BY <1>1, <1>2, <1>3 DEF vars, historyVars, OwnInv
<1>4. ASSUME ~ undefined, NEW c \in Clients, NEW e \in Events, eventCancel(c, e) PROVE FullInv'
  <2>1. \A p \in Indexes : ed'[p].event = ed[p].event /\ ed'[p].e_id = ed[p].e_id
    BY <1>4 DEF eventCancel, OwnInv, PlaceInv, TypeInv, TypeOK, Place
  <2>2. UNCHANGED <<clientVars, undefined, late>> /\ Known' = Known
    BY <1>4 DEF eventCancel, clientVars, Known
  <2>3. Distinct'
    BY <2>1, <2>2 DEF OwnInv, FullInv, Distinct, Past, Current, clientVars
  <2>4. Filled' /\ Searched'
    BY <2>1, <2>2 DEF OwnInv, FullInv, Filled, Searched, Marked, Past, clientVars, PlaceInv, TypeInv, ClientInv
  <2> QED  BY <2>2, <2>3, <2>4 DEF OwnInv, FullInv, TooMany
<1>5. CASE ~ undefined /\ Step
  BY <1>1, <1>4, <1>5, CallFullInv, ScheduleFullInv, TimerFullInv DEF Step, OwnInv
<1> QED  BY <1>3, <1>5 DEF Next, Ended, Finished

\* A thread calls the function of its own event, unless it read its index too
\* late or two clients took one place; and the table is left only when more
\* events are scheduled than it has places, or through an index read too late.
THEOREM RunsOwnCorrect == Spec => []RunsOwn
<1>1. OwnInv => RunsOwn
  BY DEF OwnInv, RanInv, FullInv, TooMany, Known, RunsOwn
<1> QED  BY <1>1, InitOwnInv, NextOwnInv, PTL DEF Spec
=============================================================================
