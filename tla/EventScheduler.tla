---------------------------- MODULE EventScheduler ----------------------------
(***************************************************************************)
(* The event scheduler of "Header Files/Eventscheduler/Eventscheduler.h":  *)
(* a table of events and a thread per event that sleeps in select, looks   *)
(* at the event's cancel flag and calls its function.  Nothing guards the  *)
(* table, and a thread learns which place of it is its own through a       *)
(* pointer to a local variable of the eventSchedule that created it.       *)
(*                                                                         *)
(* Time is left out: a timer may expire at any moment.  driver2.cc has one *)
(* client; nothing in the class keeps several from calling it.             *)
(***************************************************************************)
EXTENDS Naturals, FiniteSets

CONSTANTS Clients,      \* the threads that schedule and cancel
          N,            \* N[c]: events c schedules (bound)
          max_events,   \* the constructor's argument
          MaxLate       \* threads that take longer to start than the usleep of
                        \* eventSchedule that is to let them (bound)

Places == 10            \* length of the arrays ed and pth

ASSUME NAssumption         == N \in [Clients -> Nat]
ASSUME MaxEventsAssumption == max_events \in 0..Places
ASSUME MaxLateAssumption   == MaxLate \in Nat

Indexes == 0..(max_events - 1)
Events  == UNION {{c} \X (1..N[c]) : c \in Clients}  \* <<c, n>>: the n-th of c
NoEvent == << >>
Unused  == 111                  \* the e_id of an unused place

VARIABLES ed,         \* ed[m]: the event (function, argument, timeout), e_id, cancel
          scheduled,  \* scheduled[c]: how many events c has begun to schedule
          cstate,     \* cstate[c]: where c stands in eventSchedule
          m,          \* m[c]: the local variable m of c's eventSchedule
          id,         \* id[e]: what eventSchedule returned for e, or Unused
          timer,      \* timer[e]: where the thread created for e stands
          index,      \* index[e]: the index that thread has read
          ran,        \* pairs <<t, e>>: the thread of t has called e's function
          undefined,  \* an access past the table, or to a function never set
          cancelled,  \* history: events cancelled before their thread looked
          shared,     \* history: places two clients found unused at once
          late        \* history: threads whose creator returned before they read it

clientVars  == <<scheduled, cstate, m, id>>
timerVars   == <<timer, index, ran>>
historyVars == <<cancelled, shared, late>>
vars == <<ed, clientVars, timerVars, undefined, historyVars>>

Init == /\ ed = [n \in Indexes |-> [event |-> NoEvent, e_id |-> Unused, cancel |-> FALSE]]
        /\ scheduled = [c \in Clients |-> 0]
        /\ cstate = [c \in Clients |-> "next"]
        /\ m = [c \in Clients |-> 0]
        /\ id = [e \in Events |-> Unused]
        /\ timer = [e \in Events |-> "none"]
        /\ index = [e \in Events |-> 0]
        /\ ran = {}
        /\ undefined = FALSE
        /\ cancelled = {} /\ shared = {} /\ late = {}

Current(c) == <<c, scheduled[c]>>   \* the event c is scheduling

-----------------------------------------------------------------------------
(* eventSchedule.                                                          *)

\* c goes from one step of eventSchedule to another.
Goto(c, from, to) == /\ cstate[c] = from
                     /\ cstate' = [cstate EXCEPT ![c] = to]

Call(c) ==
  /\ scheduled[c] < N[c]
  /\ Goto(c, "next", "search")
  /\ scheduled' = [scheduled EXCEPT ![c] = @ + 1]
  /\ m' = [m EXCEPT ![c] = 0]
  /\ UNCHANGED <<ed, id, timerVars, undefined, historyVars>>

InUse(c) ==
  /\ m[c] \in Indexes /\ ed[m[c]].e_id # Unused
  /\ Goto(c, "search", "search")
  /\ m' = [m EXCEPT ![c] = @ + 1]
  /\ UNCHANGED <<ed, scheduled, id, timerVars, undefined, historyVars>>

FoundUnused(c) ==
  /\ m[c] \in Indexes /\ ed[m[c]].e_id = Unused
  /\ Goto(c, "search", "fill")
  /\ shared' = IF \E d \in Clients \ {c} : cstate[d] \in {"fill", "mark"} /\ m[d] = m[c]
                 THEN shared \cup {m[c]} ELSE shared
  /\ UNCHANGED <<ed, scheduled, m, id, timerVars, undefined, cancelled, late>>

\* The table is full.  The loop ends with m past it, and nobody looks at m.
NoneUnused(c) ==
  /\ m[c] = max_events
  /\ Goto(c, "search", "create")
  /\ UNCHANGED <<ed, scheduled, m, id, timerVars, undefined, historyVars>>

Fill(c) ==
  /\ Goto(c, "fill", "mark")
  /\ ed' = [ed EXCEPT ![m[c]].event = Current(c)]
  /\ UNCHANGED <<scheduled, m, id, timerVars, undefined, historyVars>>

\* Mutation: ids that count from one, while m is still what is returned.
MarkFromOne(c) ==
  /\ Goto(c, "mark", "clear")
  /\ ed' = [ed EXCEPT ![m[c]].e_id = m[c] + 1]
  /\ UNCHANGED <<scheduled, m, id, timerVars, undefined, historyVars>>

Mark(c) ==
  /\ Goto(c, "mark", "clear")
  /\ ed' = [ed EXCEPT ![m[c]].e_id = m[c]]
  /\ UNCHANGED <<scheduled, m, id, timerVars, undefined, historyVars>>

ClearCancel(c) ==
  /\ Goto(c, "clear", "create")
  /\ ed' = [ed EXCEPT ![m[c]].cancel = FALSE]
  /\ UNCHANGED <<scheduled, m, id, timerVars, undefined, historyVars>>

CreateTimer(c) ==
  /\ Goto(c, "create", "sleep")
  /\ timer' = [timer EXCEPT ![Current(c)] = "born"]
  /\ undefined' = (m[c] = Places)
  /\ UNCHANGED <<ed, scheduled, m, id, index, ran, historyVars>>

\* pthread_create fails with a positive number: the test for a negative one
\* misses it.
CreateFails(c) ==
  /\ Goto(c, "create", "sleep")
  /\ timer' = [timer EXCEPT ![Current(c)] = "failed"]
  /\ undefined' = (m[c] = Places)
  /\ UNCHANGED <<ed, scheduled, m, id, index, ran, historyVars>>

\* After usleep(1000), whether the new thread has read m or not.
Return(c) ==
  /\ Goto(c, "sleep", "next")
  /\ id' = [id EXCEPT ![Current(c)] = m[c]]
  /\ late' = IF timer[Current(c)] = "born" THEN late \cup {Current(c)} ELSE late
  /\ Cardinality(late') <= MaxLate
  /\ UNCHANGED <<ed, scheduled, m, timerVars, undefined, cancelled, shared>>

eventSchedule(c) == \/ InUse(c) \/ FoundUnused(c) \/ NoneUnused(c)
                    \/ Fill(c) \/ Mark(c) \/ ClearCancel(c)
                    \/ CreateTimer(c) \/ CreateFails(c) \/ Return(c)

-----------------------------------------------------------------------------
(* eventCancel, by any client, of an event whose id has been returned.     *)

\* The history of a cancel of e.
NoteCancel(e) == cancelled' = IF timer[e] \in {"born", "waiting", "expired"}
                                THEN cancelled \cup {e} ELSE cancelled

\* Mutation: the place is given back as well, with its timer still running.
CancelAndRecycle(c, e) ==
  /\ cstate[c] = "next" /\ id[e] \in Indexes /\ e \notin cancelled
  /\ ed' = [n \in Indexes |-> IF ed[n].e_id = id[e]
                                THEN [ed[n] EXCEPT !.cancel = TRUE, !.e_id = Unused] ELSE ed[n]]
  /\ NoteCancel(e)
  /\ UNCHANGED <<clientVars, timerVars, undefined, shared, late>>

\* e_id is the place's own index wherever it is set, so at most one place has it.
eventCancel(c, e) ==
  /\ cstate[c] = "next" /\ id[e] \in Indexes /\ e \notin cancelled
  /\ ed' = [n \in Indexes |-> IF ed[n].e_id = id[e]
                                THEN [ed[n] EXCEPT !.cancel = TRUE] ELSE ed[n]]
  /\ NoteCancel(e)
  /\ UNCHANGED <<clientVars, timerVars, undefined, shared, late>>

-----------------------------------------------------------------------------
(* The thread created for event t.                                         *)

\* It reads the caller's m, or, when the caller has returned and the variable
\* is gone, anything.  A place past the table is then dereferenced.
ReadIndex(t) ==
  /\ timer[t] = "born"
  /\ \E n \in 0..max_events :
       /\ t \notin late => n = m[t[1]]
       /\ index' = [index EXCEPT ![t] = n]
       /\ undefined' = (n = max_events)
  /\ timer' = [timer EXCEPT ![t] = "waiting"]
  /\ UNCHANGED <<ed, clientVars, ran, historyVars>>

\* select returns when the timeout has passed, or fails: the event is lost.
Select(t) ==
  /\ timer[t] = "waiting"
  /\ \E to \in {"expired", "failed"} : timer' = [timer EXCEPT ![t] = to]
  /\ UNCHANGED <<ed, clientVars, index, ran, undefined, historyVars>>

LookAtCancel(t) ==
  /\ timer[t] = "expired"
  /\ timer' = [timer EXCEPT ![t] = IF ed[index[t]].cancel THEN "done" ELSE "call"]
  /\ UNCHANGED <<ed, clientVars, index, ran, undefined, historyVars>>

CallFunction(t) ==
  LET e == ed[index[t]].event IN
  /\ timer[t] = "call"
  /\ ran' = IF e = NoEvent THEN ran ELSE ran \cup {<<t, e>>}
  /\ undefined' = (e = NoEvent)
  /\ timer' = [timer EXCEPT ![t] = "done"]
  /\ UNCHANGED <<ed, clientVars, index, historyVars>>

worker_thread(t) == ReadIndex(t) \/ Select(t) \/ LookAtCancel(t) \/ CallFunction(t)

-----------------------------------------------------------------------------
Step == \/ \E c \in Clients : Call(c) \/ eventSchedule(c) \/ \E e \in Events : eventCancel(c, e)
        \/ \E t \in Events : worker_thread(t)

\* Nothing is said of what follows an undefined access.
Ended == undefined /\ UNCHANGED vars

\* All events have been scheduled and every thread has ended.
Finished == /\ \A c \in Clients : cstate[c] = "next" /\ scheduled[c] = N[c]
            /\ \A t \in Events : timer[t] \in {"failed", "done"}
            /\ UNCHANGED vars

Next == (~ undefined /\ Step) \/ Ended \/ Finished

Spec == Init /\ [][Next]_vars

(* Threads that can run are eventually run, and select returns.            *)
Fairness == /\ \A c \in Clients : WF_vars(~ undefined /\ eventSchedule(c))
            /\ \A t \in Events : WF_vars(~ undefined /\ worker_thread(t))

FairSpec == Spec /\ Fairness

-----------------------------------------------------------------------------
Place == [event : Events \cup {NoEvent}, e_id : Indexes \cup {Unused}, cancel : BOOLEAN]

CStates == {"next", "search", "fill", "mark", "clear", "create", "sleep"}
TStates == {"none", "born", "waiting", "expired", "call", "done", "failed"}

TypeOK == /\ ed \in [Indexes -> Place]
          /\ scheduled \in [Clients -> Nat] /\ \A c \in Clients : scheduled[c] <= N[c]
          /\ cstate \in [Clients -> CStates]
          /\ m \in [Clients -> 0..max_events]
          /\ id \in [Events -> 0..max_events \cup {Unused}]
          /\ timer \in [Events -> TStates]
          /\ index \in [Events -> 0..max_events]
          /\ ran \subseteq Events \X Events
          /\ undefined \in BOOLEAN
          /\ cancelled \subseteq Events
          /\ shared \subseteq Indexes
          /\ late \subseteq Events

\* A thread calls the function of its own event, and so each function is called
\* once, unless the thread read its index too late or two clients took one
\* place: no later event, and no cancel, can come between a thread and its event.
\* And the table is left only when more events are scheduled than it has places,
\* or through an index read too late.
RunsOwn == /\ \A r \in ran : r[1] = r[2] \/ r[1] \in late \/ index[r[1]] \in shared
           /\ undefined =>
                \/ late # {}
                \/ Cardinality({e \in Events : e[2] <= scheduled[e[1]]}) > max_events

\* An event cancelled before its thread has looked at the flag is not run by
\* that thread, with the same two exceptions.
CancelHonoured ==
  \A e \in cancelled : <<e, e>> \in ran => e \in late \/ id[e] \in shared

\* Every event whose thread was created is run, unless somebody has cancelled
\* it or select failed, with the exceptions above.
EventuallyRun ==
  \A e \in Events :
    timer[e] = "born" ~>
      \/ <<e, e>> \in ran \/ e \in cancelled \/ timer[e] = "failed"
      \/ undefined \/ e \in late \/ index[e] \in shared
=============================================================================
