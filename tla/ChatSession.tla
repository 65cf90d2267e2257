----------------------------- MODULE ChatSession -----------------------------
(***************************************************************************)
(* The chat service: the coordinator, client_coord.c, keeps a table of     *)
(* session names, and clients, client.c, ask it over datagrams to start or *)
(* join a session.  To start one a client sends the name, is told whether  *)
(* the name is free ("1") or taken ("0"), answers "1" to a free one and is *)
(* sent the name back.  In every other case the client answers nothing.    *)
(*                                                                         *)
(* The coordinator does not look at who sends: after each reply it takes   *)
(* the next datagram, whosever it is, for the answer.  Nobody has a        *)
(* timeout.  A string is itself here; "null" marks an empty row.           *)
(***************************************************************************)
EXTENDS Naturals, Sequences

CONSTANTS Clients,
          Names,        \* the session names users type, all shorter than 8
          MaxRequests,  \* requests of a client (bound)
          MaxLost,      \* datagrams that are lost (bound)
          Rows,         \* the numbers of the rows of the table: 0..49 in the program
          Sessions,     \* the table main fills in
          NoOne, NoRow  \* no client, no row

Empty == "null"

ASSUME NamesAssumption    == Names \subseteq STRING
ASSUME RowsAssumption     == Rows \subseteq Nat
ASSUME SessionsAssumption == Sessions \in [Rows -> STRING]
ASSUME EmptyRowAssumption == \E r \in Rows : Sessions[r] = Empty
ASSUME DistinctAssumption == \A q, r \in Rows : Sessions[q] = Sessions[r] => q = r \/ Sessions[r] = Empty
ASSUME NoneAssumption     == NoOne \notin Clients /\ NoRow \notin Rows
ASSUME BoundsAssumption   == MaxRequests \in Nat /\ MaxLost \in Nat

VARIABLES session_table,  \* session_table[r]: the name in row r, or Empty
          flag_empty_row, \* the row added to last; not set at first
          cc,             \* what the coordinator waits for: "name" or "answer"
          s_name,         \* the name it was sent last,
          owner,          \*   and the client that sent it
          inbox,          \* datagrams in the coordinator's socket
          client,         \* client[c]: what c waits for and has asked
          replies,        \* replies[c]: datagrams in c's socket
          connected,      \* history: client and session of each "You are connected"
          ignored,        \* history: clients with a datagram nobody answers
          crossed,        \* history: names whose dialogue a datagram of another
                          \* ended, or whose datagram ended another's
          overwritten,    \* history: names lost to a full table
          lost            \* history: how many datagrams were lost

ccVars == <<session_table, flag_empty_row, cc, s_name, owner, overwritten, crossed>>
clientVars == <<client, connected>>
vars == <<ccVars, inbox, clientVars, replies, ignored, lost>>

Init == /\ session_table = Sessions
        /\ flag_empty_row = NoRow
        /\ cc = "name" /\ s_name = Empty /\ owner = NoOne
        /\ inbox = << >>
        /\ client = [c \in Clients |-> [at |-> "menu", case |-> 0, s_name |-> Empty, asked |-> 0]]
        /\ replies = [c \in Clients |-> << >>]
        /\ connected = {} /\ ignored = {} /\ crossed = {} /\ overwritten = {} /\ lost = 0

SendToCC(c, data) == inbox' = Append(inbox, [from |-> c, data |-> data])

\* Mutation: nothing is sent to say that the name is taken.
SendToUnlessTaken(c, data) ==
  IF data = "0" THEN UNCHANGED replies ELSE replies' = [replies EXCEPT ![c] = Append(@, data)]

SendTo(c, data) == replies' = [replies EXCEPT ![c] = Append(@, data)]

-----------------------------------------------------------------------------
(* A client, in its menu.                                                  *)

\* The name the user typed is sent, and the client waits for its validity.
SendName(c, case, n) ==
  /\ client[c].at = "menu" /\ client[c].asked < MaxRequests
  /\ client' = [client EXCEPT ![c] = [at |-> "validity", case |-> case, s_name |-> n,
                                      asked |-> @.asked + 1]]
  /\ SendToCC(c, n)
  /\ UNCHANGED <<ccVars, connected, replies, ignored, lost>>

StartSession(c, n) == SendName(c, 1, n)
JoinSession(c, n)  == SendName(c, 2, n)

\* What recvfrom keeps of data: it is given the length of what was sent, which
\* is 1 for the names "0" and "1", and no name but these begins with a digit.
Kept(c, data) == IF client[c].s_name \in {"0", "1"} /\ data \notin {"0", "1"} THEN "?" ELSE data

\* The validity of a name to start a session with: a name that is free is
\* answered.
RecvStartValidity(c) ==
  LET got == Kept(c, Head(replies[c])) IN
  /\ client[c].at = "validity" /\ client[c].case = 1 /\ replies[c] # << >>
  /\ replies' = [replies EXCEPT ![c] = Tail(@)]
  /\ IF got = "1" THEN client' = [client EXCEPT ![c].at = "s_name"] /\ SendToCC(c, "1")
                  ELSE client' = [client EXCEPT ![c].at = "menu"] /\ UNCHANGED inbox
  /\ UNCHANGED <<ccVars, connected, ignored, lost>>

\* That of a name to join is told to the user, and never answered.
RecvJoinValidity(c) ==
  /\ client[c].at = "validity" /\ client[c].case = 2 /\ replies[c] # << >>
  /\ replies' = [replies EXCEPT ![c] = Tail(@)]
  /\ client' = [client EXCEPT ![c].at = "menu"]
  /\ UNCHANGED <<ccVars, inbox, connected, ignored, lost>>

\* Mutation: the client takes what it is sent for the session's name.
RecvSNameKept(c) ==
  /\ client[c].at = "s_name" /\ replies[c] # << >>
  /\ replies' = [replies EXCEPT ![c] = Tail(@)]
  /\ client' = [client EXCEPT ![c].at = "menu"]
  /\ connected' = connected \cup {<<c, Kept(c, Head(replies[c]))>>}
  /\ UNCHANGED <<ccVars, inbox, ignored, lost>>

\* "You are connected to the session", whatever arrives: one byte is kept.
RecvSName(c) ==
  /\ client[c].at = "s_name" /\ replies[c] # << >>
  /\ replies' = [replies EXCEPT ![c] = Tail(@)]
  /\ client' = [client EXCEPT ![c].at = "menu"]
  /\ connected' = connected \cup {<<c, client[c].s_name>>}
  /\ UNCHANGED <<ccVars, inbox, ignored, lost>>

\* Case 3, or no wish to continue.
Exit(c) ==
  /\ client[c].at = "menu"
  /\ client' = [client EXCEPT ![c].at = "exited"]
  /\ UNCHANGED <<ccVars, inbox, connected, replies, ignored, lost>>

-----------------------------------------------------------------------------
(* The coordinator's loop.                                                 *)

\* Mutation: the search starts at the second row.
ListedButFirst(n) == \E q, r \in Rows : q < r /\ session_table[r] = n

Listed(n) == \E r \in Rows : session_table[r] = n

\* Receive a session name and say whether it is free.
RecvSession ==
  LET d == Head(inbox) IN
  /\ cc = "name" /\ inbox # << >>
  /\ inbox' = Tail(inbox)
  /\ s_name' = d.data /\ owner' = d.from
  /\ SendTo(d.from, IF Listed(d.data) THEN "0" ELSE "1")
  /\ cc' = "answer"
  /\ UNCHANGED <<session_table, flag_empty_row, overwritten, crossed, clientVars, ignored, lost>>

\* The next datagram is the answer the dialogue about s_name waits for.
Answers(d) == /\ d.from = owner
              /\ client[owner].at = "s_name" /\ client[owner].s_name = s_name

\* What is no answer crosses the dialogues about these names.
Cross(d, names) == crossed' = IF Answers(d) THEN crossed ELSE crossed \cup names

EmptyRows == {r \in Rows : session_table[r] = Empty}

\* Mutation: the test of a row is inverted.
RowNotEmpty == CHOOSE r \in Rows : session_table[r] # Empty

\* The first empty row, or with none the row added to last.
RowToFill == IF EmptyRows # {} THEN CHOOSE r \in EmptyRows : \A q \in EmptyRows : r <= q
                               ELSE flag_empty_row

\* Mutation: the name is sent back to the client that asked for it.
SentBackToOwner(d) == owner

SentBackTo(d) == d.from

\* Answer "1", create, or "0", join: both add s_name to the table and send it
\* back to whoever sent the answer.
AddSession ==
  LET d == Head(inbox) IN
  /\ cc = "answer" /\ inbox # << >> /\ d.data \in {"0", "1"}
  /\ inbox' = Tail(inbox)
  /\ flag_empty_row' = RowToFill
  /\ session_table' = [session_table EXCEPT ![RowToFill] = s_name]
  /\ overwritten' = overwritten \cup ({session_table[RowToFill]} \ {Empty})
  /\ SendTo(SentBackTo(d), s_name)
  /\ Cross(d, {s_name, client[d.from].s_name})
  /\ cc' = "name"
  /\ UNCHANGED <<s_name, owner, clientVars, ignored, lost>>

\* Any other answer is an error message on the coordinator's terminal.
WrongAnswer ==
  LET d == Head(inbox) IN
  /\ cc = "answer" /\ inbox # << >> /\ d.data \notin {"0", "1"}
  /\ inbox' = Tail(inbox)
  /\ ignored' = ignored \cup {d.from}
  /\ Cross(d, {s_name})
  /\ cc' = "name"
  /\ UNCHANGED <<session_table, flag_empty_row, s_name, owner, overwritten, clientVars, replies, lost>>

Coordinator == RecvSession \/ AddSession \/ WrongAnswer

-----------------------------------------------------------------------------
\* A socket whose buffer is full drops a datagram.
Lose ==
  /\ lost < MaxLost
  /\ lost' = lost + 1
  /\ \/ /\ inbox # << >>
        /\ inbox' = Tail(inbox) /\ ignored' = ignored \cup {Head(inbox).from}
        /\ UNCHANGED replies
     \/ \E c \in Clients : /\ replies[c] # << >>
                           /\ replies' = [replies EXCEPT ![c] = Tail(@)]
                           /\ ignored' = ignored \cup {c}
                           /\ UNCHANGED inbox
  /\ UNCHANGED <<ccVars, clientVars>>

Client(c) == RecvStartValidity(c) \/ RecvJoinValidity(c) \/ RecvSName(c)

\* Every client is in its menu for good, has left, or waits for a datagram
\* nobody will send; the coordinator waits for the next.
Silent == /\ inbox = << >>
          /\ \A c \in Clients :
               /\ replies[c] = << >>
               /\ client[c].at = "menu" => client[c].asked = MaxRequests
          /\ UNCHANGED vars

Next == \/ \E c \in Clients : \/ \E n \in Names : StartSession(c, n) \/ JoinSession(c, n)
                              \/ Client(c) \/ Exit(c)
        \/ Coordinator
        \/ Lose
        \/ Silent

Spec == Init /\ [][Next]_vars

\* The processes run; users need not type and datagrams need not be lost.
FairSpec == Spec /\ WF_vars(Coordinator) /\ \A c \in Clients : WF_vars(Client(c))
-----------------------------------------------------------------------------
Strings == Names \cup {Empty, "0", "1"} \cup {Sessions[r] : r \in Rows}

TypeOK == /\ session_table \in [Rows -> Strings]
          /\ flag_empty_row \in Rows \cup {NoRow}
          /\ cc \in {"name", "answer"}
          /\ s_name \in Strings
          /\ owner \in Clients \cup {NoOne}
          /\ inbox \in Seq([from : Clients, data : Strings])
          /\ client \in [Clients -> [at : {"menu", "validity", "s_name", "exited"},
                                     case : 0..2, s_name : Strings, asked : 0..MaxRequests]]
          /\ replies \in [Clients -> Seq(Strings)]
          /\ connected \subseteq Clients \X Strings
          /\ ignored \subseteq Clients
          /\ crossed \subseteq Strings /\ overwritten \subseteq Strings
          /\ lost \in 0..MaxLost

\* Mutual patience: of each client at most one datagram is under way, to the
\* coordinator or back, and only while the client waits for one; a client whose
\* datagram was ignored has none and waits for ever.  So however the dialogues
\* cross, no client takes the reply to an earlier request for a later one's.
OneOutstanding ==
  \A c \in Clients :
    LET asked == {k \in DOMAIN inbox : inbox[k].from = c}
        waits == client[c].at \in {"validity", "s_name"}
    IN /\ Len(replies[c]) <= 1
       /\ \A j, k \in asked : j = k
       /\ asked # {} => replies[c] = << >>
       /\ waits <=> (asked # {} \/ replies[c] # << >> \/ c \in ignored)
       /\ c \in ignored => asked = {} /\ replies[c] = << >>

\* The table is right but for crossed dialogues.  A client told that it is
\* connected to a session finds it there, unless a datagram that was not its
\* answer ended the dialogue about that name, or the table was full and the name
\* has been overwritten; and no session is listed twice that is not crossed: a
\* dialogue answered by its own client never adds a name that is there.
TableUnlessCrossed ==
  /\ \A p \in connected : Listed(p[2]) \/ p[2] \in {Empty} \cup crossed \cup overwritten
  /\ \A q, r \in Rows : session_table[q] = session_table[r] /\ q # r =>
       session_table[q] \in {Empty} \cup crossed

\* A session leaves the table only when no row is empty.
SessionsKept == [][\A r \in Rows : session_table[r] \notin {Empty, session_table'[r]} => EmptyRows = {}]_vars

\* A client is left waiting for ever only if a datagram of its dialogue was lost
\* or taken for the answer of another.
EventuallyAnswered ==
  \A c \in Clients : client[c].at \in {"validity", "s_name"} ~>
     client[c].at \in {"menu", "exited"} \/ c \in ignored

\* What the client prints, "You are connected to the session", after "Recieve
\* s_name that has been newly created from CC": the session it names is in the
\* table.  The code breaks it.
ConnectedToListed == \A p \in connected : Listed(p[2])
=============================================================================
