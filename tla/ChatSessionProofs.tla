-------------------------- MODULE ChatSessionProofs --------------------------
(***************************************************************************)
(* Theorems about ChatSession, for any clients, names and table, and any   *)
(* number of requests and losses.                                          *)
(***************************************************************************)
EXTENDS ChatSession, WellFoundedInduction, TLAPS

-----------------------------------------------------------------------------
(* Who has asked what of the coordinator.                                  *)
Asks(c)    == \E k \in DOMAIN inbox : inbox[k].from = c
Says(c, v) == \E k \in DOMAIN inbox : inbox[k].from = c /\ inbox[k].data = v
Unique     == \A j, k \in DOMAIN inbox : inbox[j].from = inbox[k].from => j = k

Datagrams == [from : Clients, data : Strings]
States    == [at : {"menu", "validity", "s_name", "exited"},
              case : 0..2, s_name : Strings, asked : 0..MaxRequests]

\* A datagram is sent to the coordinator by a client with none under way.
LEMMA SendFacts ==
  ASSUME NEW c \in Clients, NEW v \in Strings, inbox \in Seq(Datagrams), Unique, ~ Asks(c), SendToCC(c, v)
  PROVE  /\ inbox' \in Seq(Datagrams) /\ Unique'
         /\ \A e \in Clients : Asks(e)' <=> (Asks(e) \/ e = c)
         /\ \A e \in Clients : \A w : Says(e, w)' <=> (Says(e, w) \/ (e = c /\ w = v))
<1> DEFINE d == [from |-> c, data |-> v]
<1>1. d \in Datagrams /\ d.from = c /\ d.data = v
  BY DEF Datagrams
<1> HIDE DEF d
<1>2. inbox' = Append(inbox, d)
  BY DEF SendToCC, d
<1>3. /\ inbox' \in Seq(Datagrams) /\ Len(inbox') = Len(inbox) + 1
      /\ inbox'[Len(inbox) + 1] = d /\ \A k \in 1..Len(inbox) : inbox'[k] = inbox[k]
  BY <1>1, <1>2
<1>4. DOMAIN inbox = 1..Len(inbox) /\ DOMAIN inbox' = 1..(Len(inbox) + 1) /\ Len(inbox) \in Nat
  BY <1>3
<1>5. \A k \in 1..(Len(inbox) + 1) : k \in 1..Len(inbox) \/ k = Len(inbox) + 1
  BY <1>4
<1>6. Unique'
  BY <1>1, <1>3, <1>4, <1>5 DEF Unique, Asks
<1>7. \A e \in Clients : Asks(e)' <=> (Asks(e) \/ e = c)
  BY <1>1, <1>3, <1>4, <1>5 DEF Asks
<1>8. \A e \in Clients : \A w : Says(e, w)' <=> (Says(e, w) \/ (e = c /\ w = v))
  BY <1>1, <1>3, <1>4, <1>5 DEF Says
<1> QED  BY <1>3, <1>6, <1>7, <1>8

\* The coordinator, or the network, takes the first datagram.
LEMMA TakeFacts ==
  ASSUME inbox \in Seq(Datagrams), inbox # << >>, Unique, inbox' = Tail(inbox)
  PROVE  /\ inbox' \in Seq(Datagrams) /\ Unique'
         /\ Head(inbox).from \in Clients /\ Head(inbox).data \in Strings
         /\ Says(Head(inbox).from, Head(inbox).data) /\ Asks(Head(inbox).from)
         /\ \A e \in Clients : Asks(e)' <=> (Asks(e) /\ e # Head(inbox).from)
         /\ \A e \in Clients : \A w : Says(e, w)' <=> (Says(e, w) /\ e # Head(inbox).from)
<1>1. /\ inbox' \in Seq(Datagrams) /\ Len(inbox') = Len(inbox) - 1 /\ Head(inbox) = inbox[1]
      /\ Len(inbox) >= 1 /\ \A k \in 1..(Len(inbox) - 1) : inbox'[k] = inbox[k + 1]
  OBVIOUS
<1>2. DOMAIN inbox = 1..Len(inbox) /\ DOMAIN inbox' = 1..(Len(inbox) - 1) /\ Len(inbox) \in Nat
  BY <1>1
<1>3. /\ \A k \in 1..Len(inbox) : k = 1 \/ k - 1 \in 1..(Len(inbox) - 1)
      /\ \A k \in 1..(Len(inbox) - 1) : k + 1 \in 1..Len(inbox) /\ k + 1 # 1
      /\ 1 \in 1..Len(inbox) /\ \A k \in 1..Len(inbox) : k - 1 + 1 = k
      /\ \A j, k \in 1..(Len(inbox) - 1) : j + 1 = k + 1 => j = k
  BY <1>1, <1>2
<1>4. inbox[1] \in Datagrams
  BY <1>1, <1>2, <1>3
<1>5. Head(inbox).from \in Clients /\ Head(inbox).data \in Strings
  BY <1>1, <1>4 DEF Datagrams
<1>6. Unique'
  BY <1>1, <1>2, <1>3 DEF Unique
<1>7. \A k \in 1..(Len(inbox) - 1) : inbox'[k] = inbox[k + 1] /\ inbox[k + 1].from # inbox[1].from
  BY <1>1, <1>2, <1>3 DEF Unique
<1>8. \A k \in 1..Len(inbox) : inbox[k].from # inbox[1].from => inbox'[k - 1] = inbox[k]
  BY <1>1, <1>3
<1>9. \A e \in Clients : Asks(e)' <=> (Asks(e) /\ e # Head(inbox).from)
  <2>1. ASSUME NEW e \in Clients, Asks(e)' PROVE Asks(e) /\ e # Head(inbox).from
    BY <1>1, <1>2, <1>3, <1>7, <2>1 DEF Asks
  <2>2. ASSUME NEW e \in Clients, Asks(e), e # Head(inbox).from PROVE Asks(e)'
    <3>1. PICK k \in 1..Len(inbox) : inbox[k].from = e
      BY <1>2, <2>2 DEF Asks
    <3>2. k - 1 \in 1..(Len(inbox) - 1) /\ inbox'[k - 1] = inbox[k]
      BY <1>1, <1>3, <1>8, <2>2, <3>1
    <3> QED  BY <1>2, <3>1, <3>2 DEF Asks
  <2> QED  BY <2>1, <2>2
<1>10. \A e \in Clients : \A w : Says(e, w)' <=> (Says(e, w) /\ e # Head(inbox).from)
  <2>1. ASSUME NEW e \in Clients, NEW w, Says(e, w)' PROVE Says(e, w) /\ e # Head(inbox).from
    BY <1>1, <1>2, <1>3, <1>7, <2>1 DEF Says
  <2>2. ASSUME NEW e \in Clients, NEW w, Says(e, w), e # Head(inbox).from PROVE Says(e, w)'
    <3>1. PICK k \in 1..Len(inbox) : inbox[k].from = e /\ inbox[k].data = w
      BY <1>2, <2>2 DEF Says
    <3>2. k - 1 \in 1..(Len(inbox) - 1) /\ inbox'[k - 1] = inbox[k]
      BY <1>1, <1>3, <1>8, <2>2, <3>1
    <3> QED  BY <1>2, <3>1, <3>2 DEF Says
  <2> QED  BY <2>1, <2>2
<1>11. Says(Head(inbox).from, Head(inbox).data) /\ Asks(Head(inbox).from)
  BY <1>1, <1>2, <1>3 DEF Says, Asks
<1> QED  BY <1>1, <1>5, <1>6, <1>9, <1>10, <1>11

\* A client is sent a reply, or reads the only one it has.
LEMMA ReplyFacts ==
  /\ << >> \in Seq(Strings)
  /\ \A v \in Strings : /\ Append(<< >>, v) = <<v>> /\ <<v>> # << >> /\ <<v>> \in Seq(Strings)
                        /\ Head(<<v>>) = v /\ Tail(<<v>>) = << >>
  /\ {"0", "1", Empty} \cup Names \subseteq Strings
  BY DEF Strings

-----------------------------------------------------------------------------
(* The row a session is added to.                                          *)
RowInv == flag_empty_row = NoRow => EmptyRows # {}

\* A set of numbers has a least one.
LEMMA Least == ASSUME NEW S \in SUBSET Nat, S # {} PROVE \E m \in S : \A k \in S : m <= k
<1> DEFINE R == {ss \in Nat \X Nat : ss[1] < ss[2]}
<1>1. IsWellFoundedOn(R, Nat)
  BY NatLessThanWellFounded DEF OpToRel
<1>2. PICK m \in S : \A k \in S : ~ (<<k, m>> \in R)
  BY <1>1, WFMin
<1>3. ASSUME NEW k \in S PROVE m <= k
  <2>1. k \in Nat /\ m \in Nat
    OBVIOUS
  <2>2. k < m => <<k, m>> \in R
    BY <2>1
  <2> QED  BY <1>2, <2>1, <2>2
<1> QED  BY <1>3

\* It is a row of the table, and an empty one if there is one.
LEMMA RowFacts ==
  ASSUME TypeOK, RowInv
  PROVE  RowToFill \in Rows /\ RowToFill # NoRow /\ (EmptyRows # {} => RowToFill \in EmptyRows)
<1>1. CASE EmptyRows # {}
  <2>1. EmptyRows \in SUBSET Nat /\ EmptyRows \subseteq Rows
    BY RowsAssumption DEF EmptyRows
  <2>2. \E m \in EmptyRows : \A k \in EmptyRows : m <= k
    BY <1>1, <2>1, Least
  <2>3. RowToFill \in EmptyRows
    BY <1>1, <2>2 DEF RowToFill
  <2> QED  BY <2>1, <2>3, NoneAssumption
<1>2. CASE EmptyRows = {}
  BY <1>2, NoneAssumption DEF RowToFill, RowInv, TypeOK
<1> QED  BY <1>1, <1>2

-----------------------------------------------------------------------------
(* The inductive invariant.                                                *)
Waits(c) == client[c].at \in {"validity", "s_name"}

\* One datagram of c is under way while it waits, unless it is ignored.
OutAt(c) ==
  /\ replies[c] = << >> \/ \E v \in Strings : replies[c] = <<v>>
  /\ Asks(c) => replies[c] = << >>
  /\ Waits(c) <=> (Asks(c) \/ replies[c] # << >> \/ c \in ignored)
  /\ c \in ignored => ~ Asks(c) /\ replies[c] = << >>

\* What c has sent is the name it asks for, or "1".
SaysAt(c) == \A v : Says(c, v) => IF client[c].at = "validity" THEN v = client[c].s_name ELSE v = "1"

\* The coordinator's dialogue is c's.
Current(c) == cc = "answer" /\ owner = c /\ s_name = client[c].s_name

\* A name that may be told to be connected.
Fine(n) == Listed(n) \/ n \in {Empty} \cup crossed \cup overwritten

\* c is told, or knows, that its name is free.
ToldFree(c) == client[c].at = "validity" /\ replies[c] = <<"1">>

\* While a name told to be free is not answered, the dialogue is still about it
\* or was crossed; when it is answered it is in the table; and until then it is not.
DialogueAt(c) ==
  /\ ToldFree(c) \/ (client[c].at = "s_name" /\ Asks(c)) => Current(c) \/ client[c].s_name \in crossed
  /\ client[c].at = "s_name" /\ replies[c] # << >> => Fine(client[c].s_name)
  /\ (ToldFree(c) \/ client[c].at = "s_name") /\ Current(c) => ~ Listed(s_name) \/ s_name \in crossed

ClientInv == \A c \in Clients : OutAt(c) /\ SaysAt(c) /\ DialogueAt(c)

TableInv == /\ \A p \in connected : Fine(p[2])
            /\ \A q, r \in Rows : session_table[q] = session_table[r] /\ q # r =>
                 session_table[q] \in {Empty} \cup crossed

IInv == TypeOK /\ Unique /\ RowInv /\ ClientInv /\ TableInv

-----------------------------------------------------------------------------
(* The steps of a client.                                                  *)

\* What a step leaves alone of client e.
Alike(e) == /\ client'[e] = client[e] /\ replies'[e] = replies[e]
            /\ Asks(e)' <=> Asks(e)
            /\ \A v : Says(e, v)' <=> Says(e, v)
            /\ e \in ignored' <=> e \in ignored

\* A step of client c that keeps what is said of c keeps the invariant.
LEMMA ClientStep ==
  ASSUME NEW c \in Clients, IInv, UNCHANGED ccVars, TypeOK', Unique',
         \A e \in Clients \ {c} : Alike(e),
         OutAt(c)', SaysAt(c)', DialogueAt(c)', \A p \in connected' : Fine(p[2])
  PROVE  IInv'
<1>1. UNCHANGED <<session_table, flag_empty_row, cc, s_name, owner, overwritten, crossed>>
  BY DEF ccVars
<1>2. RowInv'
  BY <1>1 DEF IInv, RowInv, EmptyRows
<1>3. \A n : (Listed(n)' <=> Listed(n)) /\ (Fine(n)' <=> Fine(n))
  BY <1>1 DEF Listed, Fine
<1>4. TableInv'
  BY <1>1, <1>3 DEF IInv, TableInv
<1>5. ASSUME NEW e \in Clients \ {c} PROVE OutAt(e)' /\ SaysAt(e)' /\ DialogueAt(e)'
  <2>1. Alike(e) /\ OutAt(e) /\ SaysAt(e) /\ DialogueAt(e)
    BY DEF IInv, ClientInv
  <2>2. OutAt(e)'
    BY <2>1 DEF Alike, OutAt, Waits
  <2>3. SaysAt(e)'
    BY <2>1 DEF Alike, SaysAt
  <2>4. (Current(e)' <=> Current(e)) /\ (ToldFree(e)' <=> ToldFree(e))
    BY <1>1, <2>1 DEF Alike, Current, ToldFree
  <2>5. DialogueAt(e)'
    BY <1>1, <1>3, <2>1, <2>4 DEF Alike, DialogueAt
  <2> QED  BY <2>2, <2>3, <2>5
<1>6. ClientInv'
  BY <1>5 DEF ClientInv
<1> QED  BY <1>2, <1>4, <1>6 DEF IInv

\* The variables a step of a client leaves alone keep their type.
LEMMA ClientTypes ==
  ASSUME IInv, UNCHANGED <<ccVars, ignored, lost>>, inbox' \in Seq(Datagrams),
         client' \in [Clients -> States], replies' \in [Clients -> Seq(Strings)],
         connected' \subseteq Clients \X Strings
  PROVE  TypeOK'
  BY DEF IInv, TypeOK, ccVars, Datagrams, States

\* Starting or joining a session.
LEMMA SendNameInv ==
  ASSUME NEW c \in Clients, NEW case \in {1, 2}, NEW n \in Names, IInv, SendName(c, case, n)
  PROVE  IInv'
<1>1. /\ client[c].at = "menu" /\ client[c].asked < MaxRequests /\ SendToCC(c, n)
      /\ client' = [client EXCEPT ![c] = [at |-> "validity", case |-> case, s_name |-> n,
                                          asked |-> client[c].asked + 1]]
      /\ UNCHANGED <<ccVars, connected, replies, ignored, lost>>
  BY DEF SendName
<1>2. /\ inbox \in Seq(Datagrams) /\ client \in [Clients -> States] /\ n \in Strings
      /\ replies \in [Clients -> Seq(Strings)] /\ connected \subseteq Clients \X Strings /\ Unique
  BY ReplyFacts DEF IInv, TypeOK, Datagrams, States
<1>3. ~ Asks(c) /\ replies[c] = << >> /\ c \notin ignored /\ \A v : ~ Says(c, v)
  BY <1>1 DEF IInv, ClientInv, OutAt, Waits, Asks, Says
<1>4. /\ inbox' \in Seq(Datagrams) /\ Unique'
      /\ \A e \in Clients : Asks(e)' <=> (Asks(e) \/ e = c)
      /\ \A e \in Clients : \A w : Says(e, w)' <=> (Says(e, w) \/ (e = c /\ w = n))
  BY <1>1, <1>2, <1>3, SendFacts
<1>5. /\ client' \in [Clients -> States] /\ client'[c].at = "validity" /\ client'[c].s_name = n
      /\ \A e \in Clients \ {c} : client'[e] = client[e]
  <2>1. [at |-> "validity", case |-> case, s_name |-> n, asked |-> client[c].asked + 1] \in States
    BY <1>1, <1>2, BoundsAssumption DEF States
  <2> QED  BY <1>1, <1>2, <2>1
<1>6. TypeOK'
  BY <1>1, <1>2, <1>4, <1>5, ClientTypes
<1>7. \A e \in Clients \ {c} : Alike(e)
  BY <1>1, <1>4, <1>5 DEF Alike
<1>8. OutAt(c)' /\ SaysAt(c)'
  BY <1>1, <1>3, <1>4, <1>5 DEF OutAt, Waits, SaysAt
<1>9. DialogueAt(c)'
  BY <1>1, <1>3, <1>5 DEF DialogueAt, ToldFree
<1> QED  BY <1>1, <1>4, <1>6, <1>7, <1>8, <1>9, ClientStep DEF IInv, TableInv

\* What a client that waits with a reply knows, and how the reply is taken.
LEMMA ReadFacts ==
  ASSUME NEW c \in Clients, IInv, replies[c] # << >>, replies' = [replies EXCEPT ![c] = Tail(replies[c])]
  PROVE  /\ replies' \in [Clients -> Seq(Strings)] /\ replies'[c] = << >>
         /\ \A e \in Clients \ {c} : replies'[e] = replies[e]
         /\ Head(replies[c]) \in Strings /\ replies[c] = <<Head(replies[c])>>
         /\ ~ Asks(c) /\ c \notin ignored /\ \A v : ~ Says(c, v)
<1>1. replies \in [Clients -> Seq(Strings)]
  BY DEF IInv, TypeOK
<1>2. /\ replies[c] = << >> \/ \E v \in Strings : replies[c] = <<v>>
      /\ ~ Asks(c) /\ c \notin ignored
  BY DEF IInv, ClientInv, OutAt
<1>3. PICK v \in Strings : replies[c] = <<v>>
  BY <1>2
<1>4. Tail(replies[c]) = << >> /\ Head(replies[c]) = v
  BY <1>3, ReplyFacts
<1>5. replies' \in [Clients -> Seq(Strings)] /\ replies'[c] = << >>
      /\ \A e \in Clients \ {c} : replies'[e] = replies[e]
  BY <1>1, <1>4, ReplyFacts
<1>6. \A w : ~ Says(c, w)
  BY <1>2 DEF Asks, Says
<1> QED  BY <1>2, <1>3, <1>4, <1>5, <1>6

\* A client that only turns to another place keeps its type.
LEMMA GotoFacts ==
  ASSUME NEW c \in Clients, IInv, NEW to \in {"menu", "s_name", "exited"},
         client' = [client EXCEPT ![c].at = to]
  PROVE  /\ client' \in [Clients -> States]
         /\ client'[c].at = to /\ client'[c].s_name = client[c].s_name
         /\ \A e \in Clients \ {c} : client'[e] = client[e]
<1>1. client \in [Clients -> States]
  BY DEF IInv, TypeOK, States
<1>2. client[c] \in States /\ [client[c] EXCEPT !.at = to] \in States
  BY <1>1 DEF States
<1>3. client' = [client EXCEPT ![c] = [client[c] EXCEPT !.at = to]]
  BY <1>1
<1>4. client'[c] = [client[c] EXCEPT !.at = to] /\ \A e \in Clients \ {c} : client'[e] = client[e]
  BY <1>1, <1>3
<1>5. client'[c].at = to /\ client'[c].s_name = client[c].s_name
  BY <1>2, <1>4 DEF States
<1> QED  BY <1>1, <1>2, <1>3, <1>4, <1>5

\* The validity of a name to start a session with.
LEMMA RecvStartValidityInv == \A c \in Clients : IInv /\ RecvStartValidity(c) => IInv'
<1> SUFFICES ASSUME NEW c \in Clients, IInv, RecvStartValidity(c) PROVE IInv'
  OBVIOUS
<1> DEFINE got == Kept(c, Head(replies[c]))
<1>1. /\ client[c].at = "validity" /\ replies[c] # << >>
      /\ replies' = [replies EXCEPT ![c] = Tail(replies[c])]
      /\ IF got = "1" THEN client' = [client EXCEPT ![c].at = "s_name"] /\ SendToCC(c, "1")
                      ELSE client' = [client EXCEPT ![c].at = "menu"] /\ UNCHANGED inbox
      /\ UNCHANGED <<ccVars, connected, ignored, lost>>
  BY DEF RecvStartValidity
<1>2. /\ replies' \in [Clients -> Seq(Strings)] /\ replies'[c] = << >>
      /\ \A e \in Clients \ {c} : replies'[e] = replies[e]
      /\ Head(replies[c]) \in Strings /\ replies[c] = <<Head(replies[c])>>
      /\ ~ Asks(c) /\ c \notin ignored /\ \A v : ~ Says(c, v)
  BY <1>1, ReadFacts
<1>3. inbox \in Seq(Datagrams) /\ Unique /\ connected \subseteq Clients \X Strings
  BY DEF IInv, TypeOK, Datagrams
<1>4. DialogueAt(c) /\ UNCHANGED <<session_table, cc, owner, s_name, crossed, overwritten>>
  BY <1>1 DEF IInv, ClientInv, ccVars
<1>5. \A p \in connected' : Fine(p[2])
  BY <1>1 DEF IInv, TableInv
<1>6. CASE got = "1"
  <2>1. Head(replies[c]) = "1"
    BY <1>6 DEF Kept
  <2>2. ToldFree(c)
    BY <1>1, <1>2, <2>1 DEF ToldFree
  <2>3. /\ client' \in [Clients -> States] /\ client'[c].at = "s_name"
        /\ client'[c].s_name = client[c].s_name /\ \A e \in Clients \ {c} : client'[e] = client[e]
    BY <1>1, <1>6, GotoFacts
  <2>4. /\ inbox' \in Seq(Datagrams) /\ Unique'
        /\ \A e \in Clients : Asks(e)' <=> (Asks(e) \/ e = c)
        /\ \A e \in Clients : \A w : Says(e, w)' <=> (Says(e, w) \/ (e = c /\ w = "1"))
    BY <1>1, <1>2, <1>3, <1>6, SendFacts, ReplyFacts
  <2>5. TypeOK'
    BY <1>1, <1>2, <1>3, <2>3, <2>4, ClientTypes
  <2>6. \A e \in Clients \ {c} : Alike(e)
    BY <1>1, <1>2, <2>3, <2>4 DEF Alike
  <2>7. OutAt(c)' /\ SaysAt(c)'
    BY <1>1, <1>2, <2>3, <2>4 DEF OutAt, Waits, SaysAt
  <2>8. (Current(c)' <=> Current(c)) /\ \A n : Listed(n)' <=> Listed(n)
    BY <1>4, <2>3 DEF Current, Listed
  <2>9. DialogueAt(c)'
    BY <1>2, <1>4, <2>2, <2>3, <2>8 DEF DialogueAt, ToldFree
  <2> QED  BY <1>1, <1>5, <2>4, <2>5, <2>6, <2>7, <2>9, ClientStep
<1>7. CASE got # "1"
  <2>1. /\ client' \in [Clients -> States] /\ client'[c].at = "menu"
        /\ \A e \in Clients \ {c} : client'[e] = client[e] /\ inbox' = inbox
    BY <1>1, <1>7, GotoFacts
  <2>2. inbox' = inbox /\ Unique' /\ (Asks(c)' <=> Asks(c))
    BY <1>1, <1>3, <1>7 DEF Unique, Asks
  <2>3. TypeOK'
    BY <1>1, <1>2, <1>3, <2>1, <2>2, ClientTypes
  <2>4. \A e \in Clients \ {c} : Alike(e)
    BY <1>1, <1>2, <2>1, <2>2 DEF Alike, Asks, Says
  <2>5. OutAt(c)' /\ SaysAt(c)'
    BY <1>1, <1>2, <2>1, <2>2 DEF OutAt, Waits, SaysAt, Says
  <2>6. DialogueAt(c)'
    BY <2>1 DEF DialogueAt, ToldFree
  <2> QED  BY <1>1, <1>5, <2>2, <2>3, <2>4, <2>5, <2>6, ClientStep
<1> QED  BY <1>6, <1>7

\* A client that goes back to its menu, or leaves, from which nothing waits.
LEMMA SettleInv ==
  ASSUME NEW c \in Clients, NEW to \in {"menu", "exited"}, IInv,
         client' = [client EXCEPT ![c].at = to], UNCHANGED <<ccVars, inbox, ignored, lost>>,
         replies'[c] = << >>, replies' \in [Clients -> Seq(Strings)],
         \A e \in Clients \ {c} : replies'[e] = replies[e],
         ~ Asks(c), c \notin ignored,
         connected' \subseteq Clients \X Strings, \A p \in connected' : Fine(p[2])
  PROVE  IInv'
<1>1. /\ client' \in [Clients -> States] /\ client'[c].at = to
      /\ \A e \in Clients \ {c} : client'[e] = client[e]
  BY GotoFacts
<1>2. inbox' = inbox /\ Unique' /\ (Asks(c)' <=> Asks(c)) /\ inbox' \in Seq(Datagrams)
  BY DEF Unique, Asks, IInv, TypeOK, Datagrams
<1>3. TypeOK'
  BY <1>1, <1>2, ClientTypes
<1>4. \A e \in Clients \ {c} : Alike(e)
  BY <1>1, <1>2 DEF Alike, Asks, Says
<1>5. OutAt(c)' /\ SaysAt(c)'
  <2>1. \A v : ~ Says(c, v)'
    BY <1>2 DEF Asks, Says
  <2> QED  BY <1>1, <1>2, <2>1 DEF OutAt, Waits, SaysAt
<1>6. DialogueAt(c)'
  BY <1>1 DEF DialogueAt, ToldFree
<1> QED  BY <1>2, <1>3, <1>4, <1>5, <1>6, ClientStep

\* That of a name to join is told to the user, and never answered.
LEMMA RecvJoinValidityInv == \A c \in Clients : IInv /\ RecvJoinValidity(c) => IInv'
<1> SUFFICES ASSUME NEW c \in Clients, IInv, RecvJoinValidity(c) PROVE IInv'
  OBVIOUS
<1>1. /\ replies[c] # << >> /\ replies' = [replies EXCEPT ![c] = Tail(replies[c])]
      /\ client' = [client EXCEPT ![c].at = "menu"]
      /\ UNCHANGED <<ccVars, inbox, connected, ignored, lost>>
  BY DEF RecvJoinValidity
<1>2. /\ replies' \in [Clients -> Seq(Strings)] /\ replies'[c] = << >> /\ ~ Asks(c) /\ c \notin ignored
      /\ \A e \in Clients \ {c} : replies'[e] = replies[e]
  BY <1>1, ReadFacts
<1>3. connected' \subseteq Clients \X Strings /\ \A p \in connected' : Fine(p[2])
  BY <1>1 DEF IInv, TypeOK, TableInv
<1> QED  BY <1>1, <1>2, <1>3, SettleInv

\* "You are connected to the session".
LEMMA RecvSNameInv == \A c \in Clients : IInv /\ RecvSName(c) => IInv'
<1> SUFFICES ASSUME NEW c \in Clients, IInv, RecvSName(c) PROVE IInv'
  OBVIOUS
<1>1. /\ client[c].at = "s_name" /\ replies[c] # << >>
      /\ replies' = [replies EXCEPT ![c] = Tail(replies[c])]
      /\ client' = [client EXCEPT ![c].at = "menu"]
      /\ connected' = connected \cup {<<c, client[c].s_name>>}
      /\ UNCHANGED <<ccVars, inbox, ignored, lost>>
  BY DEF RecvSName
<1>2. /\ replies' \in [Clients -> Seq(Strings)] /\ replies'[c] = << >> /\ ~ Asks(c) /\ c \notin ignored
      /\ \A e \in Clients \ {c} : replies'[e] = replies[e]
  BY <1>1, ReadFacts
<1>3. client[c].s_name \in Strings /\ Fine(client[c].s_name)
  <2>1. client[c] \in States
    BY DEF IInv, TypeOK, States
  <2>2. DialogueAt(c)
    BY DEF IInv, ClientInv
  <2> QED  BY <1>1, <2>1, <2>2 DEF DialogueAt, States
<1>4. connected' \subseteq Clients \X Strings /\ \A p \in connected' : Fine(p[2])
  BY <1>1, <1>3 DEF IInv, TypeOK, TableInv
<1> QED  BY <1>1, <1>2, <1>4, SettleInv

\* A client leaves.
LEMMA ExitInv == \A c \in Clients : IInv /\ Exit(c) => IInv'
<1> SUFFICES ASSUME NEW c \in Clients, IInv, Exit(c) PROVE IInv'
  OBVIOUS
<1>1. /\ client[c].at = "menu" /\ client' = [client EXCEPT ![c].at = "exited"]
      /\ UNCHANGED <<ccVars, inbox, connected, replies, ignored, lost>>
  BY DEF Exit
<1>2. ~ Asks(c) /\ replies[c] = << >> /\ c \notin ignored
  BY <1>1 DEF IInv, ClientInv, OutAt, Waits
<1>3. /\ connected' \subseteq Clients \X Strings /\ \A p \in connected' : Fine(p[2])
      /\ replies' \in [Clients -> Seq(Strings)] /\ replies' = replies
  BY <1>1 DEF IInv, TypeOK, TableInv
<1> QED  BY <1>1, <1>2, <1>3, SettleInv

-----------------------------------------------------------------------------
(* The steps of the coordinator.                                           *)

\* The datagram it takes next, and what is then under way.
LEMMA HeadFacts ==
  ASSUME NEW c, IInv, inbox # << >>, inbox' = Tail(inbox), c = Head(inbox).from
  PROVE  /\ c \in Clients /\ Head(inbox).data \in Strings
         /\ Says(c, Head(inbox).data) /\ Asks(c) /\ ~ Asks(c)' /\ \A w : ~ Says(c, w)'
         /\ replies[c] = << >> /\ c \notin ignored /\ Waits(c)
         /\ inbox' \in Seq(Datagrams) /\ Unique'
         /\ \A e \in Clients \ {c} : (Asks(e)' <=> Asks(e)) /\ \A w : Says(e, w)' <=> Says(e, w)
<1>1. inbox \in Seq(Datagrams) /\ Unique
  BY DEF IInv, TypeOK, Datagrams
<1>2. /\ inbox' \in Seq(Datagrams) /\ Unique' /\ c \in Clients /\ Head(inbox).data \in Strings
      /\ Says(c, Head(inbox).data) /\ Asks(c)
      /\ \A e \in Clients : Asks(e)' <=> (Asks(e) /\ e # c)
      /\ \A e \in Clients : \A w : Says(e, w)' <=> (Says(e, w) /\ e # c)
  BY <1>1, TakeFacts
<1>3. replies[c] = << >> /\ c \notin ignored /\ Waits(c)
  BY <1>2 DEF IInv, ClientInv, OutAt
<1> QED  BY <1>2, <1>3

\* A reply to a client with none.
LEMMA SendToFacts ==
  ASSUME NEW c \in Clients, NEW v \in Strings, IInv, replies[c] = << >>, SendTo(c, v)
  PROVE  /\ replies' \in [Clients -> Seq(Strings)] /\ replies'[c] = <<v>> /\ replies'[c] # << >>
         /\ \A e \in Clients \ {c} : replies'[e] = replies[e]
<1>1. replies' = [replies EXCEPT ![c] = Append(replies[c], v)] /\ replies \in [Clients -> Seq(Strings)]
  BY DEF SendTo, IInv, TypeOK
<1>2. Append(replies[c], v) = <<v>> /\ <<v>> \in Seq(Strings) /\ <<v>> # << >>
  BY ReplyFacts
<1> QED  BY <1>1, <1>2

\* What is said of the clients other than c when c's datagram is taken and only
\* c is sent something.
LEMMA OthersOut ==
  ASSUME NEW c \in Clients, IInv, client' = client,
         \A e \in Clients \ {c} :
           /\ Asks(e)' <=> Asks(e)
           /\ \A w : Says(e, w)' <=> Says(e, w)
           /\ replies'[e] = replies[e] /\ (e \in ignored' <=> e \in ignored)
  PROVE  \A e \in Clients \ {c} : OutAt(e)' /\ SaysAt(e)'
<1> SUFFICES ASSUME NEW e \in Clients \ {c} PROVE OutAt(e)' /\ SaysAt(e)'
  OBVIOUS
<1>1. OutAt(e) /\ SaysAt(e)
  BY DEF IInv, ClientInv
<1>2. /\ client'[e] = client[e] /\ (Asks(e)' <=> Asks(e))
      /\ \A w : Says(e, w)' <=> Says(e, w)
      /\ replies'[e] = replies[e] /\ (e \in ignored' <=> e \in ignored)
  OBVIOUS
<1>3. OutAt(e)'
  BY <1>1, <1>2 DEF OutAt, Waits
<1>4. SaysAt(e)'
  BY <1>1, <1>2 DEF SaysAt
<1> QED  BY <1>3, <1>4

\* A session name is received and its validity sent.
LEMMA RecvSessionInv == IInv /\ RecvSession => IInv'
<1> SUFFICES ASSUME IInv, RecvSession PROVE IInv'
  OBVIOUS
<1>1. PICK c : c = Head(inbox).from
  OBVIOUS
<1>2. PICK v : v = IF Listed(Head(inbox).data) THEN "0" ELSE "1"
  OBVIOUS
<1>3. /\ cc = "name" /\ inbox # << >> /\ inbox' = Tail(inbox) /\ cc' = "answer"
      /\ s_name' = Head(inbox).data /\ owner' = c /\ SendTo(c, v)
      /\ UNCHANGED <<session_table, flag_empty_row, overwritten, crossed, client, connected, ignored, lost>>
  BY <1>1, <1>2 DEF RecvSession, clientVars
<1>4. /\ c \in Clients /\ Head(inbox).data \in Strings
      /\ Says(c, Head(inbox).data) /\ Asks(c) /\ ~ Asks(c)' /\ \A w : ~ Says(c, w)'
      /\ replies[c] = << >> /\ c \notin ignored /\ Waits(c)
      /\ inbox' \in Seq(Datagrams) /\ Unique'
      /\ \A e \in Clients \ {c} : (Asks(e)' <=> Asks(e)) /\ \A w : Says(e, w)' <=> Says(e, w)
  BY <1>1, <1>3, HeadFacts
<1>5. /\ replies' \in [Clients -> Seq(Strings)] /\ replies'[c] = <<v>> /\ replies'[c] # << >>
      /\ \A e \in Clients \ {c} : replies'[e] = replies[e]
  BY <1>2, <1>3, <1>4, SendToFacts, ReplyFacts
<1>6. TypeOK'
  BY <1>3, <1>4, <1>5 DEF IInv, TypeOK, Datagrams
<1>7. \A n : (Listed(n)' <=> Listed(n)) /\ (Fine(n)' <=> Fine(n))
  BY <1>3 DEF Listed, Fine
<1>8. RowInv' /\ TableInv'
  BY <1>3, <1>7 DEF IInv, RowInv, EmptyRows, TableInv
<1>9. OutAt(c)' /\ SaysAt(c)'
  BY <1>2, <1>3, <1>4, <1>5, ReplyFacts DEF OutAt, Waits, SaysAt
<1>10. DialogueAt(c)'
  <2>1. DialogueAt(c) /\ SaysAt(c)
    BY <1>4 DEF IInv, ClientInv
  <2>2. IF client[c].at = "validity" THEN s_name' = client[c].s_name ELSE s_name' = "1"
    BY <1>3, <1>4, <2>1 DEF SaysAt
  <2>3. client[c].at = "s_name" => client[c].s_name \in crossed
    BY <1>3, <1>4, <2>1 DEF DialogueAt, Current
  <2>4. ToldFree(c)' => Current(c)' /\ ~ Listed(s_name')
    BY <1>2, <1>3, <1>5, <2>2 DEF ToldFree, Current
  <2>5. ToldFree(c)' \/ (client[c].at = "s_name" /\ Asks(c))' => Current(c)' \/ client'[c].s_name \in crossed'
    BY <1>4, <2>4
  <2>6. client'[c].at = "s_name" => Fine(client[c].s_name)'
    BY <1>3, <2>3 DEF Fine
  <2>7. client'[c].at = "s_name" /\ Current(c)' => s_name' \in crossed'
    BY <1>3, <2>3 DEF Current
  <2>8. \A n : Listed(n)' <=> Listed(n)
    BY <1>7
  <2> QED  BY <1>3, <1>7, <2>4, <2>5, <2>6, <2>7 DEF DialogueAt, Listed
<1>11. ASSUME NEW e \in Clients \ {c} PROVE DialogueAt(e)'
  <2>1. DialogueAt(e)
    BY DEF IInv, ClientInv
  <2>2. ~ Current(e) /\ ~ Current(e)'
    BY <1>3 DEF Current
  <2>3. (ToldFree(e)' <=> ToldFree(e)) /\ (Asks(e)' <=> Asks(e)) /\ replies'[e] = replies[e]
    BY <1>3, <1>4, <1>5 DEF ToldFree
  <2> QED  BY <1>3, <1>7, <2>1, <2>2, <2>3 DEF DialogueAt
<1>12. ClientInv'
  <2>1. \A e \in Clients \ {c} : OutAt(e)' /\ SaysAt(e)'
    BY <1>3, <1>4, <1>5, OthersOut
  <2> QED  BY <1>9, <1>10, <1>11, <2>1 DEF ClientInv
<1> QED  BY <1>4, <1>6, <1>8, <1>12 DEF IInv

\* An answer that ends the dialogue, for the clients that did not send it.
LEMMA EndDialogue ==
  ASSUME NEW c \in Clients, NEW e \in Clients \ {c}, IInv, client' = client, cc' = "name",
         replies'[e] = replies[e], Asks(e)' <=> Asks(e),
         crossed \subseteq crossed', owner # c => s_name \in crossed',
         \A n : Fine(n) => Fine(n)'
  PROVE  DialogueAt(e)'
<1>1. DialogueAt(e)
  BY DEF IInv, ClientInv
<1>2. ~ Current(e)' /\ (ToldFree(e)' <=> ToldFree(e))
  BY DEF Current, ToldFree
<1>3. Current(e) => client[e].s_name \in crossed'
  BY DEF Current
<1> QED  BY <1>1, <1>2, <1>3 DEF DialogueAt

\* An answer that adds the session to the table.
LEMMA AddSessionInv == IInv /\ AddSession => IInv'
<1> SUFFICES ASSUME IInv, AddSession PROVE IInv'
  OBVIOUS
<1>1. PICK c : c = Head(inbox).from
  OBVIOUS
<1>2. PICK row : row = RowToFill
  OBVIOUS
<1>3. /\ cc = "answer" /\ inbox # << >> /\ inbox' = Tail(inbox) /\ cc' = "name"
      /\ flag_empty_row' = row /\ session_table' = [session_table EXCEPT ![row] = s_name]
      /\ overwritten' = overwritten \cup ({session_table[row]} \ {Empty})
      /\ SendTo(c, s_name) /\ Cross(Head(inbox), {s_name, client[c].s_name})
      /\ UNCHANGED <<s_name, owner, client, connected, ignored, lost>>
  BY <1>1, <1>2 DEF AddSession, SentBackTo, clientVars
<1>4. /\ c \in Clients /\ Asks(c) /\ ~ Asks(c)' /\ \A w : ~ Says(c, w)'
      /\ replies[c] = << >> /\ c \notin ignored /\ Waits(c)
      /\ inbox' \in Seq(Datagrams) /\ Unique'
      /\ \A e \in Clients \ {c} : (Asks(e)' <=> Asks(e)) /\ \A w : Says(e, w)' <=> Says(e, w)
  BY <1>1, <1>3, HeadFacts
<1>5. s_name \in Strings /\ client[c].s_name \in Strings
  BY <1>4 DEF IInv, TypeOK
<1>6. /\ replies' \in [Clients -> Seq(Strings)] /\ replies'[c] = <<s_name>> /\ replies'[c] # << >>
      /\ \A e \in Clients \ {c} : replies'[e] = replies[e]
  BY <1>3, <1>4, <1>5, SendToFacts
<1>7. row \in Rows /\ row # NoRow /\ session_table \in [Rows -> Strings]
  BY <1>2, RowFacts DEF IInv, TypeOK
<1>8. /\ crossed \subseteq crossed' /\ crossed' \subseteq Strings
      /\ \/ owner = c /\ client[c].at = "s_name" /\ client[c].s_name = s_name
         \/ s_name \in crossed' /\ client[c].s_name \in crossed'
  BY <1>1, <1>3, <1>5 DEF Cross, Answers, IInv, TypeOK
<1>9. TypeOK'
  <2>1. session_table' \in [Rows -> Strings] /\ overwritten' \subseteq Strings
    BY <1>3, <1>5, <1>7 DEF IInv, TypeOK
  <2> QED  BY <1>3, <1>4, <1>6, <1>7, <1>8, <2>1 DEF IInv, TypeOK, Datagrams
<1>10. session_table'[row] = s_name /\ \A r \in Rows \ {row} : session_table'[r] = session_table[r]
  BY <1>3, <1>7
<1>11. Listed(s_name)' /\ \A n : Fine(n) => Fine(n)'
  <2>1. Listed(s_name)'
    BY <1>3, <1>7, <1>10 DEF Listed
  <2>2. ASSUME NEW n, Listed(n), n # Empty PROVE Listed(n)' \/ n \in overwritten'
    BY <1>3, <1>7, <1>10, <2>2 DEF Listed
  <2> QED  BY <1>3, <1>8, <2>1, <2>2 DEF Fine
<1>12. RowInv'
  BY <1>3, <1>7 DEF RowInv
<1>13. TableInv'
  <2>1. \A p \in connected' : Fine(p[2])'
    BY <1>3, <1>11 DEF IInv, TableInv
  <2>2. ASSUME NEW r \in Rows \ {row}, session_table[r] = s_name PROVE s_name \in {Empty} \cup crossed'
    <3>1. Listed(s_name)
      BY <2>2 DEF Listed
    <3>2. CASE owner = c /\ client[c].at = "s_name" /\ client[c].s_name = s_name
      <4>1. DialogueAt(c) /\ Current(c)
        BY <1>3, <1>4, <3>2 DEF IInv, ClientInv, Current
      <4> QED  BY <1>8, <3>1, <3>2, <4>1 DEF DialogueAt
    <3> QED  BY <1>8, <3>2
  <2>3. ASSUME NEW q \in Rows, NEW r \in Rows, session_table'[q] = session_table'[r], q # r
        PROVE  session_table'[q] \in {Empty} \cup crossed'
    <3>1. CASE q = row \/ r = row
      BY <1>10, <2>2, <2>3, <3>1
    <3>2. CASE q # row /\ r # row
      BY <1>8, <1>10, <2>3, <3>2 DEF IInv, TableInv
    <3> QED  BY <3>1, <3>2
  <2> QED  BY <2>1, <2>3 DEF TableInv
<1>14. OutAt(c)' /\ SaysAt(c)'
  BY <1>3, <1>4, <1>5, <1>6 DEF OutAt, Waits, SaysAt
<1>15. DialogueAt(c)'
  <2>1. ~ Current(c)'
    BY <1>3 DEF Current
  <2>2. ToldFree(c)' => client'[c].s_name \in crossed'
    BY <1>3, <1>8 DEF ToldFree
  <2>3. client'[c].at = "s_name" => Fine(client[c].s_name)'
    BY <1>3, <1>8, <1>11 DEF Fine
  <2> QED  BY <1>4, <2>1, <2>2, <2>3 DEF DialogueAt
<1>16. ClientInv'
  <2>1. \A e \in Clients \ {c} : OutAt(e)' /\ SaysAt(e)'
    BY <1>3, <1>4, <1>6, OthersOut
  <2>2. \A e \in Clients \ {c} : DialogueAt(e)'
    BY <1>3, <1>4, <1>6, <1>8, <1>11, EndDialogue
  <2> QED  BY <1>14, <1>15, <2>1, <2>2 DEF ClientInv
<1> QED  BY <1>4, <1>9, <1>12, <1>13, <1>16 DEF IInv

\* Any other answer.
LEMMA WrongAnswerInv == IInv /\ WrongAnswer => IInv'
<1> SUFFICES ASSUME IInv, WrongAnswer PROVE IInv'
  OBVIOUS
<1>1. PICK c : c = Head(inbox).from
  OBVIOUS
<1>2. /\ cc = "answer" /\ inbox # << >> /\ inbox' = Tail(inbox) /\ cc' = "name"
      /\ Head(inbox).data \notin {"0", "1"}
      /\ ignored' = ignored \cup {c} /\ Cross(Head(inbox), {s_name})
      /\ UNCHANGED <<session_table, flag_empty_row, s_name, owner, overwritten, client, connected, replies, lost>>
  BY <1>1 DEF WrongAnswer, clientVars
<1>3. /\ c \in Clients /\ Says(c, Head(inbox).data) /\ ~ Asks(c)' /\ \A w : ~ Says(c, w)'
      /\ replies[c] = << >> /\ Waits(c)
      /\ inbox' \in Seq(Datagrams) /\ Unique'
      /\ \A e \in Clients \ {c} : (Asks(e)' <=> Asks(e)) /\ \A w : Says(e, w)' <=> Says(e, w)
  BY <1>1, <1>2, HeadFacts
<1>4. crossed \subseteq crossed' /\ crossed' \subseteq Strings /\ (owner # c => s_name \in crossed')
  BY <1>1, <1>2 DEF Cross, Answers, IInv, TypeOK
<1>5. TypeOK'
  BY <1>2, <1>3, <1>4 DEF IInv, TypeOK, Datagrams
<1>6. \A n : (Listed(n)' <=> Listed(n)) /\ (Fine(n) => Fine(n)')
  BY <1>2, <1>4 DEF Listed, Fine
<1>7. RowInv' /\ TableInv'
  BY <1>2, <1>4, <1>6 DEF IInv, RowInv, EmptyRows, TableInv
<1>8. OutAt(c)' /\ SaysAt(c)' /\ DialogueAt(c)'
  <2>1. OutAt(c)' /\ SaysAt(c)'
    BY <1>2, <1>3 DEF OutAt, Waits, SaysAt
  <2>2. DialogueAt(c)'
    BY <1>2, <1>3 DEF DialogueAt, ToldFree, Current
  <2> QED  BY <2>1, <2>2
<1>9. \A e \in Clients \ {c} : OutAt(e)' /\ SaysAt(e)'
  BY <1>2, <1>3, OthersOut
<1>10. \A e \in Clients \ {c} : DialogueAt(e)'
  BY <1>2, <1>3, <1>4, <1>6, EndDialogue
<1>11. ClientInv'
  BY <1>8, <1>9, <1>10 DEF ClientInv
<1> QED  BY <1>3, <1>5, <1>7, <1>11 DEF IInv

-----------------------------------------------------------------------------
(* The network, and the whole system.                                      *)

\* A datagram is lost.
LEMMA LoseInv == IInv /\ Lose => IInv'
<1> SUFFICES ASSUME IInv, Lose PROVE IInv'
  OBVIOUS
<1>1. /\ lost < MaxLost /\ lost' = lost + 1
      /\ UNCHANGED <<session_table, flag_empty_row, cc, s_name, owner, overwritten, crossed, client, connected>>
  BY DEF Lose, ccVars, clientVars
<1>2. lost' \in 0..MaxLost
  BY <1>1, BoundsAssumption DEF IInv, TypeOK
<1>3. \A n : (Listed(n)' <=> Listed(n)) /\ (Fine(n)' <=> Fine(n))
  BY <1>1 DEF Listed, Fine
<1>4. RowInv' /\ TableInv'
  BY <1>1, <1>3 DEF IInv, RowInv, EmptyRows, TableInv
<1>5. \A e : Current(e)' <=> Current(e)
  BY <1>1 DEF Current
<1>6. ASSUME NEW c \in Clients, replies' \in [Clients -> Seq(Strings)], inbox' \in Seq(Datagrams), Unique',
             ignored' = ignored \cup {c}, Waits(c), ~ Asks(c)', replies'[c] = << >>, \A w : ~ Says(c, w)',
             \A e \in Clients \ {c} : replies'[e] = replies[e],
             \A e \in Clients \ {c} : (Asks(e)' <=> Asks(e)) /\ \A w : Says(e, w)' <=> Says(e, w)
      PROVE  IInv'
  <2>1. TypeOK'
    BY <1>1, <1>2, <1>6 DEF IInv, TypeOK, Datagrams
  <2>2. OutAt(c)' /\ SaysAt(c)'
    BY <1>1, <1>6 DEF OutAt, Waits, SaysAt
  <2>3. DialogueAt(c)'
    <3>1. DialogueAt(c) /\ (client'[c].at = "s_name" <=> client[c].at = "s_name")
      BY <1>1, <1>6 DEF IInv, ClientInv
    <3>2. ~ ToldFree(c)'
      BY <1>6 DEF ToldFree
    <3> QED  BY <1>1, <1>3, <1>5, <1>6, <3>1, <3>2 DEF DialogueAt
  <2>4. \A e \in Clients \ {c} : OutAt(e)' /\ SaysAt(e)'
    BY <1>1, <1>6, OthersOut
  <2>5. ASSUME NEW e \in Clients \ {c} PROVE DialogueAt(e)'
    <3>1. DialogueAt(e) /\ (ToldFree(e)' <=> ToldFree(e)) /\ (Asks(e)' <=> Asks(e))
      BY <1>1, <1>6 DEF IInv, ClientInv, ToldFree
    <3> QED  BY <1>1, <1>3, <1>5, <1>6, <3>1 DEF DialogueAt
  <2>6. ClientInv'
    BY <2>2, <2>3, <2>4, <2>5 DEF ClientInv
  <2> QED  BY <1>4, <1>6, <2>1, <2>6 DEF IInv
<1>7. CASE inbox # << >> /\ inbox' = Tail(inbox) /\ ignored' = ignored \cup {Head(inbox).from} /\ UNCHANGED replies
  <2>1. PICK c : c = Head(inbox).from
    OBVIOUS
  <2>2. /\ c \in Clients /\ ~ Asks(c)' /\ \A w : ~ Says(c, w)'
        /\ replies[c] = << >> /\ Waits(c) /\ inbox' \in Seq(Datagrams) /\ Unique'
        /\ \A e \in Clients \ {c} : (Asks(e)' <=> Asks(e)) /\ \A w : Says(e, w)' <=> Says(e, w)
    BY <1>7, <2>1, HeadFacts
  <2>3. replies' \in [Clients -> Seq(Strings)] /\ replies' = replies
    BY <1>7 DEF IInv, TypeOK
  <2> QED  BY <1>6, <1>7, <2>1, <2>2, <2>3
<1>8. CASE \E c \in Clients : /\ replies[c] # << >> /\ replies' = [replies EXCEPT ![c] = Tail(replies[c])]
                              /\ ignored' = ignored \cup {c} /\ UNCHANGED inbox
  <2>1. PICK c \in Clients : /\ replies[c] # << >> /\ replies' = [replies EXCEPT ![c] = Tail(replies[c])]
                             /\ ignored' = ignored \cup {c} /\ UNCHANGED inbox
    BY <1>8
  <2>2. /\ replies' \in [Clients -> Seq(Strings)] /\ replies'[c] = << >>
        /\ \A e \in Clients \ {c} : replies'[e] = replies[e]
        /\ ~ Asks(c) /\ \A w : ~ Says(c, w)
    BY <2>1, ReadFacts
  <2>3. inbox' \in Seq(Datagrams) /\ Unique' /\ Waits(c)
    BY <2>1 DEF IInv, TypeOK, Datagrams, Unique, ClientInv, OutAt
  <2>4. \A e : (Asks(e)' <=> Asks(e)) /\ \A w : Says(e, w)' <=> Says(e, w)
    BY <2>1 DEF Asks, Says
  <2> QED  BY <1>6, <2>1, <2>2, <2>3, <2>4
<1> QED  BY <1>7, <1>8 DEF Lose

\* Nobody has asked anything, and the table is as main filled it in.
LEMMA InitInv == Init => IInv
<1> SUFFICES ASSUME Init PROVE IInv
  OBVIOUS
<1>1. /\ session_table = Sessions /\ flag_empty_row = NoRow /\ cc = "name" /\ s_name = Empty /\ owner = NoOne
      /\ inbox = << >> /\ replies = [c \in Clients |-> << >>]
      /\ client = [c \in Clients |-> [at |-> "menu", case |-> 0, s_name |-> Empty, asked |-> 0]]
      /\ connected = {} /\ ignored = {} /\ crossed = {} /\ overwritten = {} /\ lost = 0
  BY DEF Init
<1>2. TypeOK
  <2>1. session_table \in [Rows -> Strings]
    BY <1>1, SessionsAssumption DEF Strings
  <2>2. client \in [Clients -> [at : {"menu", "validity", "s_name", "exited"},
                                case : 0..2, s_name : Strings, asked : 0..MaxRequests]]
    BY <1>1, ReplyFacts, BoundsAssumption
  <2>3. inbox \in Seq([from : Clients, data : Strings]) /\ replies \in [Clients -> Seq(Strings)]
    BY <1>1, ReplyFacts
  <2>4. lost \in 0..MaxLost /\ s_name \in Strings
    BY <1>1, ReplyFacts, BoundsAssumption
  <2> QED  BY <1>1, <2>1, <2>2, <2>3, <2>4 DEF TypeOK
<1>3. Unique /\ \A c \in Clients : ~ Asks(c) /\ \A w : ~ Says(c, w)
  BY <1>1 DEF Unique, Asks, Says
<1>4. RowInv
  BY <1>1, EmptyRowAssumption DEF RowInv, EmptyRows
<1>5. TableInv
  BY <1>1, DistinctAssumption DEF TableInv
<1>6. ASSUME NEW c \in Clients PROVE OutAt(c) /\ SaysAt(c) /\ DialogueAt(c)
  <2>1. client[c].at = "menu" /\ replies[c] = << >> /\ c \notin ignored
    BY <1>1
  <2>2. OutAt(c) /\ SaysAt(c)
    BY <1>3, <2>1 DEF OutAt, Waits, SaysAt
  <2>3. DialogueAt(c)
    BY <1>3, <2>1 DEF DialogueAt, ToldFree
  <2> QED  BY <2>2, <2>3
<1> QED  BY <1>2, <1>3, <1>4, <1>5, <1>6 DEF IInv, ClientInv

\* A step that changes nothing.
LEMMA StutterInv == IInv /\ UNCHANGED vars => IInv'
<1> SUFFICES ASSUME IInv, UNCHANGED vars PROVE IInv'
  OBVIOUS
<1>1. UNCHANGED <<session_table, flag_empty_row, cc, s_name, owner, overwritten, crossed, inbox,
                  client, connected, replies, ignored, lost>>
  BY DEF vars, ccVars, clientVars
<1>2. TypeOK' /\ Unique' /\ RowInv'
  BY <1>1 DEF IInv, TypeOK, Unique, RowInv, EmptyRows
<1>3. TableInv'
  BY <1>1 DEF IInv, TableInv, Fine, Listed
<1>4. ClientInv'
  BY <1>1 DEF IInv, ClientInv, OutAt, SaysAt, DialogueAt, Waits, Asks, Says, ToldFree, Current, Fine, Listed
<1> QED  BY <1>2, <1>3, <1>4 DEF IInv

\* Every step keeps the invariant.
LEMMA NextInv == IInv /\ [Next]_vars => IInv'
<1> SUFFICES ASSUME IInv, [Next]_vars PROVE IInv'
  OBVIOUS
<1>1. ASSUME NEW c \in Clients, NEW n \in Names, StartSession(c, n) \/ JoinSession(c, n) PROVE IInv'
  BY <1>1, SendNameInv DEF StartSession, JoinSession
<1>2. ASSUME NEW c \in Clients, Client(c) \/ Exit(c) PROVE IInv'
  BY <1>2, RecvStartValidityInv, RecvJoinValidityInv, RecvSNameInv, ExitInv DEF Client
<1>3. CASE Coordinator
  BY <1>3, RecvSessionInv, AddSessionInv, WrongAnswerInv DEF Coordinator
<1>4. CASE Lose
  BY <1>4, LoseInv
<1>5. CASE Silent \/ UNCHANGED vars
  BY <1>5, StutterInv DEF Silent
<1> QED  BY <1>1, <1>2, <1>3, <1>4, <1>5 DEF Next

\* The invariant holds in every reachable state.
THEOREM Invariance == Spec => []IInv
  BY InitInv, NextInv, PTL DEF Spec

-----------------------------------------------------------------------------
(* The theorems.                                                           *)

\* Every variable of the chat service keeps its type: in particular the row
\* a session is written to is one of the table's, although flag_empty_row is
\* not set at first.
THEOREM TypeCorrect == Spec => []TypeOK
  BY Invariance, PTL DEF IInv

\* Of each client at most one datagram is under way, and only while it waits.
THEOREM OneOutstandingCorrect == Spec => []OneOutstanding
<1>1. ASSUME IInv PROVE OneOutstanding
  <2> SUFFICES ASSUME NEW c \in Clients
               PROVE  LET asked == {k \in DOMAIN inbox : inbox[k].from = c}
                          waits == client[c].at \in {"validity", "s_name"}
                      IN /\ Len(replies[c]) <= 1
                         /\ \A j, k \in asked : j = k
                         /\ asked # {} => replies[c] = << >>
                         /\ waits <=> (asked # {} \/ replies[c] # << >> \/ c \in ignored)
                         /\ c \in ignored => asked = {} /\ replies[c] = << >>
    BY DEF OneOutstanding
  <2> DEFINE asked == {k \in DOMAIN inbox : inbox[k].from = c}
  <2>1. OutAt(c) /\ Unique
    BY <1>1 DEF IInv, ClientInv
  <2>2. asked # {} <=> Asks(c)
    BY DEF Asks
  <2>3. \A j, k \in asked : j = k
    BY <2>1 DEF Unique
  <2>4. Len(replies[c]) <= 1
    <3>1. CASE replies[c] = << >>
      <4>1. Len(replies[c]) = 0
        BY <3>1
      <4> QED  BY <4>1
    <3>2. CASE replies[c] # << >>
      <4>1. PICK v \in Strings : replies[c] = <<v>>
        BY <2>1, <3>2 DEF OutAt
      <4>2. Len(replies[c]) = 1
        BY <4>1
      <4> QED  BY <4>2
    <3> QED  BY <3>1, <3>2
  <2> HIDE DEF asked
  <2>5. /\ asked # {} => replies[c] = << >>
        /\ client[c].at \in {"validity", "s_name"} <=> (asked # {} \/ replies[c] # << >> \/ c \in ignored)
        /\ c \in ignored => asked = {} /\ replies[c] = << >>
    BY <2>1, <2>2 DEF OutAt, Waits
  <2> QED  BY <2>3, <2>4, <2>5 DEF asked
<1> QED  BY <1>1, Invariance, PTL

\* A client told that it is connected finds its session in the table, and no
\* session is there twice, unless dialogues were crossed or the table was full.
THEOREM TableCorrect == Spec => []TableUnlessCrossed
<1>1. IInv => TableUnlessCrossed
  BY DEF IInv, TableInv, TableUnlessCrossed, Fine
<1> QED  BY <1>1, Invariance, PTL

\* A session leaves the table only when no row is empty.
THEOREM SessionsKeptCorrect == Spec => SessionsKept
<1>1. ASSUME IInv, [Next]_vars
      PROVE  [\A r \in Rows : session_table[r] \notin {Empty, session_table'[r]} => EmptyRows = {}]_vars
  <2>1. CASE AddSession
    <3>1. session_table' = [session_table EXCEPT ![RowToFill] = s_name] /\ session_table \in [Rows -> Strings]
      BY <1>1, <2>1 DEF AddSession, IInv, TypeOK
    <3>2. EmptyRows # {} => RowToFill \in EmptyRows
      BY <1>1, RowFacts DEF IInv
    <3> QED  BY <3>1, <3>2 DEF EmptyRows
  <2>2. CASE UNCHANGED session_table
    BY <2>2
  <2>3. AddSession \/ UNCHANGED session_table
    BY <1>1 DEF Next, StartSession, JoinSession, SendName, Client, RecvStartValidity, RecvJoinValidity,
                RecvSName, Exit, Coordinator, RecvSession, WrongAnswer, Lose, Silent, vars, ccVars
  <2> QED  BY <2>1, <2>2, <2>3
<1> QED  BY <1>1, Invariance, PTL DEF Spec, SessionsKept
=============================================================================
