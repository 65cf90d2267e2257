------------------------------- MODULE SSLEcho -------------------------------
(***************************************************************************)
(* The SSL echo server, "SSL_Encry_Decryp/Server.c": one thread that waits *)
(* in select for new connections and for bytes, shakes hands with a new    *)
(* connection there and then, and echoes one read of each ready one.  All  *)
(* calls on a connection block, and any error ends the server.             *)
(*                                                                         *)
(* The clients are those of Client.c: connect, shake hands, then send a    *)
(* line and read it back, and so on.  A connection is one run of a client, *)
(* which may end at any time; a line is a record, whose bytes may arrive   *)
(* in two parts.                                                           *)
(***************************************************************************)
EXTENDS Integers, Sequences

CONSTANTS Conns,    \* connections, each made once
          Lines,    \* lines a client sends (bound)
          FDs,      \* descriptors a connection may have: indexes of ssl_array
          None      \* no connection, no descriptor

ASSUME LinesAssumption == Lines \in Nat
ASSUME FDsAssumption   == FDs \subseteq Nat
ASSUME NoneAssumption  == None \notin Conns \cup FDs

VARIABLES client,   \* client[k]: "off", "open", "agreed" (it answers the handshake) or "closed"
          wrote,    \* wrote[k]: lines the client has sent
          arrived,  \* arrived[k]: lines at the server and not read yet
          half,     \* half[k]: the rest of the last line sent is under way
          echo,     \* echo[k]: lines the server has sent back
          backlog,  \* connections to accept, oldest first
          sock,     \* sock[f]: the connection descriptor f is open on, or None
          ssl,      \* ssl[f]: the connection of ssl_array[f], or None
          tls,      \* connections whose SSL_accept succeeded
          afds,     \* the descriptors to select; the listening one is always there
          rfds,     \* those select returned that the loop has still to look at
          pc,       \* "select", "accept", "shake", "scan", "write", "exit" or "undefined"
          fd,       \* the descriptor worked on, or None
          buf       \* the line read last

clientVars == <<client, wrote, half>>
serverVars == <<backlog, sock, ssl, tls, afds, rfds, pc, fd, buf>>
vars == <<clientVars, arrived, echo, serverVars>>

Init == /\ client = [k \in Conns |-> "off"]
        /\ wrote = [k \in Conns |-> 0] /\ half = [k \in Conns |-> FALSE]
        /\ arrived = [k \in Conns |-> << >>] /\ echo = [k \in Conns |-> << >>]
        /\ backlog = << >>
        /\ sock = [f \in FDs |-> None] /\ ssl = [f \in FDs |-> None]
        /\ tls = {} /\ afds = {} /\ rfds = {}
        /\ pc = "select" /\ fd = None /\ buf = <<None, 0>>

-----------------------------------------------------------------------------
(* A client and the network.                                               *)

Connect(k) ==
  /\ client[k] = "off" /\ pc # "exit"
  /\ client' = [client EXCEPT ![k] = "open"]
  /\ backlog' = Append(backlog, k)
  /\ UNCHANGED <<wrote, half, arrived, echo, sock, ssl, tls, afds, rfds, pc, fd, buf>>

\* The client's side of the handshake: SSL_connect.
Agree(k) ==
  /\ client[k] = "open"
  /\ client' = [client EXCEPT ![k] = "agreed"]
  /\ UNCHANGED <<wrote, half, arrived, echo, serverVars>>

\* A line is sent when the last has come back; it arrives, or part of it.
SendLine(k) ==
  /\ client[k] = "agreed" /\ k \in tls
  /\ wrote[k] < Lines /\ Len(echo[k]) = wrote[k]
  /\ wrote' = [wrote EXCEPT ![k] = @ + 1]
  /\ \/ half' = [half EXCEPT ![k] = TRUE] /\ UNCHANGED arrived
     \/ arrived' = [arrived EXCEPT ![k] = Append(@, <<k, wrote'[k]>>)] /\ UNCHANGED half
  /\ UNCHANGED <<client, echo, serverVars>>

RestArrives(k) ==
  /\ half[k]
  /\ half' = [half EXCEPT ![k] = FALSE]
  /\ arrived' = [arrived EXCEPT ![k] = Append(@, <<k, wrote[k]>>)]
  /\ UNCHANGED <<client, wrote, echo, serverVars>>

\* Its input ends, or the process does; part of a line is never completed.
Close(k) ==
  /\ client[k] \in {"open", "agreed"}
  /\ client' = [client EXCEPT ![k] = "closed"]
  /\ half' = [half EXCEPT ![k] = FALSE]
  /\ UNCHANGED <<wrote, arrived, echo, serverVars>>

Client(k) == Connect(k) \/ Agree(k) \/ SendLine(k) \/ RestArrives(k) \/ Close(k)

-----------------------------------------------------------------------------
(* The server.                                                             *)

Ready(f) == LET k == sock[f] IN k # None /\ (arrived[k] # << >> \/ half[k] \/ client[k] = "closed")

\* The descriptor accept returns is the lowest that is not open.
Unused == {f \in FDs : sock[f] = None}
Lowest(S) == CHOOSE f \in S : \A g \in S : f <= g

\* Mutation: an SSL is created only where the array holds none.
OldSSL(f, k) == IF ssl[f] = None THEN k ELSE ssl[f]

NewSSL(f, k) == k

\* select copies afds and returns the ready ones; all of them are open.
Select ==
  /\ pc = "select"
  /\ backlog # << >> \/ \E f \in afds : Ready(f)
  /\ rfds' = {f \in afds : Ready(f)}
  /\ pc' = IF backlog = << >> THEN "scan" ELSE "accept"
  /\ UNCHANGED <<clientVars, arrived, echo, backlog, sock, ssl, tls, afds, fd, buf>>

\* A new connection comes first: it gets a descriptor and an SSL, and the server
\* turns to its handshake.
Accept ==
  LET f == Lowest(Unused) IN
  /\ pc = "accept" /\ Unused # {}
  /\ sock' = [sock EXCEPT ![f] = Head(backlog)]
  /\ ssl' = [ssl EXCEPT ![f] = NewSSL(f, Head(backlog))]
  /\ afds' = afds \cup {f}
  /\ backlog' = Tail(backlog)
  /\ fd' = f /\ pc' = "shake"
  /\ UNCHANGED <<clientVars, arrived, echo, tls, rfds, buf>>

\* The descriptor is past the end of ssl_array.
AcceptPastEnd ==
  /\ pc = "accept" /\ Unused = {}
  /\ pc' = "undefined"
  /\ UNCHANGED <<clientVars, arrived, echo, backlog, sock, ssl, tls, afds, rfds, fd, buf>>

\* SSL_accept blocks until the client shakes hands or is gone.  A failure is
\* printed, and the descriptor kept.
SSL_accept ==
  /\ pc = "shake"
  /\ client[ssl[fd]] # "open"
  /\ tls' = IF client[ssl[fd]] = "agreed" THEN tls \cup {ssl[fd]} ELSE tls
  /\ pc' = "scan" /\ fd' = None
  /\ UNCHANGED <<clientVars, arrived, echo, backlog, sock, ssl, afds, rfds, buf>>

\* The loop over the descriptors comes to the lowest ready one.
ReadyFd == Lowest(rfds)

\* SSL_read of a line; of part of a line it blocks.
ReadLine ==
  LET k == ssl[ReadyFd] IN
  /\ pc = "scan" /\ rfds # {}
  /\ k \in tls /\ arrived[k] # << >>
  /\ buf' = Head(arrived[k])
  /\ arrived' = [arrived EXCEPT ![k] = Tail(@)]
  /\ fd' = ReadyFd /\ rfds' = rfds \ {ReadyFd}
  /\ pc' = "write"
  /\ UNCHANGED <<clientVars, echo, backlog, sock, ssl, tls, afds>>

\* A client that is gone: SSL_read returns 0, by which the connection is closed
\* and its descriptor is no longer selected, or an error, which ends the server.
GoneNow == /\ pc = "scan" /\ rfds # {}
           /\ client[ssl[ReadyFd]] = "closed" /\ arrived[ssl[ReadyFd]] = << >>

\* Mutation: the end of a connection is echoed like a line.
EchoNothing ==
  /\ GoneNow
  /\ fd' = ReadyFd /\ rfds' = rfds \ {ReadyFd}
  /\ pc' = "write"
  /\ UNCHANGED <<clientVars, arrived, echo, backlog, sock, ssl, tls, afds, buf>>

\* Mutation: the descriptor is not selected any more, and not closed.
ClearOnly ==
  /\ GoneNow
  /\ afds' = afds \ {ReadyFd} /\ rfds' = rfds \ {ReadyFd}
  /\ UNCHANGED <<clientVars, arrived, echo, backlog, sock, ssl, tls, pc, fd, buf>>

CloseConn ==
  /\ GoneNow
  /\ sock' = [sock EXCEPT ![ReadyFd] = None]
  /\ afds' = afds \ {ReadyFd}
  /\ rfds' = rfds \ {ReadyFd}
  /\ UNCHANGED <<clientVars, arrived, echo, backlog, ssl, tls, pc, fd, buf>>

ReadFails ==
  /\ GoneNow
  /\ pc' = "exit"
  /\ UNCHANGED <<clientVars, arrived, echo, backlog, sock, ssl, tls, afds, rfds, fd, buf>>

SSL_write ==
  /\ pc = "write"
  /\ echo' = [echo EXCEPT ![ssl[fd]] = Append(@, buf)]
  /\ pc' = "scan" /\ fd' = None
  /\ UNCHANGED <<clientVars, arrived, backlog, sock, ssl, tls, afds, rfds, buf>>

\* A write to a client that is gone may fail.
WriteFails ==
  /\ pc = "write"
  /\ client[ssl[fd]] = "closed"
  /\ pc' = "exit"
  /\ UNCHANGED <<clientVars, arrived, echo, backlog, sock, ssl, tls, afds, rfds, fd, buf>>

EndScan ==
  /\ pc = "scan" /\ rfds = {}
  /\ pc' = "select"
  /\ UNCHANGED <<clientVars, arrived, echo, backlog, sock, ssl, tls, afds, rfds, fd, buf>>

Server == \/ Select \/ Accept \/ AcceptPastEnd \/ SSL_accept \/ ReadLine \/ CloseConn \/ ReadFails
          \/ SSL_write \/ WriteFails \/ EndScan

\* The server has ended, or waits, and the clients are done.
Done == /\ \A k \in Conns : client[k] = "closed" \/ (client[k] = "off" /\ pc = "exit")
        /\ \/ pc \in {"exit", "undefined"}
           \/ pc = "select" /\ backlog = << >> /\ \A f \in afds : ~ Ready(f)
        /\ UNCHANGED vars

Next == (\E k \in Conns : Client(k)) \/ Server \/ Done

Spec == Init /\ [][Next]_vars

\* The server runs; clients and the network need do nothing.
FairSpec == Spec /\ WF_vars(Server)
-----------------------------------------------------------------------------
Line == Conns \X (1..Lines)

TypeOK == /\ client \in [Conns -> {"off", "open", "agreed", "closed"}]
          /\ wrote \in [Conns -> 0..Lines]
          /\ half \in [Conns -> BOOLEAN]
          /\ arrived \in [Conns -> Seq(Line)]
          /\ echo \in [Conns -> Seq(Line)]
          /\ backlog \in Seq(Conns)
          /\ sock \in [FDs -> Conns \cup {None}]
          /\ ssl \in [FDs -> Conns \cup {None}]
          /\ tls \subseteq Conns
          /\ afds \subseteq FDs /\ rfds \subseteq afds
          /\ pc \in {"select", "accept", "shake", "scan", "write", "exit", "undefined"}
          /\ fd \in FDs \cup {None}
          /\ buf \in Line \cup {<<None, 0>>}

\* Each client gets back its own lines, in order and none twice, although one
\* buffer serves all, descriptors are reused as soon as they are closed and
\* rfds is older than the connection just accepted: the loop looks only at open
\* descriptors, with the SSL of the connection that is open on them.
EchoesOwn ==
  /\ \A k \in Conns : \A n \in DOMAIN echo[k] : echo[k][n] = <<k, n>>
  /\ pc \in {"accept", "shake", "scan", "write"} =>
       \A f \in rfds : sock[f] # None /\ ssl[f] = sock[f]

\* The server waits for one client to shake hands or to send the rest of a line.
HeldUp == \/ pc = "shake" /\ client[ssl[fd]] = "open"
          \/ /\ pc = "scan" /\ rfds # {}
             /\ half[ssl[ReadyFd]] /\ arrived[ssl[ReadyFd]] = << >>

Ended == pc = "undefined" \/ (pc = "exit" /\ \E k \in Conns : client[k] = "closed")

\* A line that has arrived is eventually echoed and the descriptor of a client
\* that is gone eventually given back, unless the server ends, for which some
\* client must have gone or all descriptors be in use, or one client holds it up
\* for ever: that is all one client can do to the others.
EventuallyServed ==
  \/ <>[]HeldUp
  \/ /\ \A k \in Conns : arrived[k] # << >> ~> (arrived[k] = << >> \/ Ended)
     /\ \A k \in Conns : pc = "write" /\ buf[1] = k ~> (\E n \in DOMAIN echo[k] : echo[k][n] = buf) \/ Ended
     /\ \A f \in FDs, k \in Conns : sock[f] = k /\ client[k] = "closed" ~> (sock[f] # k \/ Ended)
=============================================================================
