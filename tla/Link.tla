-------------------------------- MODULE Link --------------------------------
(***************************************************************************)
(* The operating system's side of the TCP connections, as the sockets of   *)
(* Core use it: the accept queue of the listening socket and, for each     *)
(* connection, the two directions of its stream and whether each end has   *)
(* been closed.  Streams are sequences of whole messages: TcpFraming has   *)
(* the bytes, and the channel they make of a connection.                   *)
(*                                                                         *)
(* A receive may return any part of what is on its way: the rest has not   *)
(* arrived yet.  A send fails when the stream is full, which is what a     *)
(* non-blocking send does to a peer that does not read.                    *)
(***************************************************************************)
EXTENDS Naturals, Sequences

CONSTANTS
  Conns,    \* the connections, each made once
  Capacity  \* messages a stream holds: socket buffers and network

ASSUME LinkAssumption == Capacity \in Nat

VARIABLES
  backlog,    \* connections made and not yet accepted, oldest first
  toServer,   \* what a client sent and the server has not received
  toClient,   \* what the server sent and a client has not received
  serverEnd,  \* the server's socket of a connection: none, open, closed
  clientEnd   \* the client's socket of a connection: none, open, closed

link == <<backlog, toServer, toClient, serverEnd, clientEnd>>

LinkInit ==
  /\ backlog = <<>>
  /\ toServer = [c \in Conns |-> <<>>]
  /\ toClient = [c \in Conns |-> <<>>]
  /\ serverEnd = [c \in Conns |-> "none"]
  /\ clientEnd = [c \in Conns |-> "none"]

Drop(s, k) == SubSeq(s, k + 1, Len(s))
Take(s, k) == SubSeq(s, 1, k)

-----------------------------------------------------------------------------
\* connect() succeeds as soon as the listening socket queues the connection.
Connect(c) ==
  /\ clientEnd[c] = "none"
  /\ clientEnd' = [clientEnd EXCEPT ![c] = "open"]
  /\ backlog' = Append(backlog, c)
  /\ UNCHANGED <<toServer, toClient, serverEnd>>

\* accept() takes the oldest connection of the queue.
Accept(c) ==
  /\ backlog # <<>> /\ c = Head(backlog)
  /\ backlog' = Tail(backlog)
  /\ serverEnd' = [serverEnd EXCEPT ![c] = "open"]
  /\ UNCHANGED <<toServer, toClient, clientEnd>>

\* Accepted and closed at once.
AcceptAndClose(c) ==
  /\ backlog # <<>> /\ c = Head(backlog)
  /\ backlog' = Tail(backlog)
  /\ serverEnd' = [serverEnd EXCEPT ![c] = "closed"]
  /\ UNCHANGED <<toServer, toClient, clientEnd>>

\* Sockets the server closes while it goes on listening.
CloseServerEnds(C) ==
  /\ serverEnd' = [c \in Conns |-> IF c \in C THEN "closed" ELSE serverEnd[c]]
  /\ UNCHANGED <<backlog, toServer, toClient, clientEnd>>

\* Closing the listening socket resets the connections nobody accepted; the
\* server closes the connections C with it.
CloseListener(C) ==
  /\ serverEnd' = [c \in Conns |->
       IF c \in C \/ \E i \in 1..Len(backlog) : backlog[i] = c
       THEN "closed" ELSE serverEnd[c]]
  /\ backlog' = <<>>
  /\ UNCHANGED <<toServer, toClient, clientEnd>>

\* What a client has not read is lost with its socket.
CloseClientEnds(C) ==
  /\ clientEnd' = [c \in Conns |-> IF c \in C THEN "closed" ELSE clientEnd[c]]
  /\ toClient' = [c \in Conns |-> IF c \in C THEN <<>> ELSE toClient[c]]
  /\ UNCHANGED <<backlog, toServer, serverEnd>>

\* The connection breaks: both ends find it closed.
Break(c) ==
  /\ clientEnd[c] = "open" /\ serverEnd[c] = "open"
  /\ clientEnd' = [clientEnd EXCEPT ![c] = "closed"]
  /\ serverEnd' = [serverEnd EXCEPT ![c] = "closed"]
  /\ UNCHANGED <<backlog, toServer, toClient>>

-----------------------------------------------------------------------------
(* What a send of queue does: the number of its messages sent before it    *)
(* ends, all of them or those before the first that fails.  The stream to  *)
(* an end that is closed may still take messages, nobody will read them.   *)
SentCounts(stream, peerOpen, queue) ==
  IF ~peerOpen THEN 0..Len(queue)
  ELSE IF Len(stream) + Len(queue) <= Capacity THEN {Len(queue)}
  ELSE {Capacity - Len(stream)}

ServerSends(c, msgs) ==
  /\ toClient' = [toClient EXCEPT ![c] = IF clientEnd[c] = "open" THEN @ \o msgs ELSE @]
  /\ UNCHANGED <<backlog, toServer, serverEnd, clientEnd>>

ServerReceives(c, k) ==
  /\ toServer' = [toServer EXCEPT ![c] = Drop(@, k)]
  /\ UNCHANGED <<backlog, toClient, serverEnd, clientEnd>>

ClientSends(c, msgs) ==
  /\ toServer' = [toServer EXCEPT ![c] = IF serverEnd[c] # "closed" THEN @ \o msgs ELSE @]
  /\ UNCHANGED <<backlog, toClient, serverEnd, clientEnd>>

ClientReceives(c, k) ==
  /\ toClient' = [toClient EXCEPT ![c] = Drop(@, k)]
  /\ UNCHANGED <<backlog, toServer, serverEnd, clientEnd>>
=============================================================================
