---------------------------- MODULE SocketThreads ----------------------------
(***************************************************************************)
(* Threads that share sockets.  Every method locks the mutex of its object *)
(* and holds it until it returns, also while a system call blocks.         *)
(*                                                                         *)
(* The peers and the network make a listening descriptor, a connection or  *)
(* a UDP descriptor ready.                                                 *)
(***************************************************************************)
EXTENDS Sockets

CONSTANTS
  TcpSockets, UdpSockets,  \* the objects there can be
  Threads,
  Nobody                   \* a mutex nobody holds

ASSUME ThreadsAssumption ==
  TcpSockets \cap UdpSockets = {} /\ Nobody \notin Threads

VARIABLES
  sockets,   \* the objects that exist
  table,     \* the open descriptors
  holder,    \* m_mutex: the thread that holds it
  call       \* the call a thread is in: op, arg, socket, and whether it waits for the mutex,
             \* in a blocking call, or for the mutex it holds

threadVars == <<sockets, table, holder, call>>

Objects == TcpSockets \cup UdpSockets

KindOf(s) == IF s \in TcpSockets THEN "tcp" ELSE "udp"

NoCall == [op |-> "none"]

ThreadsInit ==
  /\ sockets = EmptyMap
  /\ table = EmptyMap
  /\ holder = [s \in Objects |-> Nobody]
  /\ call = [t \in Threads |-> NoCall]

X(s) == [socket |-> sockets[s], table |-> table]

\* An object is made, and deleted, by one thread while no other uses it; its
\* destructor shuts the socket down and closes it.
Construct(t, s) ==
  /\ call[t] = NoCall /\ s \notin DOMAIN sockets
  /\ sockets' = InsertOrAssign(sockets, s, NewSocket(KindOf(s)))
  /\ UNCHANGED <<table, holder, call>>

Unused(s) == \A t \in Threads : call[t] # NoCall => call[t].socket # s

Destruct(t, s) ==
  /\ call[t] = NoCall /\ s \in DOMAIN sockets /\ Unused(s)
  /\ sockets' = Erase(sockets, s)
  /\ table' = Close(X(s)).table
  /\ UNCHANGED <<holder, call>>

-----------------------------------------------------------------------------
\* The methods of TcpSocket and UdpSocket; connectTo, listenSocket, acceptSocket
\* and shutdownSocket are TcpSocket's alone.
TcpOnly == {"connectTo", "listenSocket", "acceptSocket", "shutdownSocket"}
NoArgument == TcpOnly \cup {"closeSocket", "receiveData", "sendData", "getPort"}
Calls == [op : NoArgument, arg : {0}] \cup [op : {"bindSocket"}, arg : Ports \cup {0}]
           \cup [op : {"setBlocking"}, arg : BOOLEAN]

Call(t, s, c) ==
  /\ call[t] = NoCall /\ s \in DOMAIN sockets
  /\ c.op \in TcpOnly => s \in TcpSockets
  /\ call' = [call EXCEPT ![t] = [op |-> c.op, arg |-> c.arg, socket |-> s, in |-> "lock"]]
  /\ UNCHANGED <<sockets, table, holder>>

Results(op, arg, x) ==
  CASE op = "connectTo" -> ConnectTo(x)
    [] op = "bindSocket" -> BindSocket(x, arg)
    [] op = "listenSocket" -> ListenSocket(x)
    [] op = "acceptSocket" -> AcceptFails(x)
    [] op = "receiveData" -> ReceiveData(x)
    [] op = "sendData" -> SendData(x)
    [] op = "setBlocking" -> SetBlocking(x, arg)
    [] op = "getPort" -> GetPort(x)
    [] op = "shutdownSocket" -> ShutdownSocket(x)
    [] op = "closeSocket" -> CloseSocket(x)

\* std::lock_guard: a call that does not return keeps the mutex.
HeldAfter(code) == code \in {"Blocks", "LocksAgain"}

\* t, which has the mutex of s or can take it, runs its call to its end or to
\* where it does not go on.
Proceeds(t, s, r) ==
  /\ sockets' = [sockets EXCEPT ![s] = r.socket]
  /\ table' = r.table
  /\ holder' = [holder EXCEPT ![s] = IF HeldAfter(r.code) THEN t ELSE Nobody]
  /\ call' = [call EXCEPT ![t] =
       IF r.code = "Blocks" THEN [@ EXCEPT !.in = "system"]
       ELSE IF r.code = "LocksAgain" THEN [@ EXCEPT !.in = "lock"] ELSE NoCall]

\* acceptSocket gives a connection an object of its own.
Accepts(t, s, new, a) ==
  /\ new \in TcpSockets \ DOMAIN sockets
  /\ sockets' = InsertOrAssign(sockets, new, [NewSocket("tcp") EXCEPT !.fd = a.fd])
  /\ table' = a.table
  /\ holder' = [holder EXCEPT ![s] = Nobody]
  /\ call' = [call EXCEPT ![t] = NoCall]

Runs(t) ==
  LET s == call[t].socket IN
  \/ \E r \in Results(call[t].op, call[t].arg, X(s)) : Proceeds(t, s, r)
  \/ /\ call[t].op = "acceptSocket" /\ MayAccept(X(s))
     /\ \E a \in Accepted(X(s)), new \in TcpSockets : Accepts(t, s, new, a)

\* A call takes the mutex.
Run(t) ==
  /\ call[t] # NoCall /\ call[t].in = "lock" /\ holder[call[t].socket] = Nobody
  /\ Runs(t)

\* A blocking system call finds something; a send, that the peer has read.
Resume(t) ==
  /\ call[t] # NoCall /\ call[t].in = "system"
  /\ call[t].op = "sendData" \/ Descriptor(X(call[t].socket)).input # "nothing"
  /\ Runs(t)

\* The network: a connection to accept, data, or the end of a connection.
Arrives(fd) ==
  /\ \/ table[fd].state = "listening" /\ table' = [table EXCEPT ![fd].input = "data"]
     \/ /\ table[fd].state = "connected" /\ table[fd].input # "end"
        /\ \E i \in {"data", "end"} : table' = [table EXCEPT ![fd].input = i]
     \/ /\ table[fd].kind = "udp" /\ table[fd].state = "bound"
        /\ table' = [table EXCEPT ![fd].input = "data"]
  /\ UNCHANGED <<sockets, holder, call>>

ThreadStep(t) == Run(t) \/ Resume(t)

\* The thread waits for a mutex that is never released.
Hangs(t) ==
  /\ call[t] # NoCall /\ call[t].in = "lock"
  /\ \E u \in Threads : holder[call[t].socket] = u /\ call[u].in = "lock"

\* The process cannot go on.
AllHang == (\A t \in Threads : Hangs(t)) /\ UNCHANGED threadVars

ThreadsNext ==
  \/ \E t \in Threads :
       \/ \E s \in Objects : Construct(t, s) \/ Destruct(t, s) \/ \E c \in Calls : Call(t, s, c)
       \/ ThreadStep(t)
  \/ \E fd \in DOMAIN table : Arrives(fd)
  \/ AllHang

ThreadsSpec == ThreadsInit /\ [][ThreadsNext]_threadVars

-----------------------------------------------------------------------------
\* Every open descriptor belongs to one object, and an object's descriptor is
\* open: none is leaked on a path that fails, none closed twice, and no object
\* keeps the number of a descriptor that is now another's.
OneOwner ==
  /\ DOMAIN table = {sockets[s].fd : s \in DOMAIN sockets} \ {Invalid}
  /\ \A s, r \in DOMAIN sockets : sockets[s].fd = sockets[r].fd /\ s # r => sockets[s].fd = Invalid

\* The port a UdpSocket answers is the one it is bound to, also when it asked
\* for port 0; a TcpSocket always answers 0.
PortsReported ==
  \A s \in DOMAIN sockets : sockets[s].fd # Invalid =>
    sockets[s].port = IF s \in UdpSockets THEN table[sockets[s].fd].port ELSE 0

\* A thread holds a mutex between two steps only in a listenSocket whose
\* listen() failed, which waits for itself, or in a blocking descriptor; in
\* both cases every other call on the object waits, closeSocket too.
OnlyTheseHang ==
  \A s \in Objects : holder[s] # Nobody =>
    LET c == call[holder[s]] IN
    /\ c # NoCall /\ c.socket = s
    /\ \/ c.op = "listenSocket" /\ c.in = "lock"
       \/ /\ c.op \in {"acceptSocket", "receiveData", "sendData"} /\ c.in = "system"
          /\ table[sockets[s].fd].blocking
=============================================================================
