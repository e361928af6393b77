------------------------------- MODULE Sockets -------------------------------
(***************************************************************************)
(* TcpSocket and UdpSocket: what their methods do to the object and to the *)
(* descriptors of the process.  The operating system may fail any call, so *)
(* a method is the set of its possible results.                            *)
(*                                                                         *)
(* A method takes x, the object (x.socket) and the table of the open       *)
(* descriptors (x.table), and a result is one with the code it returns:    *)
(* "Blocks" when the method stays in a blocking system call, "LocksAgain"  *)
(* when it waits for the mutex it holds.                                   *)
(***************************************************************************)
EXTENDS Naturals, Maps

CONSTANTS
  Descriptors,   \* the descriptors the process can have
  Invalid,       \* INVALID_SOCKET_FD
  Ports,         \* the ports that may be bound, and that the system gives
  MaxAddresses   \* bound on the addresses getaddrinfo finds

ASSUME SocketsAssumption ==
  /\ Invalid \notin Descriptors
  /\ Ports \subseteq Nat \ {0}
  /\ MaxAddresses \in Nat \ {0}

\* A new TcpSocket or UdpSocket; m_isBlocking of a UdpSocket never changes.
NewSocket(kind) == [kind |-> kind, fd |-> Invalid, port |-> 0, blocking |-> TRUE]

IsOpen(x) == x.socket.fd # Invalid

\* What the operating system keeps for a descriptor: a descriptor is made
\* blocking, without a port, with nothing to receive and nobody to accept.
Fresh(kind) == [kind |-> kind, state |-> "new", port |-> 0, blocking |-> TRUE, input |-> "nothing"]

Descriptor(x) == x.table[x.socket.fd]
Change(x, d) == [x EXCEPT !.table[x.socket.fd] = d]

Returns(code, x) == [code |-> code, socket |-> x.socket, table |-> x.table]

\* The methods that need an open socket.
WhenOpen(x, results) == IF IsOpen(x) THEN results ELSE {Returns("SocketNotOpen", x)}

-----------------------------------------------------------------------------
\* CLOSE_SOCKET and INVALID_SOCKET_FD; closing an invalid descriptor does nothing.
Close(x) == [x EXCEPT !.table = Erase(x.table, x.socket.fd), !.socket.fd = Invalid]

CloseSocket(x) == {Returns("Success", Close(x))}

\* shutdown of a connection ends its stream.
ShutdownSocket(x) ==
  IF ~IsOpen(x) THEN {Returns("Success", x)}
  ELSE IF Descriptor(x).state = "connected"
       THEN {Returns("Success", Change(x, [Descriptor(x) EXCEPT !.input = "end"])),
             Returns("SocketShutdownFailed", x)}
       ELSE {Returns("Success", x), Returns("SocketShutdownFailed", x)}

\* socket(), which finds a descriptor or fails.
Made(x) ==
  {[x EXCEPT !.socket.fd = fd, !.table = InsertOrAssign(x.table, fd, Fresh(x.socket.kind))] :
     fd \in Descriptors \ DOMAIN x.table}

NotMade(x) == [x EXCEPT !.socket.fd = Invalid]

\* Mutated form: the descriptor that was not bound or connected is not closed.
GivenUpOpen(x) == NotMade(x)

GivenUp(x) == Close(x)

\* The loop over the addresses, after those that failed.
AfterFailedAddresses(x, limit) ==
  LET after[n \in 0..limit] ==
        IF n = 0 THEN {x}
        ELSE UNION {{NotMade(y)} \cup {GivenUp(z) : z \in Made(y)} : y \in after[n - 1]}
  IN UNION {after[n] : n \in 0..limit}

\* The loop stops at an address that works.
AtWorkingAddress(x) == UNION {Made(y) : y \in AfterFailedAddresses(x, MaxAddresses - 1)}

NoAddressWorks(x) == AfterFailedAddresses(x, MaxAddresses)

ConnectTo(x) ==
  IF IsOpen(x) THEN {Returns("SocketAlreadyOpen", x)}
  ELSE {Returns("SocketGetaddrinfoFailed", x)}
       \cup {Returns("SocketConnectFailed", y) : y \in NoAddressWorks(x)}
       \cup {Returns("Success", Change(y, [Descriptor(y) EXCEPT !.state = "connected"])) :
               y \in AtWorkingAddress(x)}

\* bind() takes a port, any for port 0, that no other socket of the kind is bound
\* to; whether the port of a connection is free is up to the system.
PortsTaken(x) ==
  {x.table[fd].port : fd \in {d \in DOMAIN x.table :
     x.table[d].kind = x.socket.kind /\ x.table[d].state \in {"bound", "listening"}}}
Bindable(x, p) == (IF p = 0 THEN Ports ELSE {p}) \ PortsTaken(x)
BoundTo(y, q) == Change(y, [Descriptor(y) EXCEPT !.state = "bound", !.port = q])
Bound(x, p) == {BoundTo(y, q) : y \in AtWorkingAddress(x), q \in Bindable(x, p)}

\* getSocketPort, called only when no address worked, so that it always fails
\* and m_port is never set.
TcpBindFailed(y) ==
  IF IsOpen(y)
  THEN Returns("SocketBindFailed", [y EXCEPT !.socket.port = Descriptor(y).port])
  ELSE Returns("SocketGetPortFailed", Close(y))

TcpBindSocket(x, p) ==
  IF IsOpen(x) THEN {Returns("SocketAlreadyOpen", x)}
  ELSE {Returns("SocketGetaddrinfoFailed", x)}
       \cup {TcpBindFailed(y) : y \in NoAddressWorks(x)}
       \cup {Returns("Success", y) : y \in Bound(x, p)}

\* Mutated form: the port asked for is taken for the port bound.
PortAsked(y, p) == p

PortBound(y, p) == Descriptor(y).port

UdpBindSocket(x, p) ==
  IF IsOpen(x) THEN {Returns("SocketAlreadyOpen", x)}
  ELSE {Returns("SocketGetaddrinfoFailed", x)}
       \cup {Returns("SocketBindFailed", y) : y \in NoAddressWorks(x)}
       \cup {Returns("SocketGetPortFailed", GivenUp(y)) : y \in Bound(x, p)}
       \cup {Returns("Success", [y EXCEPT !.socket.port = PortBound(y, p)]) : y \in Bound(x, p)}

BindSocket(x, p) == IF x.socket.kind = "tcp" THEN TcpBindSocket(x, p) ELSE UdpBindSocket(x, p)

\* When listen() fails, listenSocket calls closeSocket, which locks the mutex
\* that listenSocket holds.
ListenSocket(x) ==
  WhenOpen(x,
    {Returns("LocksAgain", x)}
    \cup (IF Descriptor(x).state \in {"bound", "listening"}
          THEN {Returns("Success", Change(x, [Descriptor(x) EXCEPT !.state = "listening"]))}
          ELSE {}))

-----------------------------------------------------------------------------
\* Mutated form: it is called again and again.
FindsSomething(x, code) == {Returns("Blocks", x)}

\* A system call that finds nothing returns at once or blocks.
FindsNothing(x, code) == {Returns(IF Descriptor(x).blocking THEN "Blocks" ELSE code, x)}

\* accept() gives a connection its own descriptor, blocking on some systems,
\* with the listening socket's mode on others.  The result says which one it is.
Accepted(x) ==
  {[code |-> "Success", fd |-> fd,
    table |-> InsertOrAssign(Change(x, [Descriptor(x) EXCEPT !.input = "nothing"]).table, fd,
                [Fresh("tcp") EXCEPT !.state = "connected", !.port = Descriptor(x).port,
                                     !.blocking = mode])] :
     fd \in Descriptors \ DOMAIN x.table, mode \in {TRUE, Descriptor(x).blocking}}

AcceptFails(x) ==
  WhenOpen(x,
    IF Descriptor(x).state = "listening" /\ Descriptor(x).input = "nothing"
    THEN FindsNothing(x, "SocketWouldBlock")
    ELSE {Returns("SocketAcceptFailed", x)})

MayAccept(x) ==
  IsOpen(x) /\ Descriptor(x).state = "listening" /\ Descriptor(x).input = "data"

\* receiveData reads until nothing is left: with a blocking descriptor it
\* returns at the end of the stream only.
Receive(x) ==
  WhenOpen(x,
    LET rest == Change(x, [Descriptor(x) EXCEPT !.input = "nothing"]) IN
    IF Descriptor(x).state # "connected" THEN {Returns("SocketReceiveFailed", x)}
    ELSE IF Descriptor(x).input = "end" THEN {Returns("SocketConnectionClosed", x)}
    ELSE [code : {"SocketReceiveFailed", "SocketConnectionClosed"},
          socket : {x.socket}, table : {x.table, rest.table}]
           \cup FindsNothing(rest, "Success"))

\* receiveDataFrom reads one datagram.
ReceiveFrom(x) ==
  WhenOpen(x,
    {Returns("SocketReceiveFailed", x), Returns("SocketReceiveSizeTooLarge", x)}
    \cup (IF Descriptor(x).input = "data"
          THEN {Returns("Success", Change(x, [Descriptor(x) EXCEPT !.input = "nothing"]))}
          ELSE FindsNothing(x, "SocketWouldBlock")))

ReceiveData(x) == IF x.socket.kind = "tcp" THEN Receive(x) ELSE ReceiveFrom(x)

\* sendData changes nothing here; with a blocking descriptor it waits for a peer
\* that does not read.
Send(x) ==
  WhenOpen(x,
    [code : {"Success", "SocketSendPartial", "SocketConnectionClosed", "SocketSendFailed",
             "SocketSendSizeTooLarge"},
     socket : {x.socket}, table : {x.table}]
    \cup (IF Descriptor(x).blocking THEN {Returns("Blocks", x)} ELSE {}))

\* sendDataTo.
SendTo(x) ==
  WhenOpen(x, {Returns(code, x) : code \in {"Success", "SocketSendFailed", "SocketSendSizeTooLarge"}})

SendData(x) == IF x.socket.kind = "tcp" THEN Send(x) ELSE SendTo(x)

SetMode(x, mode) ==
  {Returns("SocketSetBlockingFailed", x),
   Returns("Success", Change(x, [Descriptor(x) EXCEPT !.blocking = mode]))}

\* TcpSocket remembers the mode, UdpSocket does not.
TcpSetBlocking(x, mode) ==
  WhenOpen(x, {IF r.code = "Success" THEN [r EXCEPT !.socket.blocking = mode] ELSE r :
                 r \in SetMode(x, mode)})

UdpSetBlocking(x, mode) == WhenOpen(x, SetMode(x, mode))

SetBlocking(x, mode) ==
  IF x.socket.kind = "tcp" THEN TcpSetBlocking(x, mode) ELSE UdpSetBlocking(x, mode)

GetPort(x) == WhenOpen(x, {Returns("Success", x)})
=============================================================================
