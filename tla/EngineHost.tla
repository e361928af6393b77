----------------------------- MODULE EngineHost -----------------------------
(***************************************************************************)
(* A process with a Server and a Client: how their engines are started and *)
(* stopped, on Windows, where each engine initializes WSA.                 *)
(*                                                                         *)
(* An engine's sockets are components of its world.  Nothing runs the      *)
(* destructor of a component that leaves the world (see Server): only an   *)
(* explicit closeSocket, and the destructor of a component that never got  *)
(* there, close a descriptor.                                              *)
(***************************************************************************)
EXTENDS Sockets

CONSTANTS
  Port,     \* the port of the server
  MaxWsa    \* bound on the WSAStartup calls that are not undone

ASSUME HostAssumption == Port \in Ports /\ MaxWsa \in Nat

VARIABLES
  wsa,            \* WSAStartup calls without their WSACleanup
  descriptors,    \* the open descriptors of the process
  serverEngine,   \* Server::m_networkEngine: none, listening
  listenSocket,   \* its TcpListenSocketComponent
  acceptSockets,  \* the TcpConnectSocketComponents of its connections
  clientEngine,   \* Client::m_networkEngine: none, connected, lost
  connectSocket,  \* its TcpConnectSocketComponent
  left,           \* descriptors whose component left the world
  hung            \* descriptors whose listenSocket never returned

hostVars == <<wsa, descriptors, serverEngine, listenSocket, acceptSockets,
              clientEngine, connectSocket, left, hung>>

None == NewSocket("tcp")

HostInit ==
  /\ wsa = 0 /\ descriptors = EmptyMap
  /\ serverEngine = "none" /\ listenSocket = None /\ acceptSockets = {}
  /\ clientEngine = "none" /\ connectSocket = None
  /\ left = {} /\ hung = {}

\* WSACleanup, which fails when WSA is not initialized.
CleanedUp == IF wsa = 0 THEN 0 ELSE wsa - 1

With(socket) == [socket |-> socket, table |-> descriptors]

Fds(S) == {s.fd : s \in S} \ {Invalid}

\* A step that succeeds is followed by the next one.
Then(results, Next(_)) ==
  {r \in results : r.code # "Success"}
  \cup UNION {Next(r) : r \in {s \in results : s.code = "Success"}}

\* Mutated form: a listening or connected socket stays as it was made.
Unchanged(x) == {Returns("Success", x)}

NonBlocking(x) == SetBlocking(x, FALSE)

\* Mutated form: a socket that failed on the way is not destroyed.
NotDestructed(r) == r

\* ~TcpSocket of a component that was not added to the world.
Destructed(r) == Close(r)

-----------------------------------------------------------------------------
Started ==
  Then(Then(BindSocket(With(None), Port), ListenSocket), NonBlocking)

\* WSAStartup failed, and the engine was made for nothing.
ServerStartFailsAtOnce == serverEngine = "none" /\ UNCHANGED hostVars

\* Server::start and NetworkEngine::startTcpListenOnPort.  When it fails,
\* stopTcpListen finds no component, returns, and leaves WSA initialized.
ServerStart ==
  /\ serverEngine = "none" /\ wsa < MaxWsa /\ wsa' = wsa + 1
  /\ \E r \in Started :
       \/ /\ r.code = "Success"
          /\ serverEngine' = "listening" /\ listenSocket' = r.socket
          /\ descriptors' = r.table /\ UNCHANGED hung
       \/ /\ r.code = "LocksAgain"
          /\ hung' = hung \cup {r.socket.fd}
          /\ descriptors' = r.table /\ UNCHANGED <<serverEngine, listenSocket>>
       \/ /\ r.code \notin {"Success", "LocksAgain"}
          /\ descriptors' = Destructed(r).table /\ UNCHANGED <<serverEngine, listenSocket, hung>>
  /\ UNCHANGED <<acceptSockets, clientEngine, connectSocket, left>>

\* Mutated form: the component is removed without closing its socket.
RemovedListener == descriptors

\* stopTcpListen shuts the socket down and closes it.
ClosedListener == Close(With(listenSocket)).table

\* Server::stop and NetworkEngine::stopTcpListen; then the engine is destroyed.
ServerStop ==
  /\ serverEngine = "listening" /\ serverEngine' = "none"
  /\ descriptors' = ClosedListener
  /\ listenSocket' = None /\ acceptSockets' = {}
  /\ left' = left \cup Fds(acceptSockets)
  /\ wsa' = CleanedUp
  /\ UNCHANGED <<clientEngine, connectSocket, hung>>

\* AcceptConnectionSystem takes a connection, of which the system says so, and
\* keeps it if it can be made non-blocking.
ServerAccepts ==
  /\ serverEngine = "listening" /\ MayAccept(With(listenSocket))
  /\ \E a \in Accepted(With(listenSocket)) :
       \E r \in NonBlocking([socket |-> [None EXCEPT !.fd = a.fd], table |-> a.table]) :
         IF r.code = "Success"
         THEN acceptSockets' = acceptSockets \cup {r.socket} /\ descriptors' = r.table
         ELSE descriptors' = Close(r).table /\ UNCHANGED acceptSockets
  /\ UNCHANGED <<wsa, serverEngine, listenSocket, clientEngine, connectSocket, left, hung>>

\* DisconnectSystem destroys the entity of a connection.
ServerDisconnects ==
  /\ \E s \in acceptSockets :
       acceptSockets' = acceptSockets \ {s} /\ left' = left \cup {s.fd}
  /\ UNCHANGED <<wsa, descriptors, serverEngine, listenSocket, clientEngine, connectSocket, hung>>

\* A connection arrives.
ListenerIsReady ==
  /\ serverEngine = "listening" /\ ~MayAccept(With(listenSocket))
  /\ descriptors' = [descriptors EXCEPT ![listenSocket.fd].input = "data"]
  /\ UNCHANGED <<wsa, serverEngine, listenSocket, acceptSockets, clientEngine, connectSocket,
                 left, hung>>

-----------------------------------------------------------------------------
Connected == Then(ConnectTo(With(None)), NonBlocking)

\* Client::connectTo makes a new engine; an old one, whose connection was lost,
\* is destroyed.
NewClientEngine ==
  /\ clientEngine # "connected"
  /\ left' = left \cup Fds({connectSocket})
  /\ UNCHANGED <<serverEngine, listenSocket, acceptSockets, hung>>

\* The address is not valid, or WSAStartup fails.
ClientConnectFailsAtOnce ==
  /\ NewClientEngine
  /\ clientEngine' = "none" /\ connectSocket' = None
  /\ UNCHANGED <<wsa, descriptors>>

\* NetworkEngine::startTcpConnectToAddress; when it fails, WSA stays initialized.
ClientConnect ==
  /\ NewClientEngine
  /\ wsa < MaxWsa /\ wsa' = wsa + 1
  /\ \E r \in Connected :
       IF r.code = "Success"
       THEN clientEngine' = "connected" /\ connectSocket' = r.socket /\ descriptors' = r.table
       ELSE clientEngine' = "none" /\ connectSocket' = None /\ descriptors' = Destructed(r).table

\* PendingDisconnectSystem: the tag goes, the engine stays.
ClientLoses ==
  /\ clientEngine = "connected" /\ clientEngine' = "lost"
  /\ UNCHANGED <<wsa, descriptors, serverEngine, listenSocket, acceptSockets, connectSocket,
                 left, hung>>

\* Mutated form: disconnect without a connection cleans up, too.
Always == TRUE

\* Client::disconnect returns at once when the client is not connected.
IsConnected == clientEngine = "connected"

\* Client::disconnect and NetworkEngine::stopTcpConnect, which always calls
\* WSACleanup.
ClientDisconnect ==
  /\ IsConnected
  /\ clientEngine' = "none" /\ connectSocket' = None
  /\ left' = left \cup Fds({connectSocket})
  /\ wsa' = CleanedUp
  /\ UNCHANGED <<descriptors, serverEngine, listenSocket, acceptSockets, hung>>

\* The process hangs as soon as one listenSocket does.
HostNext ==
  \/ /\ hung = {}
     /\ \/ ServerStart \/ ServerStartFailsAtOnce \/ ServerStop
        \/ ServerAccepts \/ ServerDisconnects \/ ListenerIsReady
        \/ ClientConnectFailsAtOnce \/ ClientConnect \/ ClientLoses \/ ClientDisconnect
  \/ hung # {} /\ UNCHANGED hostVars

HostSpec == HostInit /\ [][HostNext]_hostVars

-----------------------------------------------------------------------------
Engines ==
  (IF serverEngine # "none" THEN 1 ELSE 0) + (IF clientEngine # "none" THEN 1 ELSE 0)

\* WSA is initialized as long as the process has an engine: no start that fails
\* and no stop cleans up what another engine of the process needs.  Some leave
\* it initialized for ever.
WsaCoversEngines == wsa >= Engines

\* Every open descriptor is in a component of an engine, or its component left
\* the world or hangs: a start or a connect that fails leaves none, and no
\* component has a descriptor that is closed or another's.
DescriptorsAccounted ==
  LET used == acceptSockets \cup {listenSocket, connectSocket} IN
  /\ DOMAIN descriptors = Fds(used) \cup left \cup hung
  /\ (left \cup hung) \cap Fds(used) = {}
  /\ Fds({listenSocket}) \cap Fds({connectSocket}) = {}
  /\ Fds(acceptSockets) \cap Fds({listenSocket, connectSocket}) = {}
  /\ \A s, r \in acceptSockets : s.fd = r.fd => s = r

\* No engine ever waits in a system call: what its components hold does not
\* block, whatever mode accept() gives a connection.  receiveData would wait
\* for the end of the stream.
EnginesNeverBlock ==
  \A fd \in Fds(acceptSockets \cup {listenSocket, connectSocket}) : ~descriptors[fd].blocking

\* A server that is not running does not listen: nobody connects to a process
\* that will not accept, and its port is free for the next start.
StoppedIsSilent ==
  serverEngine = "none" =>
    \A fd \in DOMAIN descriptors : descriptors[fd].state # "listening"
=============================================================================
