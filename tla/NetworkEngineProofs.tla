------------------------- MODULE NetworkEngineProofs -------------------------
(***************************************************************************)
(* The engines of a process: their clock, for every set of tick rates and  *)
(* however long ticks take; WSA, which stays initialized while the process *)
(* has an engine; and their descriptors, whatever step of a start, a stop, *)
(* a connect or an accept fails.                                           *)
(***************************************************************************)
EXTENDS TickClock, EngineHost, SocketsProofs, TLAPS

\* A whole number of ticks and less than one more: the number of ticks due.
LEMMA TicksDue ==
  ASSUME NEW d \in Nat \ {0}, NEW q \in Nat, NEW r \in 0..(d - 1), NEW t \in Nat, r + q * d = t
  PROVE  q = t \div d
  OBVIOUS

\* A rate of zero has an infinite delta, every other one a delta of some time.
LEMMA DeltaOfRate ==
  ASSUME NEW r \in Rates
  PROVE  /\ DeltaOf(r) \in Nat \cup {Infinite}
         /\ DeltaOf(r) # 0
         /\ Infinite \notin Nat
  <1>1. CASE r = 0
    BY <1>1 DEF DeltaOf, Infinite
  <1>2. CASE r # 0
    BY <1>2, ClockAssumption DEF DeltaOf, Infinite, ClockAssumption
  <1>3. QED
    BY <1>1, <1>2

\* A new engine satisfies the invariant.
LEMMA InitClockInv == ClockInit => ClockInv
  <1> SUFFICES ASSUME ClockInit PROVE ClockInv
    OBVIOUS
  <1>1. fixedDelta \in Nat \cup {Infinite} /\ ended * fixedDelta = 0
    <2>1. CASE knowsRate
      BY <2>1, DeltaOfRate DEF ClockInit, Engine, Infinite
    <2>2. CASE ~knowsRate
      BY <2>2 DEF ClockInit, Engine
    <2>3. QED
      BY <2>1, <2>2
  <1>2. fixedDelta = (IF knowsRate THEN DeltaOf(tickRate) ELSE 0) /\ knowsRate \in BOOLEAN
    BY DEF ClockInit, Engine
  <1>3. knowsRate => tickRate \in Rates
    BY DEF ClockInit, Engine
  <1>4. QED
    BY <1>1, <1>2, <1>3
    DEF ClockInit, Engine, ClockInv, TimeIsAccounted, TicksArePaired, Ticking

\* Every step keeps the invariant.
LEMMA NextClockInv == ClockInv /\ [ClockNext]_clockVars => ClockInv'
  <1> SUFFICES ASSUME ClockInv, [ClockNext]_clockVars PROVE ClockInv'
    OBVIOUS
  <1> USE DEF ClockInv, TimeIsAccounted, TicksArePaired, Ticking, CanUpdateNetcode, Due
  <1>1. CASE TimePasses
    BY <1>1, ClockAssumption DEF TimePasses, ClockAssumption
  <1>2. CASE UpdateElapsedTime
    BY <1>2 DEF UpdateElapsedTime
  <1>3. CASE BeginUpdate
    BY <1>3 DEF BeginUpdate
  <1>4. CASE InnerLoopEnds
    <2>1. fixedDelta > 0 => elapsed < fixedDelta
      BY <1>4 DEF InnerLoopEnds, Infinite
    <2>2. at' = "outer" /\ at = "inner"
      BY <1>4 DEF InnerLoopEnds
    <2>3. UNCHANGED <<now, tickRate, fixedDelta, elapsed, lastUpdate, currentTick, knowsRate,
                      resetAt, ended, early>>
      BY <1>4 DEF InnerLoopEnds
    <2>4. QED
      BY <2>1, <2>2, <2>3
  <1>5. CASE EndUpdate
    <2>1. /\ at' = "inner" /\ CanUpdateNetcode
          /\ elapsed' = elapsed - fixedDelta /\ ended' = ended + 1
          /\ fixedDelta \in Nat
      BY <1>5 DEF EndUpdate, TimeLeft
    <2>2. (ended + 1) * fixedDelta = ended * fixedDelta + fixedDelta
      BY <2>1
    <2>3. ended * fixedDelta \in Nat
      BY <2>1
    <2>4. TimeIsAccounted'
      BY <1>5, <2>1, <2>2, <2>3 DEF EndUpdate
    <2>5. fixedDelta = 0 => elapsed' = lastUpdate - resetAt
      BY <2>1
    <2>6. QED
      BY <1>5, <2>1, <2>4, <2>5 DEF EndUpdate
  <1>6. CASE EndUpdateInitializes
    <2>1. PICK r \in Rates :
            /\ tickRate' = r /\ fixedDelta' = DeltaOf(r) /\ knowsRate' = TRUE
            /\ lastUpdate' = now /\ resetAt' = now /\ early' = currentTick
            /\ IF Due(DeltaOf(r), ResetElapsed)
               THEN elapsed' = TimeLeft(DeltaOf(r), ResetElapsed) /\ ended' = 1
               ELSE elapsed' = ResetElapsed /\ ended' = 0
      BY <1>6 DEF EndUpdateInitializes
    <2>2. fixedDelta' \in (Nat \ {0}) \cup {Infinite}
      BY <2>1, DeltaOfRate
    <2>3. elapsed' = 0 /\ ended' = 0
      BY <2>1, <2>2 DEF ResetElapsed
    <2>4. \A d \in (Nat \ {0}) \cup {-1} : 0 * d = 0
      OBVIOUS
    <2>5. at' = "inner" /\ now' = now /\ currentTick' = currentTick
      BY <1>6 DEF EndUpdateInitializes
    <2>6. TimeIsAccounted'
      BY <2>1, <2>2, <2>3, <2>4, <2>5 DEF Infinite
    <2>7. currentTick \in Nat /\ now \in Nat
      OBVIOUS
    <2>8. QED
      BY <2>1, <2>2, <2>3, <2>5, <2>6, <2>7
  <1>7. CASE UNCHANGED clockVars
    BY <1>7 DEF clockVars
  <1>8. QED
    BY <1>1, <1>2, <1>3, <1>4, <1>5, <1>6, <1>7 DEF ClockNext, Loop

\* The loop has run every tick that was due when the invariant holds.
LEMMA InvCatchesUp == ClockInv => CaughtUp
  <1> SUFFICES ASSUME ClockInv, at = "outer", fixedDelta > 0
               PROVE  ended = (lastUpdate - resetAt) \div fixedDelta
    BY DEF CaughtUp
  <1>1. fixedDelta \in Nat \ {0} /\ ended \in Nat /\ elapsed \in 0..(fixedDelta - 1)
    BY DEF ClockInv, Infinite
  <1>2. lastUpdate - resetAt \in Nat /\ elapsed + ended * fixedDelta = lastUpdate - resetAt
    BY <1>1 DEF ClockInv, TimeIsAccounted, Infinite
  <1>3. QED
    BY <1>1, <1>2, TicksDue

-----------------------------------------------------------------------------
\* The invariant holds in every state of the clock.
THEOREM ClockSafety == ClockSpec => []ClockInv
  <1>1. QED
    BY InitClockInv, NextClockInv, PTL DEF ClockSpec

\* updateElapsedTime and endUpdate neither lose time nor count it twice.
THEOREM TimeIsKept == ClockSpec => []TimeIsAccounted
  <1>1. ClockInv => TimeIsAccounted
    BY DEF ClockInv
  <1>2. QED
    BY ClockSafety, <1>1, PTL

\* beginUpdate and endUpdate agree on every tick but the one in which the
\* client learns the rate.
THEOREM TicksPair == ClockSpec => []TicksArePaired
  <1>1. ClockInv => TicksArePaired
    BY DEF ClockInv
  <1>2. QED
    BY ClockSafety, <1>1, PTL

\* The loop of a program has run every tick that was due when it looks at the
\* clock again, and no more.
THEOREM LoopCatchesUp == ClockSpec => []CaughtUp
  <1>1. QED
    BY ClockSafety, InvCatchesUp, PTL

-----------------------------------------------------------------------------
\* What the proof needs to know of the two engines.
EnginesInv ==
  /\ wsa \in Nat
  /\ serverEngine \in {"none", "listening"}
  /\ clientEngine \in {"none", "connected", "lost"}
  /\ WsaCoversEngines

\* A process begins without engines.
LEMMA InitEnginesInv == HostInit => EnginesInv
  BY DEF HostInit, EnginesInv, WsaCoversEngines, Engines

\* No start, stop or loss takes away what an engine needs.
LEMMA NextEnginesInv == EnginesInv /\ [HostNext]_hostVars => EnginesInv'
  <1> SUFFICES ASSUME EnginesInv, [HostNext]_hostVars PROVE EnginesInv'
    OBVIOUS
  <1> USE DEF EnginesInv, WsaCoversEngines, Engines
  <1>1. CASE ServerStartFailsAtOnce
    BY <1>1 DEF ServerStartFailsAtOnce, hostVars
  <1>2. CASE ServerStart
    <2>1. /\ serverEngine = "none" /\ wsa' = wsa + 1 /\ UNCHANGED clientEngine
          /\ serverEngine' = "listening" \/ UNCHANGED serverEngine
      BY <1>2 DEF ServerStart
    <2>2. QED
      BY <2>1
  <1>3. CASE ServerStop
    BY <1>3 DEF ServerStop, CleanedUp
  <1>4. CASE ServerAccepts
    BY <1>4 DEF ServerAccepts
  <1>5. CASE ServerDisconnects
    BY <1>5 DEF ServerDisconnects
  <1>6. CASE ListenerIsReady
    BY <1>6 DEF ListenerIsReady
  <1>7. CASE ClientConnectFailsAtOnce
    BY <1>7 DEF ClientConnectFailsAtOnce, NewClientEngine
  <1>8. CASE ClientConnect
    <2>1. /\ clientEngine # "connected" /\ wsa' = wsa + 1 /\ UNCHANGED serverEngine
          /\ clientEngine' \in {"none", "connected"}
      BY <1>8 DEF ClientConnect, NewClientEngine
    <2>2. QED
      BY <2>1
  <1>9. CASE ClientLoses
    BY <1>9 DEF ClientLoses
  <1>10. CASE ClientDisconnect
    BY <1>10 DEF ClientDisconnect, IsConnected, CleanedUp
  <1>11. CASE UNCHANGED hostVars
    BY <1>11 DEF hostVars
  <1>12. QED
    BY <1>1, <1>2, <1>3, <1>4, <1>5, <1>6, <1>7, <1>8, <1>9, <1>10, <1>11 DEF HostNext

\* Starting and stopping a Server and a Client in one process, in any order and
\* whatever fails, never ends WSA under a running engine.
THEOREM WsaIsCovered == HostSpec => []WsaCoversEngines
  <1>1. HostSpec => []EnginesInv
    BY InitEnginesInv, NextEnginesInv, PTL DEF HostSpec
  <1>2. EnginesInv => WsaCoversEngines
    BY DEF EnginesInv
  <1>3. QED
    BY <1>1, <1>2, PTL

-----------------------------------------------------------------------------
\* A component without a descriptor is an object that is closed.
LEMMA NoneObject ==
  ASSUME descriptors \in Tables
  PROVE  /\ Object(With(None)) /\ ~IsOpen(With(None)) /\ With(None).socket.kind = "tcp"
         /\ With(None).table = descriptors /\ With(None).socket.fd = Invalid
  BY DEF With, None, NewSocket, Object, WellKept, Views, SocketType, HasItsDescriptor, PortKnown,
     IsOpen

\* startTcpListenOnPort: on success a descriptor that listens and does not
\* block; on the way a failure may leave one, which the destructor closes.
LEMMA StartedEffect ==
  ASSUME descriptors \in Tables, NEW r \in Started
  PROVE  /\ Effect(With(None), r) /\ r.socket.kind = "tcp"
         /\ r.code = "Success" => /\ IsOpen(r) /\ Descriptor(r).state = "listening"
                                  /\ ~Descriptor(r).blocking
         /\ r.code = "LocksAgain" => IsOpen(r) /\ Descriptor(r).state = "bound"
  <1> DEFINE x == With(None)
             binds == BindSocket(x, Port)
             listens == Then(binds, ListenSocket)
  <1>1. /\ Object(x) /\ ~IsOpen(x) /\ x.socket.kind = "tcp" /\ Port \in Ports \cup {0}
    BY NoneObject, HostAssumption
  <1>2. ASSUME NEW b \in binds
        PROVE  /\ Effect(x, b) /\ b.code # "LocksAgain"
               /\ b.code = "Success" => IsOpen(b) /\ Descriptor(b).state = "bound"
    BY <1>1, TcpBindEffect
  <1>3. ASSUME NEW l \in listens
        PROVE  /\ Effect(x, l)
               /\ l.code = "Success" => IsOpen(l) /\ Descriptor(l).state = "listening"
               /\ l.code = "LocksAgain" => IsOpen(l) /\ Descriptor(l).state = "bound"
    <2>1. CASE l \in binds /\ l.code # "Success"
      BY <1>2, <2>1
    <2>2. CASE \E b \in binds : b.code = "Success" /\ l \in ListenSocket(b)
      <3>1. PICK b \in binds : b.code = "Success" /\ l \in ListenSocket(b)
        BY <2>2
      <3>2. Effect(x, b) /\ WellKept(b) /\ IsOpen(b) /\ Descriptor(b).state = "bound"
              /\ Descriptor(b) \in DescriptorType
        BY <1>2, <3>1, OpenDescriptor DEF Effect
      <3>3. /\ Effect(b, l) /\ l.socket = b.socket
            /\ l.code = "Success" =>
                 IsOpen(l) /\ Descriptor(l) = [Descriptor(b) EXCEPT !.state = "listening"]
            /\ l.code # "Success" => l.table = b.table
        BY <3>1, <3>2, ListenEffect
      <3>4. l.code = "Success" => Descriptor(l).state = "listening"
        BY <3>2, <3>3 DEF DescriptorType
      <3>5. l.code = "LocksAgain" => IsOpen(l) /\ Descriptor(l).state = "bound"
        BY <3>2, <3>3 DEF IsOpen, Descriptor
      <3>6. QED
        BY <3>2, <3>3, <3>4, <3>5, EffectsFollow
    <2>3. QED
      BY <2>1, <2>2 DEF Then
  <1>4. CASE r \in listens /\ r.code # "Success"
    BY <1>1, <1>3, <1>4 DEF Effect, Keeps
  <1>5. CASE \E l \in listens : l.code = "Success" /\ r \in NonBlocking(l)
    <2>1. PICK l \in listens : l.code = "Success" /\ r \in SetBlocking(l, FALSE)
      BY <1>5 DEF NonBlocking
    <2>2. Effect(x, l) /\ WellKept(l) /\ IsOpen(l) /\ Descriptor(l).state = "listening"
            /\ Descriptor(l) \in DescriptorType
      BY <1>3, <2>1, OpenDescriptor DEF Effect
    <2>3. /\ Effect(l, r) /\ r.code # "LocksAgain"
          /\ r.code = "Success" =>
               IsOpen(r) /\ Descriptor(r) = [Descriptor(l) EXCEPT !.blocking = FALSE]
      BY <2>1, <2>2, SetBlockingEffect
    <2>4. r.code = "Success" => Descriptor(r).state = "listening" /\ ~Descriptor(r).blocking
      BY <2>2, <2>3 DEF DescriptorType
    <2>5. Effect(x, r)
      BY <2>2, <2>3, EffectsFollow
    <2>6. QED
      BY <1>1, <2>3, <2>4, <2>5 DEF Effect, Keeps
  <1>6. QED
    <2>1. Started = Then(listens, NonBlocking)
      BY DEF Started
    <2>2. QED
      BY <2>1, <1>4, <1>5 DEF Then

\* startTcpConnectToAddress: on success a descriptor that is connected and does
\* not block.
LEMMA ConnectedEffect ==
  ASSUME descriptors \in Tables, NEW r \in Connected
  PROVE  /\ Effect(With(None), r) /\ r.socket.kind = "tcp"
         /\ r.code = "Success" => /\ IsOpen(r) /\ Descriptor(r).state = "connected"
                                  /\ ~Descriptor(r).blocking
  <1> DEFINE x == With(None)
             connects == ConnectTo(x)
  <1>1. Object(x) /\ ~IsOpen(x) /\ x.socket.kind = "tcp"
    BY NoneObject
  <1>2. ASSUME NEW c \in connects
        PROVE  /\ Effect(x, c)
               /\ c.code = "Success" => IsOpen(c) /\ Descriptor(c).state = "connected"
    BY <1>1, ConnectEffect
  <1>3. CASE r \in connects /\ r.code # "Success"
    BY <1>1, <1>2, <1>3 DEF Effect, Keeps
  <1>4. CASE \E c \in connects : c.code = "Success" /\ r \in NonBlocking(c)
    <2>1. PICK c \in connects : c.code = "Success" /\ r \in SetBlocking(c, FALSE)
      BY <1>4 DEF NonBlocking
    <2>2. Effect(x, c) /\ WellKept(c) /\ IsOpen(c) /\ Descriptor(c).state = "connected"
            /\ Descriptor(c) \in DescriptorType
      BY <1>2, <2>1, OpenDescriptor DEF Effect
    <2>3. /\ Effect(c, r)
          /\ r.code = "Success" =>
               IsOpen(r) /\ Descriptor(r) = [Descriptor(c) EXCEPT !.blocking = FALSE]
      BY <2>1, <2>2, SetBlockingEffect
    <2>4. r.code = "Success" => Descriptor(r).state = "connected" /\ ~Descriptor(r).blocking
      BY <2>2, <2>3 DEF DescriptorType
    <2>5. Effect(x, r)
      BY <2>2, <2>3, EffectsFollow
    <2>6. QED
      BY <1>1, <2>3, <2>4, <2>5 DEF Effect, Keeps
  <1>5. QED
    <2>1. Connected = Then(connects, NonBlocking)
      BY DEF Connected
    <2>2. QED
      BY <2>1, <1>3, <1>4 DEF Then

\* What a method made of an unused socket is a descriptor of its own.
LEMMA NewDescriptor ==
  ASSUME descriptors \in Tables, NEW r, Effect(With(None), r), r.socket.kind = "tcp"
  PROVE  /\ r.socket \in SocketType /\ r.socket.port = 0 /\ r.table \in Tables
         /\ IsOpen(r) => /\ r.socket.fd \in Descriptors \ DOMAIN descriptors
                         /\ DOMAIN r.table = DOMAIN descriptors \cup {r.socket.fd}
         /\ \A fd \in DOMAIN descriptors : r.table[fd] = descriptors[fd]
         /\ Destructed(r).table = descriptors
  <1> DEFINE x == With(None)
  <1>1. x.socket.fd = Invalid /\ x.table = descriptors /\ Invalid \notin DOMAIN descriptors
    BY NoneObject, TablesKeepType, SocketsAssumption
  <1>2. r \in Views /\ HasItsDescriptor(r) /\ r.socket.port = 0 /\ Keeps(x, r)
    BY DEF Effect, WellKept, PortKnown
  <1> HIDE DEF x
  <1>3. /\ r.socket \in SocketType /\ r.table \in Tables
        /\ \A fd \in DOMAIN r.table : fd \in Descriptors
    BY <1>2, Fields, TablesKeepType
  <1>4. /\ DOMAIN r.table \ {r.socket.fd} = DOMAIN descriptors
        /\ \A fd \in DOMAIN descriptors : r.table[fd] = descriptors[fd]
        /\ IsOpen(r) => r.socket.fd \notin DOMAIN descriptors
    BY <1>1, <1>2 DEF Keeps, IsOpen
  <1>5. IsOpen(r) => r.socket.fd \in DOMAIN r.table
    BY <1>2 DEF HasItsDescriptor
  <1>6. Destructed(r).table = descriptors
    <2>1. Destructed(r).table = Erase(r.table, r.socket.fd)
      BY <1>2, CloseFields DEF Destructed
    <2>2. Erase(r.table, r.socket.fd) = descriptors
      BY <1>4 DEF Erase, Tables
    <2>3. QED
      BY <2>1, <2>2
  <1>7. QED
    BY <1>2, <1>3, <1>4, <1>5, <1>6

\* The sockets of the components.
Used == acceptSockets \cup {listenSocket, connectSocket}

\* The sockets of components are TcpSockets.
TcpSocketRecords == {s \in SocketType : s.kind = "tcp" /\ s.port = 0}

\* The inductive invariant of a process with two engines: the listening
\* descriptor is the one of the server's component, and an engine that was
\* stopped has no component.
HostInv ==
  /\ descriptors \in Tables
  /\ Used \subseteq TcpSocketRecords
  /\ \A s \in acceptSockets : s.fd # Invalid
  /\ serverEngine \in {"none", "listening"}
  /\ clientEngine \in {"none", "connected", "lost"}
  /\ serverEngine = "none" => listenSocket = None /\ acceptSockets = {}
  /\ serverEngine = "listening" =>
       listenSocket.fd # Invalid /\ descriptors[listenSocket.fd].state = "listening"
  /\ clientEngine = "none" => connectSocket = None
  /\ clientEngine # "none" => connectSocket.fd # Invalid
  /\ \A fd \in DOMAIN descriptors : descriptors[fd].state = "listening" => fd = listenSocket.fd
  /\ DescriptorsAccounted
  /\ EnginesNeverBlock

\* A process begins without components.
LEMMA InitHostInv == HostInit => HostInv
  <1> SUFFICES ASSUME HostInit PROVE HostInv
    OBVIOUS
  <1>1. descriptors \in Tables
    BY DEF HostInit, EmptyMap, Tables
  <1>2. None \in TcpSocketRecords /\ None.fd = Invalid
    BY DEF None, NewSocket, TcpSocketRecords, SocketType
  <1>3. DescriptorsAccounted /\ EnginesNeverBlock
    BY <1>2 DEF HostInit, DescriptorsAccounted, EnginesNeverBlock, Fds, EmptyMap
  <1>4. QED
    BY <1>1, <1>2, <1>3 DEF HostInit, HostInv, Used, EmptyMap

\* A start makes one descriptor, which is the component's, hangs, or is closed.
LEMMA ServerStartKeeps == HostInv /\ ServerStart => HostInv'
  <1> SUFFICES ASSUME HostInv, ServerStart PROVE HostInv'
    OBVIOUS
  <1>1. PICK r \in Started :
       \/ /\ r.code = "Success"
          /\ serverEngine' = "listening" /\ listenSocket' = r.socket
          /\ descriptors' = r.table /\ UNCHANGED hung
       \/ /\ r.code = "LocksAgain"
          /\ hung' = hung \cup {r.socket.fd}
          /\ descriptors' = r.table /\ UNCHANGED <<serverEngine, listenSocket>>
       \/ /\ r.code \notin {"Success", "LocksAgain"}
          /\ descriptors' = Destructed(r).table /\ UNCHANGED <<serverEngine, listenSocket, hung>>
    BY DEF ServerStart
  <1>2. /\ serverEngine = "none" /\ UNCHANGED <<acceptSockets, clientEngine, connectSocket, left>>
        /\ listenSocket = None /\ acceptSockets = {} /\ None.fd = Invalid
        /\ descriptors \in Tables
        /\ connectSocket.fd # Invalid => connectSocket.fd \in DOMAIN descriptors
    BY DEF ServerStart, HostInv, None, NewSocket, DescriptorsAccounted, Fds
  <1>3. /\ Effect(With(None), r) /\ r.socket.kind = "tcp"
        /\ r.code = "Success" => /\ IsOpen(r) /\ Descriptor(r).state = "listening"
                                 /\ ~Descriptor(r).blocking
        /\ r.code = "LocksAgain" => IsOpen(r) /\ Descriptor(r).state = "bound"
    BY <1>2, StartedEffect
  <1>4. /\ r.socket \in SocketType /\ r.socket.port = 0 /\ r.table \in Tables
        /\ IsOpen(r) => /\ r.socket.fd \in Descriptors \ DOMAIN descriptors
                        /\ DOMAIN r.table = DOMAIN descriptors \cup {r.socket.fd}
        /\ \A fd \in DOMAIN descriptors : r.table[fd] = descriptors[fd]
        /\ Destructed(r).table = descriptors
    BY <1>2, <1>3, NewDescriptor
  <1>5. \A fd \in DOMAIN descriptors : descriptors[fd].state # "listening"
    BY <1>2, TablesKeepType, SocketsAssumption DEF HostInv
  <1>6. CASE /\ r.code = "Success"
             /\ serverEngine' = "listening" /\ listenSocket' = r.socket
             /\ descriptors' = r.table /\ UNCHANGED hung
    <2>1. IsOpen(r) /\ descriptors'[r.socket.fd].state = "listening"
            /\ ~descriptors'[r.socket.fd].blocking
          /\ r.socket.fd # Invalid
      BY <1>3, <1>6 DEF Descriptor, IsOpen
    <2>2. DescriptorsAccounted'
      <3>1. /\ DOMAIN descriptors = Fds({connectSocket}) \cup left \cup hung
            /\ (left \cup hung) \cap Fds({connectSocket}) = {}
        BY <1>2 DEF HostInv, DescriptorsAccounted, Fds
      <3>2. (acceptSockets \cup {listenSocket, connectSocket})' = {r.socket, connectSocket}
        BY <1>2, <1>6
      <3>3. Fds({r.socket, connectSocket}) = {r.socket.fd} \cup Fds({connectSocket})
        BY <2>1 DEF Fds
      <3>4. r.socket.fd # connectSocket.fd
        BY <1>2, <1>4, <2>1
      <3>5. QED
        BY <1>2, <1>4, <1>6, <2>1, <3>1, <3>2, <3>3, <3>4 DEF DescriptorsAccounted, Fds
    <2>3. EnginesNeverBlock'
      BY <1>2, <1>4, <1>6, <2>1 DEF HostInv, EnginesNeverBlock, Fds
    <2>4. Used' \subseteq TcpSocketRecords
      BY <1>2, <1>3, <1>4, <1>6 DEF HostInv, Used, TcpSocketRecords
    <2>5. \A fd \in DOMAIN descriptors' : descriptors'[fd].state = "listening" =>
            fd = listenSocket'.fd
      BY <1>4, <1>5, <1>6, <2>1
    <2>6. QED
      BY <1>2, <1>4, <1>6, <2>1, <2>2, <2>3, <2>4, <2>5 DEF HostInv
  <1>7. CASE /\ r.code = "LocksAgain"
             /\ hung' = hung \cup {r.socket.fd}
             /\ descriptors' = r.table /\ UNCHANGED <<serverEngine, listenSocket>>
    <2>1. IsOpen(r) /\ descriptors'[r.socket.fd].state = "bound" /\ r.socket.fd # Invalid
      BY <1>3, <1>7 DEF Descriptor, IsOpen
    <2>2. DescriptorsAccounted'
      BY <1>2, <1>4, <1>7, <2>1 DEF HostInv, DescriptorsAccounted, Fds
    <2>3. EnginesNeverBlock'
      BY <1>2, <1>4, <1>7 DEF HostInv, EnginesNeverBlock, Fds
    <2>4. \A fd \in DOMAIN descriptors' : descriptors'[fd].state # "listening"
      BY <1>4, <1>5, <1>7, <2>1
    <2>5. QED
      BY <1>2, <1>4, <1>7, <2>2, <2>3, <2>4 DEF HostInv, Used
  <1>8. CASE /\ r.code \notin {"Success", "LocksAgain"}
             /\ descriptors' = Destructed(r).table
                  /\ UNCHANGED <<serverEngine, listenSocket, hung>>
    BY <1>2, <1>4, <1>8 DEF HostInv, DescriptorsAccounted, EnginesNeverBlock, Used
  <1>9. QED
    BY <1>1, <1>6, <1>7, <1>8

\* A stop closes the listening descriptor, and the others leave the world.
LEMMA ServerStopKeeps == HostInv /\ ServerStop => HostInv'
  <1> SUFFICES ASSUME HostInv, ServerStop PROVE HostInv'
    OBVIOUS
  <1>1. /\ serverEngine = "listening" /\ serverEngine' = "none"
        /\ descriptors' = ClosedListener
        /\ listenSocket' = None /\ acceptSockets' = {}
        /\ left' = left \cup Fds(acceptSockets)
        /\ UNCHANGED <<clientEngine, connectSocket, hung>>
    BY DEF ServerStop
  <1>2. /\ descriptors \in Tables /\ listenSocket \in SocketType /\ listenSocket.fd # Invalid
        /\ None.fd = Invalid /\ None \in TcpSocketRecords
    BY <1>1 DEF HostInv, Used, TcpSocketRecords, None, NewSocket, SocketType
  <1>3. ClosedListener = Erase(descriptors, listenSocket.fd)
    <2>1. With(listenSocket) \in Views /\ With(listenSocket).socket = listenSocket
            /\ With(listenSocket).table = descriptors
      BY <1>2 DEF With, Views
    <2>2. QED
      BY <2>1, CloseFields DEF ClosedListener
  <1>4. /\ DOMAIN descriptors' = DOMAIN descriptors \ {listenSocket.fd}
        /\ \A fd \in DOMAIN descriptors' : descriptors'[fd] = descriptors[fd]
        /\ descriptors' \in Tables
    BY <1>1, <1>2, <1>3, TablesKeepType DEF Erase
  <1>5. DescriptorsAccounted'
    <2>1. /\ DOMAIN descriptors = Fds(acceptSockets) \cup {listenSocket.fd}
               \cup Fds({connectSocket}) \cup left \cup hung
          /\ (left \cup hung) \cap (Fds(acceptSockets) \cup {listenSocket.fd}
               \cup Fds({connectSocket})) = {}
          /\ listenSocket.fd \notin Fds(acceptSockets)
               /\ listenSocket.fd \notin Fds({connectSocket})
          /\ Fds(acceptSockets) \cap Fds({connectSocket}) = {}
      BY <1>2 DEF HostInv, DescriptorsAccounted, Fds
    <2>2. (acceptSockets \cup {listenSocket, connectSocket})' = {None, connectSocket}
      BY <1>1
    <2>3. Fds({None, connectSocket}) = Fds({connectSocket}) /\ Fds({None}) = {} /\ Fds({}) = {}
      BY <1>2 DEF Fds
    <2>4. DOMAIN descriptors' = Fds({connectSocket}) \cup left' \cup hung
      BY <1>1, <1>4, <2>1
    <2>5. (left' \cup hung) \cap Fds({connectSocket}) = {}
      BY <1>1, <2>1
    <2>6. QED
      BY <1>1, <2>2, <2>3, <2>4, <2>5 DEF DescriptorsAccounted
  <1>6. EnginesNeverBlock'
    <2>1. \A fd \in Fds({connectSocket}) : fd \in DOMAIN descriptors' /\ ~descriptors[fd].blocking
      BY <1>1, <1>2, <1>5 DEF HostInv, DescriptorsAccounted, EnginesNeverBlock, Fds
    <2>2. QED
      BY <1>1, <1>2, <1>4, <2>1 DEF EnginesNeverBlock, Fds
  <1>7. \A fd \in DOMAIN descriptors' : descriptors'[fd].state # "listening"
    BY <1>4 DEF HostInv
  <1>8. Used' \subseteq TcpSocketRecords
    BY <1>1, <1>2 DEF HostInv, Used
  <1>9. QED
    BY <1>1, <1>4, <1>5, <1>6, <1>7, <1>8 DEF HostInv

\* What the descriptors' account says, without its sets.
LEMMA Account ==
  ASSUME HostInv
  PROVE  /\ \A s \in Used : s.fd # Invalid =>
              s.fd \in DOMAIN descriptors /\ ~descriptors[s.fd].blocking
         /\ \A s \in acceptSockets :
              s.fd # listenSocket.fd /\ s.fd # connectSocket.fd /\ s.fd # Invalid
         /\ listenSocket.fd # Invalid => listenSocket.fd # connectSocket.fd
         /\ \A fd \in left \cup hung : fd \in DOMAIN descriptors /\ \A s \in Used : s.fd # fd
  <1>1. /\ DOMAIN descriptors = Fds(Used) \cup left \cup hung
        /\ (left \cup hung) \cap Fds(Used) = {}
        /\ Fds({listenSocket}) \cap Fds({connectSocket}) = {}
        /\ Fds(acceptSockets) \cap Fds({listenSocket, connectSocket}) = {}
    BY DEF HostInv, DescriptorsAccounted, Used
  <1>2. Invalid \notin DOMAIN descriptors
    BY SocketsAssumption, TablesKeepType DEF HostInv
  <1>3. \A s \in Used : s.fd # Invalid => s.fd \in Fds(Used)
    BY DEF Fds
  <1>4. \A s \in Used : s.fd # Invalid =>
          s.fd \in DOMAIN descriptors /\ ~descriptors[s.fd].blocking
    <2>1. \A fd \in Fds(Used) : ~descriptors[fd].blocking
      BY DEF HostInv, EnginesNeverBlock, Used
    <2>2. QED
      BY <1>1, <1>3, <2>1
  <1>5. \A s \in acceptSockets : s.fd # Invalid
    BY DEF HostInv
  <1>6. ASSUME NEW s \in acceptSockets
        PROVE  s.fd # listenSocket.fd /\ s.fd # connectSocket.fd
    <2>1. s.fd \in Fds(acceptSockets)
      BY <1>5 DEF Fds
    <2>2. s.fd \notin Fds({listenSocket, connectSocket})
      BY <1>1, <2>1
    <2>3. QED
      BY <1>5, <2>2 DEF Fds
  <1>7. listenSocket.fd # Invalid => listenSocket.fd # connectSocket.fd
    BY <1>1 DEF Fds
  <1>8. ASSUME NEW fd \in left \cup hung
        PROVE  fd \in DOMAIN descriptors /\ \A s \in Used : s.fd # fd
    BY <1>1, <1>2, <1>3
  <1>9. QED
    BY <1>4, <1>5, <1>6, <1>7, <1>8

\* A new connection has a new descriptor, which is kept or closed.
LEMMA ServerAcceptsKeeps == HostInv /\ ServerAccepts => HostInv'
  <1> SUFFICES ASSUME HostInv, ServerAccepts PROVE HostInv'
    OBVIOUS
  <1> DEFINE x == With(listenSocket)
             y == Change(x, [Descriptor(x) EXCEPT !.input = "nothing"])
  <1>1. PICK a \in Accepted(x) :
          \E r \in NonBlocking([socket |-> [None EXCEPT !.fd = a.fd], table |-> a.table]) :
            IF r.code = "Success"
            THEN acceptSockets' = acceptSockets \cup {r.socket} /\ descriptors' = r.table
            ELSE descriptors' = Close(r).table /\ UNCHANGED acceptSockets
    BY DEF ServerAccepts
  <1> DEFINE k == [None EXCEPT !.fd = a.fd]
             z == [socket |-> k, table |-> a.table]
  <1>2. PICK r \in SetBlocking(z, FALSE) :
            IF r.code = "Success"
            THEN acceptSockets' = acceptSockets \cup {r.socket} /\ descriptors' = r.table
            ELSE descriptors' = Close(r).table /\ UNCHANGED acceptSockets
    BY <1>1 DEF NonBlocking
  <1>3. /\ serverEngine = "listening" /\ MayAccept(x)
        /\ UNCHANGED <<serverEngine, listenSocket, clientEngine, connectSocket, left, hung>>
    BY DEF ServerAccepts
  <1>4. /\ WellKept(x) /\ x.socket = listenSocket /\ x.table = descriptors
        /\ descriptors \in Tables /\ listenSocket.fd # Invalid
    <2>1. /\ listenSocket \in TcpSocketRecords /\ descriptors \in Tables
          /\ listenSocket.fd # Invalid /\ listenSocket.fd \in DOMAIN descriptors
      BY <1>3, Account DEF HostInv, Used
    <2>2. QED
      BY <2>1 DEF With, WellKept, Views, HasItsDescriptor, PortKnown, TcpSocketRecords
  <1>5. /\ Effect(x, y) /\ y.socket = x.socket /\ DOMAIN y.table = DOMAIN x.table
        /\ Descriptor(y) = [Descriptor(x) EXCEPT !.input = "nothing"]
        /\ a.fd \in Descriptors \ DOMAIN y.table
        /\ a.table \in Tables
        /\ DOMAIN a.table = DOMAIN y.table \cup {a.fd}
        /\ \A g \in DOMAIN y.table : a.table[g] = y.table[g]
        /\ a.table[a.fd].state = "connected"
    BY <1>3, <1>4, AcceptedEffect
  <1> HIDE DEF y, x
  <1>6. /\ a.fd \in Descriptors \ DOMAIN descriptors /\ a.fd # Invalid
        /\ a.table \in Tables /\ DOMAIN a.table = DOMAIN descriptors \cup {a.fd}
        /\ \A g \in DOMAIN descriptors : /\ a.table[g].state = descriptors[g].state
                                         /\ a.table[g].blocking = descriptors[g].blocking
        /\ a.table[a.fd].state = "connected"
    <2>1. \A g \in DOMAIN descriptors \ {listenSocket.fd} : y.table[g] = descriptors[g]
      BY <1>4, <1>5 DEF Effect, Keeps
    <2>2. Descriptor(x) \in DescriptorType /\ Descriptor(x) = descriptors[listenSocket.fd]
      BY <1>3, <1>4, OpenDescriptor DEF MayAccept
    <2>3. /\ y.table[listenSocket.fd].state = descriptors[listenSocket.fd].state
          /\ y.table[listenSocket.fd].blocking = descriptors[listenSocket.fd].blocking
      BY <1>4, <1>5, <2>2 DEF Descriptor, DescriptorType
    <2>4. QED
      BY <1>4, <1>5, <2>1, <2>3, SocketsAssumption
  <1>7. k \in SocketType /\ k.kind = "tcp" /\ k.port = 0 /\ k.fd = a.fd
    BY <1>6 DEF None, NewSocket, SocketType
  <1> HIDE DEF k
  <1>8. WellKept(z) /\ IsOpen(z) /\ z.socket = k /\ z.table = a.table
    BY <1>6, <1>7 DEF WellKept, Views, HasItsDescriptor, PortKnown, IsOpen
  <1> HIDE DEF z
  <1>9. /\ Effect(z, r) /\ r.socket.fd = a.fd
        /\ r.code = "Success" => Descriptor(r) = [Descriptor(z) EXCEPT !.blocking = FALSE]
        /\ r.code # "Success" => r.table = a.table
    BY <1>7, <1>8, SetBlockingEffect
  <1>10. /\ r.socket \in TcpSocketRecords /\ r.table \in Tables /\ r \in Views
         /\ DOMAIN r.table = DOMAIN a.table
         /\ \A g \in DOMAIN descriptors : r.table[g] = a.table[g]
    <2>1. r \in Views /\ PortKnown(r) /\ HasItsDescriptor(r) /\ IsOpen(r) /\ Keeps(z, r)
      BY <1>6, <1>9 DEF Effect, WellKept, IsOpen
    <2>2. r.socket.kind = "tcp" /\ r.socket.port = 0 /\ a.fd \in DOMAIN r.table
      BY <1>7, <1>8, <1>9, <2>1 DEF PortKnown, HasItsDescriptor, Keeps
    <2>3. DOMAIN r.table \ {a.fd} = DOMAIN a.table \ {a.fd} /\ \A g \in DOMAIN a.table \ {a.fd} :
            r.table[g] = a.table[g]
      BY <1>7, <1>8, <1>9, <2>1 DEF Keeps
    <2>4. QED
      BY <1>6, <2>1, <2>2, <2>3, Fields DEF TcpSocketRecords
  <1>11. CASE /\ r.code = "Success"
              /\ acceptSockets' = acceptSockets \cup {r.socket} /\ descriptors' = r.table
    <2>1. descriptors'[a.fd].state = "connected" /\ ~descriptors'[a.fd].blocking
      <3>1. Descriptor(z) \in DescriptorType /\ Descriptor(z) = a.table[a.fd]
        BY <1>7, <1>8, OpenDescriptor
      <3>2. Descriptor(r) = descriptors'[a.fd]
              /\ Descriptor(r) = [Descriptor(z) EXCEPT !.blocking = FALSE]
        BY <1>9, <1>11 DEF Descriptor
      <3>3. QED
        BY <1>6, <3>1, <3>2 DEF DescriptorType
    <2>2. /\ DOMAIN descriptors' = DOMAIN descriptors \cup {a.fd}
          /\ \A g \in DOMAIN descriptors : /\ descriptors'[g].state = descriptors[g].state
                                           /\ descriptors'[g].blocking = descriptors[g].blocking
      BY <1>6, <1>10, <1>11
    <2>3. DescriptorsAccounted'
      <3>1. Fds(acceptSockets') = Fds(acceptSockets) \cup {a.fd}
        BY <1>6, <1>9, <1>11 DEF Fds
      <3>2. Fds((acceptSockets \cup {listenSocket, connectSocket})')
              = Fds(acceptSockets \cup {listenSocket, connectSocket}) \cup {a.fd}
        BY <1>3, <1>6, <1>9, <1>11 DEF Fds
      <3>3. \A s \in Used : s.fd # a.fd
        BY <1>6, Account
      <3>4. a.fd \notin left \cup hung /\ a.fd \notin Fds({listenSocket, connectSocket})
        BY <1>6, <3>3, Account DEF Used, Fds
      <3>5. \A s, q \in acceptSockets' : s.fd = q.fd => s = q
        BY <1>9, <1>11, <3>3 DEF HostInv, DescriptorsAccounted, Used
      <3>6. DOMAIN descriptors' = Fds((acceptSockets \cup {listenSocket, connectSocket})')
              \cup left' \cup hung'
        BY <1>3, <2>2, <3>2 DEF HostInv, DescriptorsAccounted
      <3>7. (left \cup hung)' \cap Fds((acceptSockets \cup {listenSocket, connectSocket})') = {}
        BY <1>3, <3>2, <3>4 DEF HostInv, DescriptorsAccounted
      <3>8. Fds(acceptSockets') \cap Fds({listenSocket, connectSocket}') = {}
        BY <1>3, <3>1, <3>4 DEF HostInv, DescriptorsAccounted
      <3>9. Fds({listenSocket}') \cap Fds({connectSocket}') = {}
        BY <1>3 DEF HostInv, DescriptorsAccounted
      <3>10. QED
        BY <3>5, <3>6, <3>7, <3>8, <3>9 DEF DescriptorsAccounted
    <2>4. EnginesNeverBlock'
      BY <1>3, <1>9, <1>11, <2>1, <2>2, Account DEF EnginesNeverBlock, Fds, Used
    <2>5. Used' \subseteq TcpSocketRecords /\ \A s \in acceptSockets' : s.fd # Invalid
      BY <1>3, <1>6, <1>9, <1>10, <1>11 DEF HostInv, Used
    <2>6. \A fd \in DOMAIN descriptors' : descriptors'[fd].state = "listening" =>
            fd = listenSocket'.fd
      BY <1>3, <2>1, <2>2 DEF HostInv
    <2>7. descriptors'[listenSocket.fd].state = "listening"
      BY <1>3, <1>4, <2>2, Account DEF HostInv, Used
    <2>8. QED
      BY <1>3, <1>4, <1>10, <1>11, <2>3, <2>4, <2>5, <2>6, <2>7 DEF HostInv
  <1>12. CASE /\ r.code # "Success"
              /\ descriptors' = Close(r).table /\ UNCHANGED acceptSockets
    <2>1. descriptors' = Erase(a.table, a.fd)
      BY <1>9, <1>10, <1>12, CloseFields
    <2>2. /\ DOMAIN descriptors' = DOMAIN descriptors /\ descriptors' \in Tables
          /\ \A g \in DOMAIN descriptors : /\ descriptors'[g].state = descriptors[g].state
                                           /\ descriptors'[g].blocking = descriptors[g].blocking
      BY <1>6, <2>1, TablesKeepType DEF Erase
    <2>3. DescriptorsAccounted'
      BY <1>3, <1>12, <2>2 DEF HostInv, DescriptorsAccounted
    <2>4. EnginesNeverBlock'
      BY <1>3, <1>12, <2>2, Account DEF EnginesNeverBlock, Fds, Used
    <2>5. descriptors'[listenSocket.fd].state = "listening"
      BY <1>3, <1>4, <2>2, Account DEF HostInv, Used
    <2>6. QED
      BY <1>3, <1>4, <1>12, <2>2, <2>3, <2>4, <2>5 DEF HostInv, Used
  <1>13. QED
    BY <1>2, <1>11, <1>12

\* A connection's component leaves the world with its descriptor.
LEMMA ServerDisconnectsKeeps == HostInv /\ ServerDisconnects => HostInv'
  <1> SUFFICES ASSUME HostInv, ServerDisconnects PROVE HostInv'
    OBVIOUS
  <1>1. PICK s \in acceptSockets :
               acceptSockets' = acceptSockets \ {s} /\ left' = left \cup {s.fd}
    BY DEF ServerDisconnects
  <1>2. UNCHANGED <<descriptors, serverEngine, listenSocket, clientEngine, connectSocket, hung>>
    BY DEF ServerDisconnects
  <1>3. \A q \in Used' : q \in Used /\ (q.fd = s.fd => q.fd = Invalid)
    BY <1>1, <1>2, Account DEF Used, HostInv, DescriptorsAccounted
  <1>4. s.fd # Invalid /\ s.fd \in DOMAIN descriptors
    BY Account DEF Used
  <1>5. Fds(Used') = Fds(Used) \ {s.fd}
    BY <1>1, <1>2, <1>3 DEF Fds, Used
  <1>6. DescriptorsAccounted'
    <2>1. DOMAIN descriptors = Fds(Used) \cup left \cup hung
            /\ (left \cup hung) \cap Fds(Used) = {}
      BY DEF HostInv, DescriptorsAccounted, Used
    <2>2. s.fd \in Fds(Used)
      BY <1>4 DEF Fds, Used
    <2>3. DOMAIN descriptors' = Fds(Used') \cup left' \cup hung'
            /\ (left' \cup hung') \cap Fds(Used') = {}
      BY <1>1, <1>2, <1>5, <2>1, <2>2
    <2>4. Fds(acceptSockets') \subseteq Fds(acceptSockets)
      BY <1>1 DEF Fds
    <2>5. QED
      BY <1>1, <1>2, <2>3, <2>4 DEF HostInv, DescriptorsAccounted, Used
  <1>7. EnginesNeverBlock'
    BY <1>2, <1>3, Account DEF EnginesNeverBlock, Fds, Used
  <1>8. QED
    BY <1>1, <1>2, <1>3, <1>6, <1>7 DEF HostInv

\* A connection that arrives changes neither state nor mode.
LEMMA ListenerIsReadyKeeps == HostInv /\ ListenerIsReady => HostInv'
  <1> SUFFICES ASSUME HostInv, ListenerIsReady PROVE HostInv'
    OBVIOUS
  <1>1. /\ serverEngine = "listening"
        /\ descriptors' = [descriptors EXCEPT ![listenSocket.fd].input = "data"]
        /\ UNCHANGED <<serverEngine, listenSocket, acceptSockets, clientEngine, connectSocket,
                       left, hung>>
    BY DEF ListenerIsReady
  <1>2. /\ listenSocket.fd \in DOMAIN descriptors /\ descriptors \in Tables
        /\ descriptors[listenSocket.fd] \in DescriptorType
    BY <1>1, Account, TablesKeepType DEF HostInv, Used
  <1> DEFINE d == [descriptors[listenSocket.fd] EXCEPT !.input = "data"]
  <1>3. /\ d \in DescriptorType /\ d.state = descriptors[listenSocket.fd].state
        /\ d.blocking = descriptors[listenSocket.fd].blocking
    BY <1>2 DEF DescriptorType
  <1>4. descriptors' = [descriptors EXCEPT ![listenSocket.fd] = d]
    BY <1>1, <1>2
  <1> HIDE DEF d
  <1>5. /\ DOMAIN descriptors' = DOMAIN descriptors /\ descriptors' \in Tables
        /\ \A g \in DOMAIN descriptors : /\ descriptors'[g].state = descriptors[g].state
                                         /\ descriptors'[g].blocking = descriptors[g].blocking
    BY <1>2, <1>3, <1>4 DEF Tables
  <1>6. DescriptorsAccounted'
    BY <1>1, <1>5 DEF HostInv, DescriptorsAccounted
  <1>7. EnginesNeverBlock'
    BY <1>1, <1>5, Account DEF EnginesNeverBlock, Fds, Used
  <1>8. descriptors'[listenSocket.fd].state = "listening"
    BY <1>1, <1>2, <1>5 DEF HostInv
  <1>9. QED
    BY <1>1, <1>5, <1>6, <1>7, <1>8 DEF HostInv, Used

\* A new engine of the client has no connection yet: the component of the old
\* one left the world with it.
LEMMA OldComponentLeft ==
  ASSUME HostInv, left' = left \cup Fds({connectSocket}),
         NEW S, S = acceptSockets \cup {listenSocket, None}
  PROVE  /\ DOMAIN descriptors = Fds(S) \cup left' \cup hung
         /\ (left' \cup hung) \cap Fds(S) = {}
         /\ Fds({None}) = {} /\ None \in TcpSocketRecords
         /\ Fds(acceptSockets) \cap Fds({listenSocket, None}) = {}
         /\ Fds(S) \subseteq Fds(Used)
         /\ \A s, r \in acceptSockets : s.fd = r.fd => s = r
  <1>1. None.fd = Invalid /\ None \in TcpSocketRecords
    BY DEF None, NewSocket, TcpSocketRecords, SocketType
  <1>2. /\ Fds({None}) = {} /\ Fds({listenSocket, None}) = Fds({listenSocket})
        /\ Fds(S) = Fds(acceptSockets) \cup Fds({listenSocket})
        /\ Fds(Used) = Fds(acceptSockets) \cup Fds({listenSocket}) \cup Fds({connectSocket})
        /\ Fds({listenSocket, connectSocket}) = Fds({listenSocket}) \cup Fds({connectSocket})
    BY <1>1 DEF Fds, Used
  <1>3. /\ DOMAIN descriptors = Fds(Used) \cup left \cup hung
        /\ (left \cup hung) \cap Fds(Used) = {}
        /\ Fds({listenSocket}) \cap Fds({connectSocket}) = {}
        /\ Fds(acceptSockets) \cap Fds({listenSocket, connectSocket}) = {}
        /\ \A s, r \in acceptSockets : s.fd = r.fd => s = r
    BY DEF HostInv, DescriptorsAccounted, Used
  <1>4. QED
    BY <1>1, <1>2, <1>3

\* A client that gives up its engine leaves its descriptor.
LEMMA WithoutConnection ==
  ASSUME HostInv, left' = left \cup Fds({connectSocket}), connectSocket' = None,
         clientEngine' = "none",
         UNCHANGED <<descriptors, serverEngine, listenSocket, acceptSockets, hung>>
  PROVE  HostInv'
  <1> DEFINE S == acceptSockets \cup {listenSocket, None}
  <1>1. /\ DOMAIN descriptors = Fds(S) \cup left' \cup hung
        /\ (left' \cup hung) \cap Fds(S) = {}
        /\ Fds({None}) = {} /\ None \in TcpSocketRecords
        /\ Fds(acceptSockets) \cap Fds({listenSocket, None}) = {}
        /\ Fds(S) \subseteq Fds(Used)
        /\ \A s, r \in acceptSockets : s.fd = r.fd => s = r
    BY OldComponentLeft
  <1>2. DescriptorsAccounted'
    BY <1>1 DEF DescriptorsAccounted
  <1>3. EnginesNeverBlock'
    BY <1>1 DEF HostInv, EnginesNeverBlock, Used
  <1>4. Used' \subseteq TcpSocketRecords
    BY <1>1 DEF HostInv, Used
  <1>5. QED
    BY <1>2, <1>3, <1>4 DEF HostInv

\* A new connection of the client has a new descriptor.
LEMMA ClientConnectKeeps == HostInv /\ ClientConnect => HostInv'
  <1> SUFFICES ASSUME HostInv, ClientConnect PROVE HostInv'
    OBVIOUS
  <1>1. PICK r \in Connected :
       IF r.code = "Success"
       THEN clientEngine' = "connected" /\ connectSocket' = r.socket /\ descriptors' = r.table
       ELSE clientEngine' = "none" /\ connectSocket' = None /\ descriptors' = Destructed(r).table
    BY DEF ClientConnect
  <1>2. /\ left' = left \cup Fds({connectSocket}) /\ descriptors \in Tables
        /\ UNCHANGED <<serverEngine, listenSocket, acceptSockets, hung>>
    BY DEF ClientConnect, NewClientEngine, HostInv
  <1>3. /\ Effect(With(None), r) /\ r.socket.kind = "tcp"
        /\ r.code = "Success" => /\ IsOpen(r) /\ Descriptor(r).state = "connected"
                                 /\ ~Descriptor(r).blocking
    BY <1>2, ConnectedEffect
  <1>4. /\ r.socket \in SocketType /\ r.socket.port = 0 /\ r.table \in Tables
        /\ IsOpen(r) => /\ r.socket.fd \in Descriptors \ DOMAIN descriptors
                        /\ DOMAIN r.table = DOMAIN descriptors \cup {r.socket.fd}
        /\ \A fd \in DOMAIN descriptors : r.table[fd] = descriptors[fd]
        /\ Destructed(r).table = descriptors
    BY <1>2, <1>3, NewDescriptor
  <1>5. CASE r.code # "Success"
    BY <1>1, <1>2, <1>4, <1>5, WithoutConnection
  <1>6. CASE r.code = "Success"
    <2>1. /\ clientEngine' = "connected" /\ connectSocket' = r.socket /\ descriptors' = r.table
          /\ descriptors'[r.socket.fd].state = "connected" /\ ~descriptors'[r.socket.fd].blocking
          /\ IsOpen(r) /\ r.socket.fd # Invalid
      BY <1>1, <1>3, <1>6 DEF Descriptor, IsOpen
    <2> DEFINE S == acceptSockets \cup {listenSocket, None}
    <2>2. /\ DOMAIN descriptors = Fds(S) \cup left' \cup hung
          /\ (left' \cup hung) \cap Fds(S) = {}
          /\ Fds(acceptSockets) \cap Fds({listenSocket, None}) = {}
          /\ Fds(S) \subseteq Fds(Used)
          /\ \A s, q \in acceptSockets : s.fd = q.fd => s = q
      BY <1>2, OldComponentLeft
    <2>3. /\ Fds(S) = Fds(acceptSockets) \cup Fds({listenSocket})
          /\ Fds({listenSocket, None}) = Fds({listenSocket})
          /\ Fds(Used') = Fds(S) \cup {r.socket.fd}
          /\ Fds({listenSocket, r.socket}) = Fds({listenSocket}) \cup {r.socket.fd}
          /\ Fds({r.socket}) = {r.socket.fd}
      BY <1>2, <2>1 DEF Fds, Used, None, NewSocket
    <2> HIDE DEF S
    <2>4. /\ DOMAIN descriptors' = DOMAIN descriptors \cup {r.socket.fd}
          /\ r.socket.fd \notin DOMAIN descriptors
      BY <1>4, <2>1
    <2>5. DescriptorsAccounted'
      <3>1. DOMAIN descriptors' = Fds(Used') \cup left' \cup hung'
        BY <1>2, <2>2, <2>3, <2>4
      <3>2. (left \cup hung)' \cap Fds(Used') = {}
        <4>1. r.socket.fd \notin left' \cup hung
          BY <2>2, <2>4
        <4>2. (left' \cup hung) \cap (Fds(S) \cup {r.socket.fd}) = {}
          BY <2>2, <4>1
        <4>3. hung' = hung
          BY <1>2
        <4>4. QED
          BY <2>3, <4>2, <4>3
      <3>3. r.socket.fd \notin Fds(S)
        BY <2>2, <2>4
      <3>4. Fds(acceptSockets) \cap (Fds({listenSocket}) \cup {r.socket.fd}) = {}
        BY <2>2, <2>3, <3>3
      <3>5. Fds({listenSocket}) \cap {r.socket.fd} = {}
        BY <2>3, <3>3
      <3>6. QED
        BY <1>2, <2>1, <2>2, <2>3, <3>1, <3>2, <3>4, <3>5 DEF DescriptorsAccounted, Used
    <2>6. EnginesNeverBlock'
      <3>1. \A fd \in Fds(S) : fd \in DOMAIN descriptors /\ ~descriptors[fd].blocking
        BY <2>2, Account DEF Fds
      <3>2. \A fd \in Fds(Used') : ~descriptors'[fd].blocking
        BY <1>4, <2>1, <2>3, <3>1
      <3>3. QED
        BY <3>2 DEF EnginesNeverBlock, Used
    <2>7. Used' \subseteq TcpSocketRecords
      BY <1>2, <1>3, <1>4, <2>1 DEF HostInv, Used, TcpSocketRecords
    <2>8. \A fd \in DOMAIN descriptors' : descriptors'[fd].state = "listening" =>
            fd = listenSocket'.fd
      BY <1>2, <1>4, <2>1, <2>4 DEF HostInv
    <2>9. serverEngine' = "listening" => descriptors'[listenSocket'.fd].state = "listening"
      BY <1>2, <1>4, <2>1, Account DEF HostInv, Used
    <2>10. QED
      BY <1>2, <1>4, <2>1, <2>5, <2>6, <2>7, <2>8, <2>9 DEF HostInv
  <1>7. QED
    BY <1>5, <1>6

\* Every step keeps the invariant.
LEMMA NextHostInv == HostInv /\ [HostNext]_hostVars => HostInv'
  <1> SUFFICES ASSUME HostInv, [HostNext]_hostVars PROVE HostInv'
    OBVIOUS
  <1>1. CASE UNCHANGED hostVars
    BY <1>1 DEF HostInv, Used, DescriptorsAccounted, EnginesNeverBlock, hostVars
  <1>2. CASE ServerStart
    BY <1>2, ServerStartKeeps
  <1>3. CASE ServerStartFailsAtOnce
    BY <1>1, <1>3 DEF ServerStartFailsAtOnce
  <1>4. CASE ServerStop
    BY <1>4, ServerStopKeeps
  <1>5. CASE ServerAccepts
    BY <1>5, ServerAcceptsKeeps
  <1>6. CASE ServerDisconnects
    BY <1>6, ServerDisconnectsKeeps
  <1>7. CASE ListenerIsReady
    BY <1>7, ListenerIsReadyKeeps
  <1>8. CASE ClientConnectFailsAtOnce
    BY <1>8, WithoutConnection DEF ClientConnectFailsAtOnce, NewClientEngine
  <1>9. CASE ClientConnect
    BY <1>9, ClientConnectKeeps
  <1>10. CASE ClientLoses
    BY <1>10 DEF ClientLoses, HostInv, Used, DescriptorsAccounted, EnginesNeverBlock
  <1>11. CASE ClientDisconnect
    BY <1>11, WithoutConnection DEF ClientDisconnect
  <1>12. QED
    BY <1>1, <1>2, <1>3, <1>4, <1>5, <1>6, <1>7, <1>8, <1>9, <1>10, <1>11 DEF HostNext

\* The invariant holds, for every number of descriptors, ports and addresses.
LEMMA HostInvariant == HostSpec => []HostInv
  BY InitHostInv, NextHostInv, PTL DEF HostSpec

\* No start, stop, accept or connect loses an open descriptor or gives one to
\* two components, whichever of its steps fails: what is open is in one
\* component, or its component left the world, or its start hangs.
THEOREM DescriptorsAreAccounted == HostSpec => []DescriptorsAccounted
  <1>1. HostInv => DescriptorsAccounted
    BY DEF HostInv
  <1>2. QED
    BY <1>1, HostInvariant, PTL

\* No component holds a descriptor that blocks: none is added before
\* setBlocking made it non-blocking.
THEOREM EnginesDoNotBlock == HostSpec => []EnginesNeverBlock
  <1>1. HostInv => EnginesNeverBlock
    BY DEF HostInv
  <1>2. QED
    BY <1>1, HostInvariant, PTL

\* A server that was stopped, or whose start failed, has no descriptor that
\* listens.
THEOREM NobodyHearsAStoppedServer == HostSpec => []StoppedIsSilent
  <1>1. HostInv => StoppedIsSilent
    <2> SUFFICES ASSUME HostInv, serverEngine = "none", NEW fd \in DOMAIN descriptors
                 PROVE  descriptors[fd].state # "listening"
      BY DEF StoppedIsSilent
    <2>1. listenSocket.fd = Invalid
      BY DEF HostInv, None, NewSocket
    <2>2. Invalid \notin DOMAIN descriptors
      BY SocketsAssumption, TablesKeepType DEF HostInv
    <2>3. QED
      BY <2>1, <2>2 DEF HostInv
  <1>2. QED
    BY <1>1, HostInvariant, PTL
=============================================================================
