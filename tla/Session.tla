------------------------------- MODULE Session -------------------------------
(***************************************************************************)
(* A server and its clients over TCP: the server's thread, the client      *)
(* processes and the network take steps in any order, and connections      *)
(* break.                                                                  *)
(*                                                                         *)
(* In a tick the server touches a connection at three points only: it      *)
(* accepts it, receives from it and sends to it.  Any other step of the    *)
(* server commutes with a client's steps, which may as well all be taken   *)
(* before the tick, or between the receive and the send, in `broadcast'.   *)
(* A client touches its connection at two points, and no other client's:   *)
(* its receive may as well come right before its send.  With Interleaving  *)
(* FALSE clients step only then, and a tick of a client is not             *)
(* interrupted, which leaves fewer states; with Interleaving TRUE all      *)
(* interleavings are there.                                                *)
(***************************************************************************)
EXTENDS Client

CONSTANT Interleaving

ASSUME SessionAssumption == Interleaving \in BOOLEAN

vars == <<serverVars, clientVars, link>>

Init == ServerInit /\ LinkInit /\ ClientInit

InTick(c) == clientPhase[c] \in {"app", "end"}

\* May anyone but the clients C step now?
MayStep(C) == Interleaving \/ \A c \in Conns \ C : ~InTick(c)

ServerAtRest == Interleaving \/ phase \in {"stopped", "idle", "broadcast"}

ClientStep(c) ==
  /\ ServerAtRest /\ MayStep({c})
  /\ \/ ConnectTo(c) \/ (\E d \in Conns : ConnectAgain(c, d)) \/ ConnectAgainFails(c)
     \/ ClientTick(c) \/ Disconnect(c) \/ Exit(c)
  /\ UNCHANGED serverVars

ServerStep == MayStep({}) /\ ServerNext /\ UNCHANGED clientVars

Breaks(c) ==
  /\ "break" \in Failures
  /\ ServerAtRest /\ MayStep({})
  /\ Break(c)
  /\ UNCHANGED <<serverVars, clientVars>>

\* The end of every behaviour the bound on starts allows.
Finished ==
  /\ phase = "stopped" /\ starts = MaxStarts
  /\ \A c \in Conns : clientPhase[c] \in {"off", "left", "exited"}
  /\ UNCHANGED vars

Next ==
  \/ ServerStep
  \/ \E c \in Conns : ClientStep(c) \/ Breaks(c)
  \/ Finished

Spec == Init /\ [][Next]_vars

\* The server's thread keeps running its loop and each client process its own,
\* and what was sent, and the end of a stream, arrive some day: a tick that
\* could receive everything, again and again, once does.
ServerReceivesAll(e) ==
  /\ MayStep({}) /\ ReceiveTcpMessages(e) /\ toServer'[conn[e]] = <<>>
  /\ UNCHANGED clientVars

ServerNoticesEnd(e) == MayStep({}) /\ ReceiveFails(e) /\ UNCHANGED clientVars

ClientReceivesAll(c) ==
  /\ ServerAtRest /\ MayStep({c}) /\ BeginUpdate(c)
  /\ toClient'[c] = <<>> /\ UNCHANGED <<clientTags, serverVars>>

ClientNoticesEnd(c) ==
  /\ ServerAtRest /\ MayStep({c}) /\ BeginUpdate(c)
  /\ clientTags' # clientTags /\ UNCHANGED serverVars

Fairness ==
  /\ WF_vars(MayStep({}) /\ ServerTick /\ UNCHANGED clientVars)
  /\ \A e \in Entities : SF_vars(ServerReceivesAll(e)) /\ SF_vars(ServerNoticesEnd(e))
  /\ \A c \in Conns :
       /\ WF_vars(ServerAtRest /\ MayStep({c}) /\ ClientTick(c) /\ UNCHANGED serverVars)
       /\ SF_vars(ClientReceivesAll(c)) /\ SF_vars(ClientNoticesEnd(c))

FairSpec == Spec /\ Fairness

-----------------------------------------------------------------------------
Messages ==
  {ClientIsReady, AppMessage, Snapshot}
  \cup {InitializeClient(id) : id \in 0..MaxClientId}
  \cup [type : {"SpawnDespawn"}, spawns : Seq(Spawns!NetworkIds),
        despawns : Seq(Spawns!NetworkIds)]

\* Every variable has its type; an entity has a connection exactly as long as
\* it exists, no two have the same, and a loop visits entities that exist.
TypeOK ==
  /\ Registry!TypeOK /\ Spawns!TypeOK
  /\ phase \in Phases /\ todo \subseteq live
  /\ accepted \in 0..MaxAccepted /\ starts \in 0..MaxStarts
  /\ live \subseteq Entities
  /\ tags \in [Entities -> SUBSET Tags]
  /\ conn \in [Entities -> Conns \cup {NoConn}]
  /\ \A e \in Entities : e \in live <=> conn[e] # NoConn
  /\ \A d, e \in live : conn[d] = conn[e] => d = e
  /\ toSend \in [Entities -> Seq(Messages)]
  /\ received \in [Entities -> Seq(Messages)]
  /\ initMessage \in 0..MaxClientId
  /\ newClientIds \in Seq(Registry!ClientIds)
  /\ disconnectedClientIds \in Seq(Registry!ClientIds)
  /\ backlog \in Seq(Conns)
  /\ toServer \in [Conns -> Seq(Messages)]
  /\ toClient \in [Conns -> Seq(Messages)]
  /\ serverEnd \in [Conns -> {"none", "open", "closed"}]
  /\ clientEnd \in [Conns -> {"none", "open", "closed"}]
  /\ process \in [Conns -> Processes \cup {NoConn}]
  /\ clientPhase \in [Conns -> {"off", "idle", "app", "end", "disconnected", "left", "exited"}]
  /\ clientTags \in [Conns -> SUBSET Tags]
  /\ clientReceived \in [Conns -> Seq(Messages)]
  /\ clientToSend \in [Conns -> Seq(Messages)]
  /\ clientId \in [Conns -> 0..MaxClientId]
  /\ spawnQueue \in [Conns -> Seq(Spawns!NetworkIds)]
  /\ despawnQueue \in [Conns -> Seq(Spawns!NetworkIds)]
  /\ known \in [Conns -> SUBSET Spawns!NetworkIds]
  /\ inherited \subseteq Conns

-----------------------------------------------------------------------------
(* The server and its clients.                                             *)

\* The registry never holds an entity that was destroyed: a disconnection is
\* always reported, and the client removed from the registry, in the tick
\* before DisconnectSystem destroys its entity.  Otherwise the broadcast in
\* sendNewSpawnDespawnMessage would ask for the tags of a dead entity.
RegisteredAreLive == phase # "stopped" => Registry!Registered \subseteq live

\* The application is never told in one tick that a client is new and that it
\* is gone, nor twice of the same client: TestServer would create the client's
\* entity after looking for it to destroy it, and keep it for ever.
NeverNewAndGone ==
  phase # "report" =>
    /\ Spawns!Members(newClientIds) \cap Spawns!Members(disconnectedClientIds) = {}
    /\ \A i, j \in 1..Len(newClientIds) : newClientIds[i] = newClientIds[j] => i = j
    /\ \A i, j \in 1..Len(disconnectedClientIds) :
         disconnectedClientIds[i] = disconnectedClientIds[j] => i = j

\* The entities of the server that have connection c: one or none.
Peers(c) == {e \in live : conn[e] = c}

\* The server holds a client for ready only if the client does so too, or is
\* gone: the server never sends spawns to a client that would not read them.
ReadyAgreement ==
  \A c \in Conns : \A e \in Peers(c) :
    "ClientIsReady" \in tags[e] => IsReady(c) \/ clientPhase[c] \in {"disconnected", "left", "exited"}

\* A client hears nothing before its InitializeClientMessage, and hears that
\* once: until the client is ready the stream, with what the client has just
\* received, is empty or that message with the snapshots of later ticks, and
\* when the client is ready it is not in the stream.
InitializedFirst ==
  \A c \in Conns : clientPhase[c] \in {"idle", "app", "end"} =>
    IF IsReady(c) THEN ~HasMessage(toClient[c], "InitializeClient")
    ELSE LET heard == clientReceived[c] \o toClient[c]
         IN heard # <<>> =>
              /\ heard[1].type = "InitializeClient"
              /\ \A i \in 2..Len(heard) : heard[i].type = "Snapshot"

\* A session begins without news: until the client is ready there is nothing for
\* the application to take, neither of this session nor, when the Client was
\* connected before, of an earlier one.  Only disconnect clears the queues.
FreshSession == \A c \in Conns : IsConnected(c) /\ ~IsReady(c) => ~HoldsNews(c)

\* Queues hold news only from the receive of a ready client to its application,
\* also when the connection was lost and the messages of the last tick are read
\* again: a session can inherit news only from a Client that connects again right
\* between the two, or tried to.
NewsAreTaken ==
  \A c \in Conns \ inherited : HoldsNews(c) =>
    (clientPhase[c] = "app" /\ IsReady(c)) \/ clientPhase[c] = "disconnected"

\* The client believes in the id under which the server registered it.
IdsAgree ==
  \A c \in Conns : \A e \in Peers(c) :
    IsReady(c) /\ e \in Registry!Registered => clientId[c] = Registry!GetClientId(e)

\* However many connections are accepted in a tick, a client believes in its own
\* id or in that of one that was accepted with it: initializeNewClient overwrites
\* the id in the message they share, but no later tick does.
IdsWithinTick ==
  \A c \in Conns : \A e \in Peers(c) :
    IsReady(c) /\ e \in Registry!Registered =>
      clientId[c] \in Registry!GetClientId(e)..(Registry!GetClientId(e) + MaxAccepted - 1)

-----------------------------------------------------------------------------
(* The network entities a client knows.                                    *)

\* What client c has not yet handled: queued by its SpawnDespawnManager, or
\* on its way.
UnreadSpawns(c) == spawnQueue[c] \o AllSpawned(toClient[c])
UnreadDespawns(c) == despawnQueue[c] \o AllDespawned(toClient[c])

\* A session that began without news of another, over a connection that works.
Intact(c, e) ==
  /\ c \notin inherited
  /\ conn[e] = c /\ {"Connected", "ClientIsReady"} \subseteq tags[e]
  /\ "PendingDisconnect" \notin tags[e]
  /\ clientPhase[c] \in {"idle", "app", "end"} /\ clientEnd[c] = "open"

\* Between two ticks, what a ready client knows and what it has still to read
\* amount to exactly the network entities that exist: none is lost and none
\* stays, in whatever order entities come and go and the client becomes ready.
ReplicaExact ==
  phase = "idle" => \A c \in Conns, e \in live : Intact(c, e) =>
    (known[c] \cup Spawns!Members(UnreadSpawns(c))) \ Spawns!Members(UnreadDespawns(c))
      = Spawns!Members(spawns)

\* The news a client has still to handle fit what it knows: an entity is spawned
\* once, and when the application handles its despawns, after all spawns, each
\* is of an entity it knows.  TestClient puts every spawn in a list, erases one
\* element for a despawn and warns of a despawn it does not know.
NewsFit ==
  \A c \in Conns :
    /\ \A i, j \in 1..Len(UnreadSpawns(c)) :
         UnreadSpawns(c)[i] = UnreadSpawns(c)[j] => i = j
    /\ known[c] \cap Spawns!Members(UnreadSpawns(c)) = {}
    /\ clientPhase[c] = "app" /\ IsReady(c) =>
         Spawns!Members(despawnQueue[c]) \subseteq known[c] \cup Spawns!Members(spawnQueue[c])

\* What a client sends once it is ready, the server's application can read:
\* getTcpMessages returns it while the application runs.
AppMessagesReadable ==
  phase = "app" => \A e \in live :
    HasMessage(received[e], "App") => "ClientIsReady" \in tags[e]

\* An open socket has an owner: an entity of the server, a client that is still
\* connected.  Who gives a connection up closes it, as the destructor of
\* TcpConnectSocketComponent does, and the other end finds out.
SocketsAreOwned ==
  \A c \in Conns :
    /\ serverEnd[c] = "open" => Peers(c) # {}
    /\ clientEnd[c] = "open" => clientPhase[c] \in {"idle", "app", "end"}

-----------------------------------------------------------------------------
(* What happens in the end.                                                *)

\* The connection of c failed at one end, or the server gave it up, which the
\* client is not told (see SocketsAreOwned).
Lost(c) ==
  \/ phase = "stopped"
  \/ clientPhase[c] \notin {"idle", "app", "end"} \/ ~IsConnected(c)
  \/ clientEnd[c] = "closed" \/ serverEnd[c] = "closed"
  \/ serverEnd[c] = "open" /\ Peers(c) = {}
  \/ \E e \in Peers(c) : {"PendingDisconnect", "Disconnected"} \cap tags[e] # {}

HeldReady(c) == \E e \in Peers(c) : "ClientIsReady" \in tags[e]

\* A client that connects is held for ready by the server in the end, unless
\* the connection is lost or the server stopped: the handshake of
\* InitializeClientMessage and ClientIsReadyMessage never hangs.
EventuallyReady == \A c \in Conns : clientPhase[c] = "idle" ~> HeldReady(c) \/ Lost(c)

\* A client whose socket is closed is reported disconnected in the end, also
\* when it never became ready.
LossIsReported ==
  \A id \in Registry!ClientIds :
    ( /\ id \in DOMAIN clientEntityLookup /\ phase # "stopped"
      /\ clientEnd[conn[Registry!GetEntity(id)]] = "closed" )
    ~> (id \notin DOMAIN clientEntityLookup \/ phase = "stopped")

\* What a ready client knows follows the network entities: it learns of one
\* that stays, and forgets one that is gone.
ReplicaFollows ==
  \A c \in Conns : \A n \in Spawns!NetworkIds :
    /\ HeldReady(c) /\ n \in Spawns!Members(spawns)
         ~> n \in known[c] \/ n \notin Spawns!Members(spawns) \/ Lost(c)
    /\ n \in known[c] /\ n \notin Spawns!Members(spawns) ~> n \notin known[c] \/ Lost(c)

-----------------------------------------------------------------------------
(* The server uses its components as their own specifications describe.    *)

\* Server calls the registry the way ClientEntityRegistry assumes: it gives an
\* id only to an entity that has none, so everything proved there holds here.
UsesRegistry == Registry!Spec

\* Server clears and fills the spawn manager and the engine's network ids
\* together, the way SpawnDespawnManager assumes.
UsesSpawnManager == Spawns!Spec

status == [id \in Registry!ClientIds |->
  IF phase = "stopped" \/ id >= nextClientId THEN "unused"
  ELSE IF id \notin DOMAIN clientEntityLookup THEN "gone"
  ELSE IF "ClientIsReady" \in tags[Registry!GetEntity(id)] THEN "ready"
  ELSE "waiting"]

Lifecycle == INSTANCE ClientLifecycle WITH ClientIds <- Registry!ClientIds

\* The tags of an entity, the registry and the two lists together behave as
\* the lifecycle of clients that ClientLifecycle states.
ImplementsLifecycle == Lifecycle!Spec
=============================================================================
