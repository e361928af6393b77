------------------------------- MODULE Server -------------------------------
(***************************************************************************)
(* The server's thread: Server on top of the engine's systems, one tick    *)
(* after the other.                                                        *)
(*                                                                         *)
(* beginUpdate runs DisconnectSystem, PendingDisconnectSystem,             *)
(* AcceptConnectionSystem and ReceiveTcpMessageSystem; the application     *)
(* then creates and destroys network entities and sends messages;          *)
(* endUpdate runs disconnectedClient, setClientReady, initializeNewClient, *)
(* sendNewSpawnDespawnMessage, SendSnapshotSystem and SendTcpMessageSystem.*)
(* `phase' says which of them is running.  One that loops over the         *)
(* entities of an ECS query takes a step per entity, in any order, and     *)
(* keeps those still to visit in `todo'.                                   *)
(***************************************************************************)
EXTENDS Naturals, Sequences, FiniteSets, Link

CONSTANTS
  Entities, NullEntity,  \* ECS entities of connections
  MaxClientId,           \* bound on the ids given to clients in one run
  MaxNetworkId,          \* bound on the network entities of one run
  MaxAccepted,           \* MAX_ACCEPTED_CONNECTIONS_PAR_TICK
  MaxStarts,             \* bound on how often the server is started
  NoConn,                \* an entity without a socket
  Failures,              \* what may go wrong: a subset of FailureKinds
  Traffic                \* the optional messages there are: a subset of TrafficKinds

\* "accept": accept() or setBlocking() fails; "break": a connection breaks;
\* "disconnect": a client disconnects; "reconnect": a client without connection
\* connects again; "exit": a client process ends; "stop": the server is stopped.
FailureKinds == {"accept", "break", "disconnect", "reconnect", "exit", "stop"}

\* "app": the applications' own messages; "snapshot": the snapshots of the
\* network components, one for each connection and tick.  Nothing but
\* ReceiveSnapshotSystem reads a snapshot: without them the messages that are
\* left come in the same order.
TrafficKinds == {"app", "snapshot"}

ASSUME ServerAssumption ==
  /\ NullEntity \notin Entities /\ NoConn \notin Conns
  /\ MaxClientId \in Nat /\ MaxNetworkId \in Nat
  /\ MaxAccepted \in Nat \ {0}
  /\ MaxStarts \in Nat
  /\ Failures \subseteq FailureKinds
  /\ Traffic \subseteq TrafficKinds

VARIABLES
  entities, clientEntityLookup, entityClientLookup, nextClientId,
  spawns, newSpawns, newDespawns, spawnLookup, networkIds, nextNetworkId

Registry == INSTANCE ClientEntityRegistry
Spawns == INSTANCE SpawnDespawnManager

VARIABLES
  phase, todo,   \* where the thread is, and the entities its loop has left
  accepted,      \* acceptedConnections of AcceptConnectionSystem::update
  live,          \* entities of connections in the ECS world
  tags,          \* their tags
  conn,          \* m_tcpSocket of their TcpConnectSocketComponent
  toSend,        \* m_messagesToSend and m_serializedToSend
  received,      \* m_receivedMessages
  initMessage,   \* m_clientId of the InitializeClientMessage last made
  newClientIds,           \* Server::m_newClientIds
  disconnectedClientIds,  \* Server::m_disconnectedClientIds
  starts         \* how often the server was started

registry == <<entities, clientEntityLookup, entityClientLookup>>
registryVars == <<registry, nextClientId>>
spawnVars == <<spawns, newSpawns, newDespawns, spawnLookup, networkIds, nextNetworkId>>
ecs == <<live, tags, conn, toSend, received>>
serverVars == <<phase, todo, accepted, ecs, initMessage, newClientIds,
                disconnectedClientIds, starts, registryVars, spawnVars>>

-----------------------------------------------------------------------------
Tags == {"NewConnection", "Connected", "PendingDisconnect", "Disconnected",
         "WaitingClientIsReady", "ClientIsReady"}

Phases == {"stopped", "idle", "pending", "forget", "accept", "receive", "app",
           "report", "ready", "initialize", "broadcast", "snapshot", "send"}

\* Messages, by type.  The id of an InitializeClientMessage in a queue is the
\* one its object holds when it is serialized.
InitializeClient(id) == [type |-> "InitializeClient", id |-> id]
ClientIsReady == [type |-> "ClientIsReady"]
AppMessage == [type |-> "App"]
Snapshot == [type |-> "Snapshot"]
SpawnDespawn(new, gone) == [type |-> "SpawnDespawn", spawns |-> new, despawns |-> gone]

HasMessage(msgs, t) == \E i \in 1..Len(msgs) : msgs[i].type = t

With(t) == {e \in live : t \in tags[e]}
Linked == With("Connected") \ With("PendingDisconnect")

ServerInit ==
  /\ phase = "stopped" /\ todo = {} /\ accepted = 0
  /\ live = {}
  /\ tags = [e \in Entities |-> {}]
  /\ conn = [e \in Entities |-> NoConn]
  /\ toSend = [e \in Entities |-> <<>>]
  /\ received = [e \in Entities |-> <<>>]
  /\ initMessage = 0
  /\ newClientIds = <<>> /\ disconnectedClientIds = <<>>
  /\ starts = 0
  /\ Registry!Init
  /\ Spawns!Init

\* The loop of the next phase starts over the entities S.
Enter(next, S) == phase' = next /\ todo' = S

\* The loop of this phase goes on after e.
Visited(e) == todo' = todo \ {e} /\ UNCHANGED phase

events == <<newClientIds, disconnectedClientIds>>

-----------------------------------------------------------------------------
\* The ECS registers a destroy function only for components that are NOT
\* destructible, so the destructor of TcpConnectSocketComponent, which shuts
\* its socket down and closes it, does not run with the entity.
HasDestroyFunc(destructible) == ~destructible

Destroyed(es) == IF HasDestroyFunc(TRUE) THEN {conn[e] : e \in es} \ {NoConn} ELSE {}

\* The entities es and their components are gone from the world.
DestroyEntities(es) ==
  /\ live' = live \ es
  /\ tags' = [e \in Entities |-> IF e \in es THEN {} ELSE tags[e]]
  /\ conn' = [e \in Entities |-> IF e \in es THEN NoConn ELSE conn[e]]
  /\ toSend' = [e \in Entities |-> IF e \in es THEN <<>> ELSE toSend[e]]
  /\ received' = [e \in Entities |-> IF e \in es THEN <<>> ELSE received[e]]

\* Server::start: a new engine, a listening socket, an empty registry.
Start ==
  /\ phase = "stopped" /\ starts < MaxStarts
  /\ starts' = starts + 1
  /\ Registry!Restart
  /\ Enter("idle", {})
  /\ UNCHANGED <<accepted, ecs, initMessage, events, spawnVars, link>>

\* Server::stop: the listening socket is closed and the engine destroyed.  The
\* registry and the two lists for the application stay as they are.
Stop ==
  /\ "stop" \in Failures
  /\ phase \in {"idle", "app"}
  /\ CloseListener(Destroyed(live))
  /\ DestroyEntities(live)
  /\ Spawns!StopAndStart
  /\ Enter("stopped", {})
  /\ UNCHANGED <<accepted, initMessage, events, starts, registryVars>>

-----------------------------------------------------------------------------
\* Mutated form: an entity is destroyed before its disconnection is reported.
FailedEntities == With("PendingDisconnect")

ReportedEntities == With("Disconnected")

\* beginUpdate.  DisconnectSystem destroys the entities whose disconnection
\* was reported in the tick before.
DisconnectSystem ==
  /\ phase = "idle"
  /\ CloseServerEnds(Destroyed(ReportedEntities))
  /\ DestroyEntities(ReportedEntities)
  /\ Enter("pending", {})
  /\ UNCHANGED <<accepted, initMessage, events, starts, registryVars, spawnVars>>

\* PendingDisconnectSystem turns a failure of the last tick into a disconnection.
PendingDisconnectSystem ==
  /\ phase = "pending"
  /\ tags' = [e \in Entities |->
       IF e \in With("PendingDisconnect") \cap With("Connected")
       THEN (tags[e] \ {"PendingDisconnect", "Connected"}) \cup {"Disconnected"}
       ELSE tags[e]]
  /\ Enter("forget", {})
  /\ UNCHANGED <<accepted, live, conn, toSend, received, initMessage, events, starts,
                 registryVars, spawnVars, link>>

\* Mutated form: a connection is new for ever.
StaysNew(e) == tags[e]

NoLongerNew(e) == tags[e] \ {"NewConnection"}

\* AcceptConnectionSystem: first the connections of the tick before cease to
\* be new, ...
ForgetNewConnections ==
  /\ phase = "forget"
  /\ tags' = [e \in Entities |-> NoLongerNew(e)]
  /\ Enter("accept", {})
  /\ UNCHANGED <<accepted, live, conn, toSend, received, initMessage, events, starts,
                 registryVars, spawnVars, link>>

\* ... then connections are accepted, each with a new entity, ...
AcceptConnection(e) ==
  /\ phase = "accept" /\ accepted < MaxAccepted
  /\ e \in Entities \ live
  /\ backlog # <<>> /\ Accept(Head(backlog))
  /\ accepted' = accepted + 1
  /\ live' = live \cup {e}
  /\ tags' = [tags EXCEPT ![e] = {"NewConnection", "Connected"}]
  /\ conn' = [conn EXCEPT ![e] = Head(backlog)]
  /\ UNCHANGED <<phase, todo, toSend, received, initMessage, events, starts,
                 registryVars, spawnVars>>

\* ... a socket that cannot be made non-blocking is closed without counting, ...
AcceptedSocketFails ==
  /\ phase = "accept" /\ accepted < MaxAccepted
  /\ "accept" \in Failures
  /\ backlog # <<>> /\ AcceptAndClose(Head(backlog))
  /\ UNCHANGED <<phase, todo, accepted, ecs, initMessage, events, starts,
                 registryVars, spawnVars>>

\* ... until the limit is reached, nobody waits, or accept() fails.
AcceptDone ==
  /\ phase = "accept"
  /\ accepted = MaxAccepted \/ backlog = <<>> \/ live = Entities \/ "accept" \in Failures
  /\ accepted' = 0
  /\ Enter("receive", Linked)
  /\ UNCHANGED <<ecs, initMessage, events, starts, registryVars, spawnVars, link>>

\* ReceiveTcpMessageSystem: the messages of the last tick give way to those
\* that arrived, ...
ReceiveTcpMessages(e) ==
  /\ phase = "receive" /\ e \in todo
  /\ \E k \in 0..Len(toServer[conn[e]]) :
       /\ received' = [received EXCEPT ![e] = Take(toServer[conn[e]], k)]
       /\ ServerReceives(conn[e], k)
  /\ Visited(e)
  /\ UNCHANGED <<accepted, live, tags, conn, toSend, initMessage, events, starts,
                 registryVars, spawnVars>>

\* Mutated form: an end of the stream is taken for a stream without data.
KeepTags(e) == tags[e]

Failed(e) == tags[e] \cup {"PendingDisconnect"}

\* ... or the peer has closed: what arrived with the end of the stream is lost.
ReceiveFails(e) ==
  /\ phase = "receive" /\ e \in todo
  /\ clientEnd[conn[e]] = "closed"
  /\ received' = [received EXCEPT ![e] = <<>>]
  /\ tags' = [tags EXCEPT ![e] = Failed(e)]
  /\ Visited(e)
  /\ UNCHANGED <<accepted, live, conn, toSend, initMessage, events, starts,
                 registryVars, spawnVars, link>>

ReceiveDone ==
  /\ phase = "receive" /\ todo = {}
  /\ Enter("app", {})
  /\ UNCHANGED <<accepted, ecs, initMessage, events, starts, registryVars, spawnVars, link>>

-----------------------------------------------------------------------------
\* The application, between beginUpdate and endUpdate.
CreateNetworkEntity ==
  /\ phase = "app"
  /\ Spawns!CreateNetworkEntity
  /\ UNCHANGED <<phase, todo, accepted, ecs, initMessage, events, starts, registryVars, link>>

DestroyNetworkEntity(n) ==
  /\ phase = "app"
  /\ Spawns!DestroyNetworkEntity(n)
  /\ UNCHANGED <<phase, todo, accepted, ecs, initMessage, events, starts, registryVars, link>>

\* Server::sendTcpMessage to a client that is ready; bounded to one message a
\* client and tick.
SendTcpMessage(id) ==
  /\ phase = "app" /\ "app" \in Traffic
  /\ LET e == Registry!GetEntity(id) IN
       /\ e # NullEntity /\ "ClientIsReady" \in tags[e]
       /\ ~HasMessage(toSend[e], "App")
       /\ toSend' = [toSend EXCEPT ![e] = Append(@, AppMessage)]
  /\ UNCHANGED <<phase, todo, accepted, live, tags, conn, received, initMessage, events,
                 starts, registryVars, spawnVars, link>>

-----------------------------------------------------------------------------
\* endUpdate.  disconnectedClient reports and forgets the clients whose
\* connection ended.
EndUpdate ==
  /\ phase = "app"
  /\ disconnectedClientIds' = <<>>
  /\ Enter("report", With("Disconnected"))
  /\ UNCHANGED <<accepted, ecs, initMessage, newClientIds, starts,
                 registryVars, spawnVars, link>>

DisconnectedClient(e) ==
  /\ phase = "report" /\ e \in todo
  /\ LET id == Registry!GetClientId(e) IN
       IF id # Registry!NullClientId
       THEN /\ disconnectedClientIds' = Append(disconnectedClientIds, id)
            /\ Registry!RemoveClientId(id)
       ELSE UNCHANGED <<disconnectedClientIds, registry>>
  /\ Visited(e)
  /\ UNCHANGED <<accepted, ecs, initMessage, newClientIds, starts, nextClientId,
                 spawnVars, link>>

\* Mutated form: m_newClientIds is not cleared.
KeptNewClientIds == newClientIds

ClearedNewClientIds == <<>>

\* setClientReady answers the clients that said they are ready.
ReportDone ==
  /\ phase = "report" /\ todo = {}
  /\ newClientIds' = ClearedNewClientIds
  /\ Enter("ready", With("WaitingClientIsReady"))
  /\ UNCHANGED <<accepted, ecs, initMessage, disconnectedClientIds, starts,
                 registryVars, spawnVars, link>>

\* Mutated form: a client that becomes ready learns nothing of the past.
NoSpawns == <<>>

\* A client that becomes ready gets all spawns, when there are any.
AllSpawns == IF spawns = <<>> THEN <<>> ELSE <<SpawnDespawn(spawns, <<>>)>>

\* Mutated form: the client's answer is not awaited.
AnyWaiting(e) == TRUE

SaidReady(e) == HasMessage(received[e], "ClientIsReady")

SetClientReady(e) ==
  /\ phase = "ready" /\ e \in todo
  /\ IF SaidReady(e)
     THEN /\ newClientIds' = Append(newClientIds, Registry!GetClientId(e))
          /\ tags' = [tags EXCEPT ![e] = (@ \ {"WaitingClientIsReady"}) \cup {"ClientIsReady"}]
          /\ toSend' = [toSend EXCEPT ![e] = @ \o AllSpawns]
     ELSE UNCHANGED <<newClientIds, tags, toSend>>
  /\ Visited(e)
  /\ UNCHANGED <<accepted, live, conn, received, initMessage, disconnectedClientIds, starts,
                 registryVars, spawnVars, link>>

\* initializeNewClient registers the connections of this tick.
ReadyDone ==
  /\ phase = "ready" /\ todo = {}
  /\ Enter("initialize", With("NewConnection") \ With("WaitingClientIsReady"))
  /\ UNCHANGED <<accepted, ecs, initMessage, events, starts, registryVars, spawnVars, link>>

\* Mutated form: the id is incremented before it is written.
IncrementedId == nextClientId + 1

GivenId == nextClientId

\* All the clients of one tick are sent the same message object; only its
\* address is queued, and each turn of the loop overwrites its id.
InitializeNewClient(e) ==
  /\ phase = "initialize" /\ e \in todo
  /\ nextClientId \in Registry!ClientIds
  /\ Registry!AddClientId(nextClientId, e)
  /\ initMessage' = GivenId
  /\ nextClientId' = nextClientId + 1
  /\ toSend' = [toSend EXCEPT ![e] = Append(@, InitializeClient(0))]
  /\ tags' = [tags EXCEPT ![e] = @ \cup {"WaitingClientIsReady"}]
  /\ Visited(e)
  /\ UNCHANGED <<accepted, live, conn, received, events, starts, spawnVars, link>>

InitializeDone ==
  /\ phase = "initialize" /\ todo = {}
  /\ Enter("broadcast", {})
  /\ UNCHANGED <<accepted, ecs, initMessage, events, starts, registryVars, spawnVars, link>>

\* Mutated form: a tick without spawns has no message.
OnlySpawnsAreNews == newSpawns # <<>>

HasNews == newSpawns # <<>> \/ newDespawns # <<>>

\* Mutated form: the message goes to every registered client.
AllRegistered == Registry!Registered

Audience == {e \in Registry!Registered : "ClientIsReady" \in tags[e]}

\* Mutated form: the despawns are announced again in the next tick.
KeepNewDespawns ==
  /\ newSpawns' = <<>>
  /\ UNCHANGED <<newDespawns, spawns, spawnLookup, networkIds, nextNetworkId>>

ForgetNews == Spawns!EndOfTick

\* sendNewSpawnDespawnMessage, then clearNewSpawnDespawn: every registered
\* client that is ready is told what appeared and disappeared in this tick.
SendNewSpawnDespawn ==
  /\ phase = "broadcast"
  /\ toSend' = [e \in Entities |->
       IF HasNews /\ e \in Audience
       THEN Append(toSend[e], SpawnDespawn(newSpawns, newDespawns))
       ELSE toSend[e]]
  /\ ForgetNews
  /\ Enter("snapshot", {})
  /\ UNCHANGED <<accepted, live, tags, conn, received, initMessage, events, starts,
                 registryVars, link>>

\* SendSnapshotSystem queues one snapshot for every connection, ready or not,
\* after the messages of this tick.
SendSnapshots ==
  /\ phase = "snapshot"
  /\ toSend' = [e \in Entities |->
       IF "snapshot" \in Traffic /\ e \in live THEN Append(toSend[e], Snapshot) ELSE toSend[e]]
  /\ Enter("send", Linked)
  /\ UNCHANGED <<accepted, live, tags, conn, received, initMessage, events, starts,
                 registryVars, spawnVars, link>>

\* SendTcpMessageSystem serializes what is queued and sends it; the first send
\* that fails, also because it would block, ends the connection.
Serialized(msgs) ==
  [i \in 1..Len(msgs) |->
     IF msgs[i].type = "InitializeClient" THEN InitializeClient(initMessage) ELSE msgs[i]]

SendTcpMessages(e) ==
  /\ phase = "send" /\ e \in todo
  /\ \E k \in SentCounts(toClient[conn[e]], clientEnd[conn[e]] = "open", toSend[e]) :
       /\ ServerSends(conn[e], Serialized(Take(toSend[e], k)))
       /\ toSend' = [toSend EXCEPT ![e] = Drop(@, k)]
       /\ tags' = [tags EXCEPT ![e] =
            IF k < Len(toSend[e]) THEN @ \cup {"PendingDisconnect"} ELSE @]
  /\ Visited(e)
  /\ UNCHANGED <<accepted, live, conn, received, initMessage, events, starts,
                 registryVars, spawnVars>>

\* The InitializeClientMessage of the tick is needed no longer: one that was not
\* serialized belongs to a connection that failed.
SendDone ==
  /\ phase = "send" /\ todo = {}
  /\ Enter("idle", {})
  /\ initMessage' = 0
  /\ UNCHANGED <<accepted, ecs, events, starts, registryVars, spawnVars, link>>

-----------------------------------------------------------------------------
ServerApp ==
  \/ CreateNetworkEntity
  \/ \E n \in Spawns!NetworkIds : DestroyNetworkEntity(n)
  \/ \E id \in Registry!ClientIds : SendTcpMessage(id)

\* The steps of a tick: the loop calls beginUpdate and endUpdate again and again.
ServerTick ==
  \/ DisconnectSystem \/ PendingDisconnectSystem \/ ForgetNewConnections
  \/ AcceptedSocketFails \/ AcceptDone \/ ReceiveDone
  \/ EndUpdate \/ ReportDone \/ ReadyDone \/ InitializeDone
  \/ SendNewSpawnDespawn \/ SendSnapshots \/ SendDone
  \/ \E e \in Entities :
       \/ AcceptConnection(e) \/ ReceiveTcpMessages(e) \/ ReceiveFails(e)
       \/ DisconnectedClient(e) \/ SetClientReady(e) \/ InitializeNewClient(e)
       \/ SendTcpMessages(e)

ServerNext == Start \/ Stop \/ ServerApp \/ ServerTick
=============================================================================
