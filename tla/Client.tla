------------------------------- MODULE Client -------------------------------
(***************************************************************************)
(* The client processes, each with the Client of one connection: connectTo,*)
(* then tick after tick beginUpdate, the application, endUpdate, as in the *)
(* loop of TestClient.  The client's engine has a single entity, itself.   *)
(* A process ends when its connection is lost, or connects again: the same *)
(* Client then has a new connection, and its members live on.              *)
(***************************************************************************)
EXTENDS Naturals, Sequences, SequencesExt, Server

CONSTANT Processes  \* the client processes, named by their first connections

ASSUME ClientAssumption == Processes \subseteq Conns

VARIABLES
  process,         \* the process that made a connection, NoConn if none did
  clientPhase,     \* off, idle, app (after beginUpdate), end (after the
                   \* application), disconnected (by itself), left (for
                   \* another connection), exited
  clientTags,      \* tags of the self entity
  clientReceived,  \* its m_receivedMessages
  clientToSend,    \* its m_messagesToSend
  clientId,        \* Client::m_clientId
  spawnQueue,      \* client::SpawnDespawnManager::m_spawns
  despawnQueue,    \* client::SpawnDespawnManager::m_despawns
  known,           \* the network ids the application knows
  inherited        \* history: the connections whose session began with news of
                   \* an earlier one in the queues; no action reads it

clientVars == <<process, clientPhase, clientTags, clientReceived, clientToSend, clientId,
                spawnQueue, despawnQueue, known, inherited>>

IsConnected(c) == "Connected" \in clientTags[c]
IsReady(c) == "ClientIsReady" \in clientTags[c]

ClientInit ==
  /\ process = [c \in Conns |-> IF c \in Processes THEN c ELSE NoConn]
  /\ clientPhase = [c \in Conns |-> "off"]
  /\ clientTags = [c \in Conns |-> {}]
  /\ clientReceived = [c \in Conns |-> <<>>]
  /\ clientToSend = [c \in Conns |-> <<>>]
  /\ clientId = [c \in Conns |-> 0]
  /\ spawnQueue = [c \in Conns |-> <<>>]
  /\ despawnQueue = [c \in Conns |-> <<>>]
  /\ known = [c \in Conns |-> {}]
  /\ inherited = {}

-----------------------------------------------------------------------------
\* The first Client::connectTo of a process, to a server that listens; otherwise
\* it has no effect.
ConnectTo(c) ==
  /\ process[c] = c /\ clientPhase[c] = "off" /\ phase # "stopped"
  /\ Connect(c)
  /\ clientPhase' = [clientPhase EXCEPT ![c] = "idle"]
  /\ clientTags' = [clientTags EXCEPT ![c] = {"Connected"}]
  /\ UNCHANGED <<process, clientReceived, clientToSend, clientId, spawnQueue, despawnQueue, known,
                 inherited>>

\* At any moment without a connection, which was lost or given up, also in a tick
\* whose news the application has not taken.
MayReconnect(c) ==
  /\ "reconnect" \in Failures
  /\ clientPhase[c] \in {"idle", "app", "end", "disconnected"} /\ ~IsConnected(c)

\* Has the SpawnDespawnManager of c something the application has not taken?
HoldsNews(c) == spawnQueue[c] # <<>> \/ despawnQueue[c] # <<>>

\* Client::connectTo of a process that was connected before: d is its new
\* connection.  SpawnDespawnManager and m_clientId belong to the Client and stay
\* as they are (the m_clientId that connectTo sets is a variable of its own).  The
\* engine is replaced, without closing its socket, and the application forgets
\* the entities of the old session.
ConnectAgain(c, d) ==
  /\ MayReconnect(c) /\ process[d] = NoConn /\ phase # "stopped"
  /\ Connect(d)
  /\ process' = [process EXCEPT ![d] = process[c]]
  /\ clientPhase' = [clientPhase EXCEPT ![c] = "left", ![d] = "idle"]
  /\ clientTags' = [clientTags EXCEPT ![c] = {}, ![d] = {"Connected"}]
  /\ clientReceived' = [clientReceived EXCEPT ![c] = <<>>]
  /\ clientToSend' = [clientToSend EXCEPT ![c] = <<>>]
  /\ clientId' = [clientId EXCEPT ![c] = 0, ![d] = clientId[c]]
  /\ spawnQueue' = [spawnQueue EXCEPT ![c] = <<>>, ![d] = spawnQueue[c]]
  /\ despawnQueue' = [despawnQueue EXCEPT ![c] = <<>>, ![d] = despawnQueue[c]]
  /\ known' = [known EXCEPT ![c] = {}]
  /\ inherited' = inherited \cup {b \in {d} : HoldsNews(c)}

\* The same while no server listens.
ConnectAgainFails(c) ==
  /\ MayReconnect(c) /\ phase = "stopped"
  /\ clientPhase' = [clientPhase EXCEPT ![c] = "disconnected"]
  /\ clientTags' = [clientTags EXCEPT ![c] = {}]
  /\ clientReceived' = [clientReceived EXCEPT ![c] = <<>>]
  /\ clientToSend' = [clientToSend EXCEPT ![c] = <<>>]
  /\ UNCHANGED <<process, clientId, spawnQueue, despawnQueue, known, inherited, link>>

\* Client::receiveSpawnDespawnMessage: the spawns and despawns of all messages
\* are queued for the application, in their order.
SpawnsOf(m) == IF m.type = "SpawnDespawn" THEN m.spawns ELSE <<>>
DespawnsOf(m) == IF m.type = "SpawnDespawn" THEN m.despawns ELSE <<>>

AllSpawned(msgs) == FlattenSeq([i \in DOMAIN msgs |-> SpawnsOf(msgs[i])])
AllDespawned(msgs) == FlattenSeq([i \in DOMAIN msgs |-> DespawnsOf(msgs[i])])

ReceiveSpawnDespawn(c, msgs) ==
  /\ spawnQueue' = [spawnQueue EXCEPT ![c] = @ \o AllSpawned(msgs)]
  /\ despawnQueue' = [despawnQueue EXCEPT ![c] = @ \o AllDespawned(msgs)]

\* Mutated form: the client is not ready any more.
LostReadiness(t) == {"Disconnected"}

\* PendingDisconnectSystem takes the connection away, not the readiness.
LostTags(t) == (t \ {"PendingDisconnect", "Connected"}) \cup {"Disconnected"}

\* Client::beginUpdate when the last send failed: PendingDisconnectSystem ends
\* the connection, so nothing is received, but the messages of the last tick
\* are still there and are read again.
BeginUpdateDisconnects(c) ==
  /\ clientPhase[c] = "idle" /\ {"Connected", "PendingDisconnect"} \subseteq clientTags[c]
  /\ clientTags' = [clientTags EXCEPT ![c] =
       LostTags(@)]
  /\ ReceiveSpawnDespawn(c, clientReceived[c])
  /\ clientPhase' = [clientPhase EXCEPT ![c] = "app"]
  /\ UNCHANGED <<process, clientReceived, clientToSend, clientId, known, inherited, link>>

\* Client::beginUpdate on a working connection.
BeginUpdate(c) ==
  /\ clientPhase[c] = "idle" /\ IsConnected(c) /\ "PendingDisconnect" \notin clientTags[c]
  /\ \/ \E k \in 0..Len(toClient[c]) :
          /\ clientReceived' = [clientReceived EXCEPT ![c] = Take(toClient[c], k)]
          /\ ClientReceives(c, k)
          /\ UNCHANGED clientTags
     \/ /\ serverEnd[c] = "closed"
        /\ clientReceived' = [clientReceived EXCEPT ![c] = <<>>]
        /\ clientTags' = [clientTags EXCEPT ![c] = @ \cup {"PendingDisconnect"}]
        /\ UNCHANGED link
  /\ ReceiveSpawnDespawn(c, clientReceived'[c])
  /\ clientPhase' = [clientPhase EXCEPT ![c] = "app"]
  /\ UNCHANGED <<process, clientToSend, clientId, known, inherited>>

\* The application, once ready, takes all spawns, then all despawns, and may
\* send a message.
Application(c) ==
  /\ clientPhase[c] = "app"
  /\ IF IsReady(c)
     THEN /\ known' = [known EXCEPT ![c] =
               (@ \cup Spawns!Members(spawnQueue[c])) \ Spawns!Members(despawnQueue[c])]
          /\ spawnQueue' = [spawnQueue EXCEPT ![c] = <<>>]
          /\ despawnQueue' = [despawnQueue EXCEPT ![c] = <<>>]
          /\ \/ UNCHANGED clientToSend
             \/ /\ "app" \in Traffic /\ IsConnected(c)
                /\ clientToSend' = [clientToSend EXCEPT ![c] = Append(@, AppMessage)]
     ELSE UNCHANGED <<known, spawnQueue, despawnQueue, clientToSend>>
  /\ clientPhase' = [clientPhase EXCEPT ![c] = "end"]
  /\ UNCHANGED <<process, clientTags, clientReceived, clientId, inherited, link>>

\* messages.at(0) of the messages of type t is the message at i.
IsFirst(msgs, i, t) == msgs[i].type = t /\ ~HasMessage(Take(msgs, i - 1), t)

\* Mutated form: the server is not answered.
NoAnswer(c) == clientToSend[c]

Answer(c) == Append(clientToSend[c], ClientIsReady)

\* Client::endUpdate in the tick that brought the InitializeClientMessage: the
\* elapsed time is reset, so the engine's endUpdate does nothing.
EndUpdateInitializes(c) ==
  /\ clientPhase[c] = "end" /\ IsConnected(c)
  /\ \E i \in 1..Len(clientReceived[c]) :
       /\ IsFirst(clientReceived[c], i, "InitializeClient")
       /\ clientId' = [clientId EXCEPT ![c] = clientReceived[c][i].id]
  /\ clientTags' = [clientTags EXCEPT ![c] = @ \cup {"ClientIsReady"}]
  /\ clientToSend' = [clientToSend EXCEPT ![c] = Answer(c)]
  /\ clientPhase' = [clientPhase EXCEPT ![c] = "idle"]
  /\ UNCHANGED <<process, clientReceived, spawnQueue, despawnQueue, known, inherited, link>>

\* Client::endUpdate in any other tick sends what is queued.
EndUpdateSends(c) ==
  /\ clientPhase[c] = "end" /\ IsConnected(c)
  /\ ~HasMessage(clientReceived[c], "InitializeClient")
  /\ IF "PendingDisconnect" \in clientTags[c]
     THEN UNCHANGED <<clientTags, clientToSend, link>>
     ELSE \E k \in SentCounts(toServer[c], serverEnd[c] # "closed", clientToSend[c]) :
            /\ ClientSends(c, Take(clientToSend[c], k))
            /\ clientToSend' = [clientToSend EXCEPT ![c] = Drop(@, k)]
            /\ clientTags' = [clientTags EXCEPT ![c] =
                 IF k < Len(clientToSend[c]) THEN @ \cup {"PendingDisconnect"} ELSE @]
  /\ clientPhase' = [clientPhase EXCEPT ![c] = "idle"]
  /\ UNCHANGED <<process, clientReceived, clientId, spawnQueue, despawnQueue, known, inherited>>

\* Client::disconnect: the engine is destroyed, and with it the component that
\* holds the socket, but its destructor does not run.
Disconnect(c) ==
  /\ "disconnect" \in Failures
  /\ clientPhase[c] \in {"idle", "app", "end"} /\ IsConnected(c)
  /\ IF HasDestroyFunc(TRUE) THEN CloseClientEnds({c}) ELSE UNCHANGED link
  /\ clientPhase' = [clientPhase EXCEPT ![c] = "disconnected"]
  /\ clientTags' = [clientTags EXCEPT ![c] = {}]
  /\ clientReceived' = [clientReceived EXCEPT ![c] = <<>>]
  /\ clientToSend' = [clientToSend EXCEPT ![c] = <<>>]
  /\ spawnQueue' = [spawnQueue EXCEPT ![c] = <<>>]
  /\ despawnQueue' = [despawnQueue EXCEPT ![c] = <<>>]
  /\ UNCHANGED <<process, clientId, known, inherited>>

\* The process ends, at any moment or because its connection was lost; its
\* memory is gone and the operating system closes its sockets, those of lost
\* connections too.
Exit(c) ==
  /\ clientPhase[c] \notin {"off", "left", "exited"}
  /\ "exit" \in Failures \/ ~IsConnected(c)
  /\ CloseClientEnds({d \in Conns : process[d] = process[c] /\ clientPhase[d] # "off"})
  /\ clientPhase' = [clientPhase EXCEPT ![c] = "exited"]
  /\ clientTags' = [clientTags EXCEPT ![c] = {}]
  /\ clientReceived' = [clientReceived EXCEPT ![c] = <<>>]
  /\ clientToSend' = [clientToSend EXCEPT ![c] = <<>>]
  /\ clientId' = [clientId EXCEPT ![c] = 0]
  /\ spawnQueue' = [spawnQueue EXCEPT ![c] = <<>>]
  /\ despawnQueue' = [despawnQueue EXCEPT ![c] = <<>>]
  /\ known' = [known EXCEPT ![c] = {}]
  /\ UNCHANGED <<process, inherited>>

ClientTick(c) ==
  \/ BeginUpdate(c) \/ BeginUpdateDisconnects(c)
  \/ Application(c)
  \/ EndUpdateInitializes(c) \/ EndUpdateSends(c)

\* The loop of the process ends when the client is no longer connected.
LosesConnection(c) ==
  /\ clientPhase[c] \in {"app", "end", "idle"} /\ ~IsConnected(c)
  /\ Exit(c)
=============================================================================
