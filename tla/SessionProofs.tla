---------------------------- MODULE SessionProofs ----------------------------
(***************************************************************************)
(* What holds in every session, for every number of connections, clients,  *)
(* ids and network entities, whatever fails and whoever takes a step next. *)
(*                                                                         *)
(* No step checks what is proved here.  It follows from the order of the   *)
(* phases of a server's tick and from what is on its way between a server  *)
(* and a client, which the invariants below spell out, each resting on     *)
(* those before:                                                           *)
(*   ServerInv     the registry holds entities that exist                  *)
(*   SpawnInv      the record of network entities, as in its own module    *)
(*   Typed         the types of all variables                              *)
(*   TagInv        the tags an entity has in each phase of a tick          *)
(*   ConnInv       a connection has one entity, and one client             *)
(*   QuietInv      who is not greeted is sent nothing and says nothing     *)
(*   HandshakeInv  what a client hears until it is ready, and after        *)
(*   QueuesTaken   a client has news only while its application is next    *)
(*   AnswerInv     whose answer the server has still to read               *)
(*   ListsInv      whom the server's application is told of                *)
(*   NewsInv       what a client will know of network entities             *)
(*   IdsInv        which ids clients are told, and believe                 *)
(***************************************************************************)
EXTENDS Session, Induction, FiniteSetTheorems, SequenceTheorems, TLAPS

Facts == INSTANCE ClientEntityRegistryProofs

\* The entities that have a client id.
registered == DOMAIN entityClientLookup

\* The types that matter here, and entities that loops visit exist.
TablesTyped ==
  /\ phase \in Phases
  /\ live \subseteq Entities /\ todo \subseteq live
  /\ tags \in [Entities -> SUBSET Tags]

\* A running server has a connection for everyone it registered.
RegisteredLive == phase # "stopped" => registered \subseteq live

\* A registered entity is disconnected only between PendingDisconnectSystem and
\* its report.
DisconnectedIsReported ==
  \A e \in registered : "Disconnected" \in tags[e] =>
    \/ phase \in {"stopped", "forget", "accept", "receive", "app"}
    \/ phase = "report" /\ e \in todo

\* A connection that is new was not yet disconnected, once PendingDisconnectSystem
\* and AcceptConnectionSystem have begun the tick.
NewIsNotDisconnected ==
  phase \notin {"stopped", "idle", "pending", "forget"} =>
    \A e \in Entities : "NewConnection" \in tags[e] => "Disconnected" \notin tags[e]

\* A registered entity is new only from its registration to the next tick.
NewIsRegisteredOnce ==
  \A e \in registered : phase # "stopped" /\ "NewConnection" \in tags[e] =>
    /\ phase \notin {"accept", "receive", "app", "report", "ready"}
    /\ phase = "initialize" => e \notin todo

\* initializeNewClient visits new connections.
OnlyNewAreInitialized ==
  phase = "initialize" => \A e \in todo : "NewConnection" \in tags[e]

\* The invariant of the tables of a server.
ServerInv ==
  /\ TablesTyped
  /\ Facts!RegistryInv
  /\ RegisteredLive
  /\ DisconnectedIsReported
  /\ NewIsNotDisconnected
  /\ NewIsRegisteredOnce
  /\ OnlyNewAreInitialized

\* The variables ServerInv speaks of.
tableVars == <<phase, todo, live, tags, registryVars>>

-----------------------------------------------------------------------------
\* The constants of a session are as the registry needs them.
LEMMA RegistryConstants == Facts!RegistryAssumption
  BY ServerAssumption DEF ServerAssumption, Facts!RegistryAssumption

\* The size of the lookup is the same number in both instances of the registry.
LEMMA SameCardinality ==
  ASSUME NEW S
  PROVE  Facts!Cardinality(S) = Registry!Cardinality(S)
  BY DEF Facts!Cardinality, Registry!Cardinality

\* The loop of initializeNewClient registers as ClientEntityRegistry describes.
LEMMA RegisterEffect ==
  ASSUME ServerInv, NEW e \in Entities, e \notin registered,
         nextClientId \in Registry!ClientIds, Registry!AddClientId(nextClientId, e),
         nextClientId' = nextClientId + 1
  PROVE  /\ Registry!Register(e)
         /\ Facts!RegistryInv'
         /\ registered' = registered \cup {e}
  <1>1. Registry!Register(e)
    BY DEF Registry!Register, Registry!GetClientId, registered
  <1>2. Facts!Register(e)
    BY DEF Facts!Register, Facts!GetClientId, Facts!ClientIds, Registry!ClientIds,
           Facts!AddClientId, Registry!AddClientId,
           Facts!InsertOrAssign, Registry!InsertOrAssign, registered
  <1>3. Facts!RegistryInv'
    BY <1>2, RegistryConstants, Facts!RegisterKeepsInv DEF ServerInv
  <1>4. registered' = registered \cup {e}
    BY DEF Registry!AddClientId, Registry!InsertOrAssign, registered
  <1>5. QED
    BY <1>1, <1>3, <1>4

\* A registered entity has a client id.
LEMMA RegisteredHasId ==
  ASSUME ServerInv, NEW e \in Entities
  PROVE  Registry!GetClientId(e) # Registry!NullClientId <=> e \in registered
  BY DEF ServerInv, Facts!RegistryInv, Facts!TypeOK, Facts!IsMap, Facts!ClientIds,
         Registry!GetClientId, Registry!NullClientId, registered

\* The loop of disconnectedClient unregisters as ClientEntityRegistry describes.
LEMMA UnregisterEffect ==
  ASSUME ServerInv, NEW e \in Entities, e \in registered,
         Registry!RemoveClientId(Registry!GetClientId(e)), UNCHANGED nextClientId
  PROVE  /\ Registry!Unregister(e)
         /\ Facts!RegistryInv'
         /\ registered' = registered \ {e}
  <1>1. Registry!Unregister(e)
    BY RegisteredHasId DEF Registry!Unregister
  <1>2. Facts!Unregister(e)
    <2>1. Facts!GetClientId(e) = Registry!GetClientId(e)
      BY DEF Facts!GetClientId, Registry!GetClientId, Facts!NullClientId, Registry!NullClientId
    <2>2. Facts!GetClientId(e) # Facts!NullClientId
      BY <2>1, RegisteredHasId DEF Facts!NullClientId, Registry!NullClientId
    <2>3. Facts!RemoveClientId(Registry!GetClientId(e))
      BY SameCardinality
      DEF Facts!RemoveClientId, Registry!RemoveClientId, Facts!registry, Registry!registry,
          Facts!InsertOrAssign, Registry!InsertOrAssign, Facts!Erase, Registry!Erase,
          Facts!IsLast, Registry!IsLast, Facts!FillHole, Registry!FillHole,
          Facts!RemoveLast, Registry!RemoveLast, Facts!ForgetOwner, Registry!ForgetOwner
    <2>4. QED
      BY <2>1, <2>2, <2>3 DEF Facts!Unregister
  <1>3. Facts!RegistryInv'
    BY <1>2, RegistryConstants, Facts!UnregisterKeepsInv DEF ServerInv
  <1>4. registered' = registered \ {e}
    <2> DEFINE id == entityClientLookup[e]
               at == clientEntityLookup[id]
    <2>1. Registry!GetClientId(e) = id /\ id \in DOMAIN clientEntityLookup /\ entities[at] = e
      BY DEF ServerInv, Facts!RegistryInv, Registry!GetClientId, registered
    <2>2. entityClientLookup' = Registry!ForgetOwner(at)
      BY <2>1 DEF Registry!RemoveClientId
    <2>3. QED
      BY <2>1, <2>2 DEF Registry!ForgetOwner, Registry!Erase, registered
  <1>5. QED
    BY <1>1, <1>3, <1>4

-----------------------------------------------------------------------------
\* Nothing is registered, and no loop runs, before the server starts.
LEMMA InitServerInv == Init => ServerInv
  <1> SUFFICES ASSUME Init PROVE ServerInv
    OBVIOUS
  <1>1. Facts!Init
    BY DEF Init, ServerInit, Registry!Init, Facts!Init, Registry!EmptyMap, Facts!EmptyMap
  <1>2. Facts!RegistryInv
    BY <1>1, RegistryConstants, Facts!InitRegistryInv
  <1>3. registered = {}
    BY DEF Init, ServerInit, Registry!Init, Registry!EmptyMap, registered
  <1>4. TablesTyped
    BY DEF Init, ServerInit, TablesTyped, Phases
  <1>5. QED
    BY <1>2, <1>3, <1>4
    DEF Init, ServerInit, ServerInv, RegisteredLive, DisconnectedIsReported,
        NewIsNotDisconnected, NewIsRegisteredOnce, OnlyNewAreInitialized

\* Steps of the clients and of the network, and those of the server that touch
\* neither tags nor the registry nor a loop.
LEMMA QuietKeepsInv ==
  ASSUME ServerInv, UNCHANGED tableVars
  PROVE  ServerInv'
  BY DEF ServerInv, tableVars, registryVars, registry, TablesTyped, Facts!RegistryInv,
         Facts!TypeOK, RegisteredLive, DisconnectedIsReported, NewIsNotDisconnected,
         NewIsRegisteredOnce, OnlyNewAreInitialized, registered

\* The invariant of the registry as long as the registry stays the same.
LEMMA SameRegistry ==
  ASSUME ServerInv, UNCHANGED registryVars
  PROVE  Facts!RegistryInv' /\ registered' = registered
  BY DEF ServerInv, registryVars, registry, Facts!RegistryInv, Facts!TypeOK, registered

\* Server::start assigns a new registry.
LEMMA StartKeepsInv ==
  ASSUME ServerInv, Start
  PROVE  ServerInv' /\ Registry!Restart
  <1>1. Registry!Restart /\ phase' = "idle" /\ todo' = {} /\ UNCHANGED <<live, tags>>
    BY DEF Start, Enter, ecs
  <1>2. Facts!Restart
    BY <1>1 DEF Registry!Restart, Facts!Restart, Registry!ResetRegistry, Facts!ResetRegistry,
                Registry!EmptyMap, Facts!EmptyMap
  <1>3. Facts!RegistryInv'
    BY <1>2, RegistryConstants, Facts!RestartKeepsInv DEF ServerInv
  <1>4. registered' = {}
    BY <1>1 DEF Registry!Restart, Registry!ResetRegistry, Registry!EmptyMap, registered
  <1>5. QED
    BY <1>1, <1>3, <1>4
    DEF ServerInv, TablesTyped, Phases, RegisteredLive, DisconnectedIsReported,
        NewIsNotDisconnected, NewIsRegisteredOnce, OnlyNewAreInitialized

\* A stopped server keeps its registry, of which nobody makes use.
LEMMA StopKeepsInv ==
  ASSUME ServerInv, Stop
  PROVE  ServerInv'
  <1>1. /\ phase' = "stopped" /\ todo' = {} /\ live' = {}
        /\ tags' \in [Entities -> SUBSET Tags]
        /\ UNCHANGED registryVars
    BY DEF Stop, Enter, DestroyEntities, ServerInv, TablesTyped
  <1>2. QED
    BY <1>1, SameRegistry
    DEF ServerInv, TablesTyped, Phases, RegisteredLive, DisconnectedIsReported,
        NewIsNotDisconnected, NewIsRegisteredOnce, OnlyNewAreInitialized

-----------------------------------------------------------------------------
(* beginUpdate.                                                            *)

\* What was reported is no longer registered, so that its entity may go.
LEMMA DisconnectSystemKeepsInv ==
  ASSUME ServerInv, DisconnectSystem
  PROVE  ServerInv'
  <1>1. /\ phase = "idle" /\ phase' = "pending" /\ todo' = {}
        /\ live' = live \ ReportedEntities
        /\ tags' = [e \in Entities |-> IF e \in ReportedEntities THEN {} ELSE tags[e]]
        /\ UNCHANGED registryVars
    BY DEF DisconnectSystem, DestroyEntities, Enter
  <1>2. \A e \in registered : e \notin ReportedEntities
    BY <1>1 DEF ServerInv, DisconnectedIsReported, ReportedEntities, With
  <1>3. QED
    BY <1>1, <1>2, SameRegistry
    DEF ServerInv, TablesTyped, Phases, RegisteredLive, DisconnectedIsReported,
        NewIsNotDisconnected, NewIsRegisteredOnce, OnlyNewAreInitialized

\* From here to the report registered entities may be disconnected.
LEMMA PendingDisconnectSystemKeepsInv ==
  ASSUME ServerInv, PendingDisconnectSystem
  PROVE  ServerInv'
  <1>1. /\ phase = "pending" /\ phase' = "forget" /\ todo' = {}
        /\ UNCHANGED <<live, registryVars>>
        /\ tags' \in [Entities -> SUBSET Tags]
    BY DEF PendingDisconnectSystem, Enter, ServerInv, TablesTyped, Tags
  <1>2. QED
    BY <1>1, SameRegistry
    DEF ServerInv, TablesTyped, Phases, RegisteredLive, DisconnectedIsReported,
        NewIsNotDisconnected, NewIsRegisteredOnce, OnlyNewAreInitialized

\* No connection is new until the next one is accepted.
LEMMA ForgetKeepsInv ==
  ASSUME ServerInv, ForgetNewConnections
  PROVE  ServerInv'
  <1>1. /\ phase = "forget" /\ phase' = "accept" /\ todo' = {}
        /\ UNCHANGED <<live, registryVars>>
        /\ tags' = [e \in Entities |-> tags[e] \ {"NewConnection"}]
    BY DEF ForgetNewConnections, NoLongerNew, Enter
  <1>2. QED
    BY <1>1, SameRegistry
    DEF ServerInv, TablesTyped, Phases, RegisteredLive, DisconnectedIsReported,
        NewIsNotDisconnected, NewIsRegisteredOnce, OnlyNewAreInitialized

\* The entity of a new connection was not there, so it is not registered.
LEMMA AcceptKeepsInv ==
  ASSUME ServerInv, NEW e \in Entities, AcceptConnection(e)
  PROVE  ServerInv'
  <1>1. /\ phase = "accept" /\ e \notin live
        /\ live' = live \cup {e}
        /\ tags' = [tags EXCEPT ![e] = {"NewConnection", "Connected"}]
        /\ UNCHANGED <<phase, todo, registryVars>>
    BY DEF AcceptConnection
  <1>2. e \notin registered
    BY <1>1 DEF ServerInv, RegisteredLive
  <1>3. QED
    BY <1>1, <1>2, SameRegistry
    DEF ServerInv, TablesTyped, Tags, RegisteredLive, DisconnectedIsReported,
        NewIsNotDisconnected, NewIsRegisteredOnce, OnlyNewAreInitialized

\* The loops of the systems start over entities that exist.
LEMMA LoopStartsKeepInv ==
  ASSUME ServerInv, AcceptDone \/ ReceiveDone \/ EndUpdate \/ ReportDone \/ ReadyDone
  PROVE  ServerInv'
  <1> USE SameRegistry
      DEF ServerInv, TablesTyped, Phases, RegisteredLive, DisconnectedIsReported,
          NewIsNotDisconnected, NewIsRegisteredOnce, OnlyNewAreInitialized, Enter, With
  <1>1. CASE AcceptDone
    BY <1>1 DEF AcceptDone, ecs, Linked
  <1>2. CASE ReceiveDone
    BY <1>2 DEF ReceiveDone, ecs
  <1>3. CASE EndUpdate
    BY <1>3 DEF EndUpdate, ecs
  <1>4. CASE ReportDone
    BY <1>4 DEF ReportDone, ecs
  <1>5. CASE ReadyDone
    BY <1>5 DEF ReadyDone, ecs
  <1>6. QED
    BY <1>1, <1>2, <1>3, <1>4, <1>5

\* The loops after the registration.
LEMMA LaterLoopsKeepInv ==
  ASSUME ServerInv, InitializeDone \/ SendNewSpawnDespawn \/ SendSnapshots \/ SendDone
  PROVE  ServerInv'
  <1> USE SameRegistry
      DEF ServerInv, TablesTyped, Phases, RegisteredLive, DisconnectedIsReported,
          NewIsNotDisconnected, NewIsRegisteredOnce, OnlyNewAreInitialized, Enter, With
  <1>1. CASE InitializeDone
    BY <1>1 DEF InitializeDone, ecs
  <1>2. CASE SendNewSpawnDespawn
    BY <1>2 DEF SendNewSpawnDespawn
  <1>3. CASE SendSnapshots
    BY <1>3 DEF SendSnapshots, Linked
  <1>4. CASE SendDone
    BY <1>4 DEF SendDone, ecs
  <1>5. QED
    BY <1>1, <1>2, <1>3, <1>4

\* A receive or a send may give a connection up, which is not yet its end.
LEMMA TransferKeepsInv ==
  ASSUME ServerInv, NEW e \in Entities,
         ReceiveTcpMessages(e) \/ ReceiveFails(e) \/ SendTcpMessages(e)
  PROVE  ServerInv'
  <1>1. /\ phase \in {"receive", "send"} /\ UNCHANGED <<phase, live, registryVars>>
        /\ todo' = todo \ {e}
        /\ \/ UNCHANGED tags
           \/ tags' = [tags EXCEPT ![e] = @ \cup {"PendingDisconnect"}]
    <2>1. CASE ReceiveTcpMessages(e)
      BY <2>1 DEF ReceiveTcpMessages, Visited
    <2>2. CASE ReceiveFails(e)
      BY <2>2 DEF ReceiveFails, Visited, Failed
    <2>3. CASE SendTcpMessages(e)
      BY <2>3 DEF SendTcpMessages, Visited, ServerInv, TablesTyped
    <2>4. QED
      BY <2>1, <2>2, <2>3
  <1>2. /\ tags' \in [Entities -> SUBSET Tags]
        /\ \A d \in Entities, t \in {"NewConnection", "Disconnected"} :
             t \in tags'[d] <=> t \in tags[d]
    BY <1>1 DEF ServerInv, TablesTyped, Tags
  <1>3. registered \subseteq Entities
    BY DEF ServerInv, Facts!RegistryInv, Facts!TypeOK, Facts!IsMap, registered
  <1>4. QED
    BY <1>1, <1>2, <1>3, SameRegistry
    DEF ServerInv, TablesTyped, RegisteredLive, DisconnectedIsReported,
        NewIsNotDisconnected, NewIsRegisteredOnce, OnlyNewAreInitialized

-----------------------------------------------------------------------------
(* endUpdate.                                                              *)

\* A disconnection that is reported ends the registration.
LEMMA ReportKeepsInv ==
  ASSUME ServerInv, NEW e \in Entities, DisconnectedClient(e)
  PROVE  ServerInv' /\ (Registry!Unregister(e) \/ UNCHANGED registryVars)
  <1>1. /\ phase = "report" /\ e \in todo /\ todo' = todo \ {e}
        /\ UNCHANGED <<phase, live, tags, nextClientId>>
    BY DEF DisconnectedClient, Visited, ecs
  <1>2. \/ Registry!Unregister(e)
        \/ e \notin registered /\ UNCHANGED registryVars
    BY RegisteredHasId, UnregisterEffect DEF DisconnectedClient, registryVars
  <1>3. Facts!RegistryInv' /\ registered' = registered \ {e}
    <2>1. CASE e \in registered
      BY <2>1, RegisteredHasId, UnregisterEffect DEF DisconnectedClient
    <2>2. CASE e \notin registered
      BY <2>2, RegisteredHasId, SameRegistry DEF DisconnectedClient, registryVars
    <2>3. QED
      BY <2>1, <2>2
  <1>4. ServerInv'
    BY <1>1, <1>3
    DEF ServerInv, TablesTyped, RegisteredLive, DisconnectedIsReported,
        NewIsNotDisconnected, NewIsRegisteredOnce, OnlyNewAreInitialized
  <1>5. QED
    BY <1>2, <1>4

\* The answer to a client does not change whether it is new or disconnected.
LEMMA ReadyKeepsInv ==
  ASSUME ServerInv, NEW e \in Entities, SetClientReady(e)
  PROVE  ServerInv'
  <1>1. /\ phase = "ready" /\ UNCHANGED <<phase, live, registryVars>>
        /\ todo' = todo \ {e}
        /\ \/ UNCHANGED tags
           \/ tags' = [tags EXCEPT
                ![e] = (@ \ {"WaitingClientIsReady"}) \cup {"ClientIsReady"}]
    BY DEF SetClientReady, Visited
  <1>2. /\ tags' \in [Entities -> SUBSET Tags]
        /\ \A d \in Entities, t \in {"NewConnection", "Disconnected"} :
             t \in tags'[d] <=> t \in tags[d]
    BY <1>1 DEF ServerInv, TablesTyped, Tags
  <1>3. registered \subseteq Entities
    BY DEF ServerInv, Facts!RegistryInv, Facts!TypeOK, Facts!IsMap, registered
  <1>4. QED
    BY <1>1, <1>2, <1>3, SameRegistry
    DEF ServerInv, TablesTyped, RegisteredLive, DisconnectedIsReported,
        NewIsNotDisconnected, NewIsRegisteredOnce, OnlyNewAreInitialized

\* A connection that is new is not registered yet, and it is not disconnected.
LEMMA InitializeKeepsInv ==
  ASSUME ServerInv, NEW e \in Entities, InitializeNewClient(e)
  PROVE  ServerInv' /\ Registry!Register(e)
  <1>1. /\ phase = "initialize" /\ e \in todo /\ e \in live
        /\ todo' = todo \ {e} /\ UNCHANGED <<phase, live>>
        /\ tags' = [tags EXCEPT ![e] = @ \cup {"WaitingClientIsReady"}]
    BY DEF InitializeNewClient, Visited, ServerInv, TablesTyped
  <1>2. "NewConnection" \in tags[e] /\ "Disconnected" \notin tags[e]
    BY <1>1 DEF ServerInv, OnlyNewAreInitialized, NewIsNotDisconnected
  <1>3. e \notin registered
    BY <1>1, <1>2 DEF ServerInv, NewIsRegisteredOnce
  <1>4. /\ Registry!Register(e) /\ Facts!RegistryInv'
        /\ registered' = registered \cup {e}
    BY <1>3, RegisterEffect DEF InitializeNewClient
  <1>5. /\ tags' \in [Entities -> SUBSET Tags]
        /\ \A d \in Entities, t \in {"NewConnection", "Disconnected"} :
             t \in tags'[d] <=> t \in tags[d]
    BY <1>1 DEF ServerInv, TablesTyped, Tags
  <1>6. registered \subseteq Entities
    BY DEF ServerInv, Facts!RegistryInv, Facts!TypeOK, Facts!IsMap, registered
  <1>7. QED
    BY <1>1, <1>2, <1>4, <1>5, <1>6
    DEF ServerInv, TablesTyped, RegisteredLive, DisconnectedIsReported,
        NewIsNotDisconnected, NewIsRegisteredOnce, OnlyNewAreInitialized

\* A socket that is closed at once and what the application does.
LEMMA ApplicationIsQuiet ==
  ASSUME AcceptedSocketFails \/ ServerApp
  PROVE  UNCHANGED tableVars
  BY DEF AcceptedSocketFails, ServerApp, CreateNetworkEntity, DestroyNetworkEntity,
         SendTcpMessage, tableVars, registryVars, registry, ecs

\* Every step of a session keeps the invariant.
LEMMA NextServerInv == ServerInv /\ [Next]_vars => ServerInv'
  <1> SUFFICES ASSUME ServerInv, [Next]_vars PROVE ServerInv'
    OBVIOUS
  <1>1. CASE ServerNext
    <2>1. CASE Start \/ Stop
      BY <2>1, StartKeepsInv, StopKeepsInv
    <2>2. CASE ServerApp \/ AcceptedSocketFails
      BY <2>2, ApplicationIsQuiet, QuietKeepsInv
    <2>3. CASE DisconnectSystem \/ PendingDisconnectSystem \/ ForgetNewConnections
      BY <2>3, DisconnectSystemKeepsInv, PendingDisconnectSystemKeepsInv, ForgetKeepsInv
    <2>4. CASE \/ AcceptDone \/ ReceiveDone \/ EndUpdate \/ ReportDone \/ ReadyDone
               \/ InitializeDone \/ SendNewSpawnDespawn \/ SendSnapshots \/ SendDone
      BY <2>4, LoopStartsKeepInv, LaterLoopsKeepInv
    <2>5. ASSUME NEW e \in Entities,
                 \/ AcceptConnection(e) \/ ReceiveTcpMessages(e) \/ ReceiveFails(e)
                 \/ DisconnectedClient(e) \/ SetClientReady(e) \/ InitializeNewClient(e)
                 \/ SendTcpMessages(e)
          PROVE  ServerInv'
      BY <2>5, AcceptKeepsInv, TransferKeepsInv, ReportKeepsInv, ReadyKeepsInv,
         InitializeKeepsInv
    <2>6. QED
      BY <1>1, <2>1, <2>2, <2>3, <2>4, <2>5 DEF ServerNext, ServerTick
  <1>2. CASE UNCHANGED serverVars
    BY <1>2, QuietKeepsInv DEF serverVars, tableVars, ecs
  <1>3. QED
    BY <1>1, <1>2 DEF Next, ServerStep, ClientStep, Breaks, Finished, vars

\* ServerInv holds in every session.
LEMMA ServerInvariant == Spec => []ServerInv
  <1>1. QED
    BY InitServerInv, NextServerInv, PTL DEF Spec

-----------------------------------------------------------------------------
\* disconnectedClient unregisters a client before DisconnectSystem destroys its
\* entity, in every session.
THEOREM RegisteredAlwaysLive == Spec => []RegisteredAreLive
  <1>1. ServerInv => RegisteredAreLive
    BY DEF ServerInv, RegisteredLive, RegisteredAreLive, Facts!RegistryInv,
           Registry!Registered, registered
  <1>2. QED
    BY ServerInvariant, <1>1, PTL

\* Server calls the registry as ClientEntityRegistry assumes, so that what is
\* proved of the registry holds in every session.
THEOREM SessionUsesRegistry == Spec => UsesRegistry
  <1>1. Init => Registry!Init
    BY DEF Init, ServerInit
  <1>2. ServerInv /\ [Next]_vars => [Registry!Next]_(Registry!vars)
    <2> SUFFICES ASSUME ServerInv, [Next]_vars
                 PROVE  Registry!Next \/ UNCHANGED registryVars
      BY DEF registryVars, registry, Registry!vars
    <2>1. CASE ServerNext
      <3>1. CASE Start
        BY <3>1, StartKeepsInv DEF Registry!Next
      <3>2. ASSUME NEW e \in Entities, DisconnectedClient(e) \/ InitializeNewClient(e)
            PROVE  Registry!Next \/ UNCHANGED registryVars
        BY <3>2, ReportKeepsInv, InitializeKeepsInv DEF Registry!Next
      <3>3. CASE Stop \/ ServerApp \/ AcceptedSocketFails
        BY <3>3, ApplicationIsQuiet DEF Stop, tableVars
      <3>4. CASE \/ DisconnectSystem \/ PendingDisconnectSystem \/ ForgetNewConnections
                 \/ AcceptDone \/ ReceiveDone \/ EndUpdate \/ ReportDone \/ ReadyDone
                 \/ InitializeDone \/ SendNewSpawnDespawn \/ SendSnapshots \/ SendDone
        BY <3>4 DEF DisconnectSystem, PendingDisconnectSystem, ForgetNewConnections,
                    AcceptDone, ReceiveDone, EndUpdate, ReportDone, ReadyDone,
                    InitializeDone, SendNewSpawnDespawn, SendSnapshots, SendDone
      <3>5. ASSUME NEW e \in Entities,
                   \/ AcceptConnection(e) \/ ReceiveTcpMessages(e) \/ ReceiveFails(e)
                   \/ SetClientReady(e) \/ SendTcpMessages(e)
            PROVE  UNCHANGED registryVars
        BY <3>5 DEF AcceptConnection, ReceiveTcpMessages, ReceiveFails, SetClientReady,
                    SendTcpMessages
      <3>6. QED
        BY <2>1, <3>1, <3>2, <3>3, <3>4, <3>5 DEF ServerNext, ServerTick
    <2>2. CASE UNCHANGED serverVars
      BY <2>2 DEF serverVars
    <2>3. QED
      BY <2>1, <2>2 DEF Next, ServerStep, ClientStep, Breaks, Finished, vars
  <1>3. QED
    BY <1>1, <1>2, ServerInvariant, PTL DEF Spec, UsesRegistry, Registry!Spec

SpawnFacts == INSTANCE SpawnDespawnManagerProofs

\* The constants are as the manager needs them.
LEMMA SpawnConstants == SpawnFacts!SpawnAssumption
  BY ServerAssumption DEF ServerAssumption, SpawnFacts!SpawnAssumption

\* Every step of a session is a call of the manager, or none.
LEMMA NextUsesSpawnManager == [Next]_vars => [Spawns!Next]_(Spawns!vars)
  <1> SUFFICES ASSUME [Next]_vars PROVE Spawns!Next \/ UNCHANGED spawnVars
    BY DEF spawnVars, Spawns!vars
  <1>1. CASE ServerNext
    <2>1. CASE ServerApp
      BY <2>1 DEF ServerApp, CreateNetworkEntity, DestroyNetworkEntity, SendTcpMessage,
                  Spawns!Next
    <2>2. CASE Stop \/ SendNewSpawnDespawn
      BY <2>2 DEF Stop, SendNewSpawnDespawn, ForgetNews, Spawns!Next
    <2>3. CASE \/ Start \/ AcceptedSocketFails
               \/ DisconnectSystem \/ PendingDisconnectSystem \/ ForgetNewConnections
               \/ AcceptDone \/ ReceiveDone \/ EndUpdate \/ ReportDone \/ ReadyDone
               \/ InitializeDone \/ SendSnapshots \/ SendDone
      BY <2>3 DEF Start, AcceptedSocketFails, DisconnectSystem, PendingDisconnectSystem,
                  ForgetNewConnections, AcceptDone, ReceiveDone, EndUpdate, ReportDone,
                  ReadyDone, InitializeDone, SendSnapshots, SendDone
    <2>4. ASSUME NEW e \in Entities,
                 \/ AcceptConnection(e) \/ ReceiveTcpMessages(e) \/ ReceiveFails(e)
                 \/ DisconnectedClient(e) \/ SetClientReady(e) \/ InitializeNewClient(e)
                 \/ SendTcpMessages(e)
          PROVE  UNCHANGED spawnVars
      BY <2>4 DEF AcceptConnection, ReceiveTcpMessages, ReceiveFails, DisconnectedClient,
                  SetClientReady, InitializeNewClient, SendTcpMessages
    <2>5. QED
      BY <1>1, <2>1, <2>2, <2>3, <2>4 DEF ServerNext, ServerTick
  <1>2. CASE UNCHANGED serverVars
    BY <1>2 DEF serverVars
  <1>3. QED
    BY <1>1, <1>2 DEF Next, ServerStep, ClientStep, Breaks, Finished, vars

\* Server changes the record of network entities and the engine's table of
\* network ids together, as SpawnDespawnManager assumes.
THEOREM SessionUsesSpawnManager == Spec => UsesSpawnManager
  <1>1. Init => Spawns!Init
    BY DEF Init, ServerInit
  <1>2. QED
    BY <1>1, NextUsesSpawnManager, PTL DEF Spec, UsesSpawnManager, Spawns!Spec

\* The record of network entities is as its own specification describes.
LEMMA InitSpawnInv == Init => Spawns!SpawnInv
  <1>1. Spawns!Init => SpawnFacts!Init
    BY DEF Spawns!Init, SpawnFacts!Init, Spawns!EmptyMap, SpawnFacts!EmptyMap
  <1>2. SpawnFacts!SpawnInv => Spawns!SpawnInv
    BY DEF SpawnFacts!SpawnInv, Spawns!SpawnInv, SpawnFacts!TypeOK, Spawns!TypeOK,
       SpawnFacts!TablesAgree, Spawns!TablesAgree, SpawnFacts!Members, Spawns!Members,
     SpawnFacts!IsMap, Spawns!IsMap, SpawnFacts!NetworkIds, Spawns!NetworkIds
  <1>3. QED
    BY <1>1, <1>2, SpawnConstants, SpawnFacts!InitSpawnInv DEF Init, ServerInit

\* Here and in the proofs of the manager the invariant is the same.
LEMMA SameSpawnInv == SpawnFacts!SpawnInv <=> Spawns!SpawnInv
    BY DEF SpawnFacts!SpawnInv, Spawns!SpawnInv, SpawnFacts!TypeOK, Spawns!TypeOK,
       SpawnFacts!TablesAgree, Spawns!TablesAgree, SpawnFacts!Members, Spawns!Members,
     SpawnFacts!IsMap, Spawns!IsMap, SpawnFacts!NetworkIds, Spawns!NetworkIds

\* Each step of a session is one of the manager, so its invariant is kept.
LEMMA NextSpawnInv == Spawns!SpawnInv /\ [Next]_vars => Spawns!SpawnInv'
  <1> SUFFICES ASSUME Spawns!SpawnInv, [Next]_vars PROVE Spawns!SpawnInv'
    OBVIOUS
  <1>1. [Spawns!Next]_(Spawns!vars)
    BY NextUsesSpawnManager
  <1>2. [SpawnFacts!Next]_(SpawnFacts!vars)
    <2>1. CASE UNCHANGED Spawns!vars
      BY <2>1 DEF Spawns!vars, SpawnFacts!vars
    <2>2. CASE Spawns!CreateNetworkEntity
      <3>1. SpawnFacts!CreateNetworkEntity
        BY <2>2 DEF Spawns!CreateNetworkEntity, SpawnFacts!CreateNetworkEntity,
             Spawns!AddSpawnMessage, SpawnFacts!AddSpawnMessage, Spawns!Insert, SpawnFacts!Insert,
             Spawns!InsertOrAssign, SpawnFacts!InsertOrAssign, Spawns!NetworkIds,
             SpawnFacts!NetworkIds
      <3>2. QED
        BY <3>1 DEF SpawnFacts!Next
    <2>3. ASSUME NEW n \in Spawns!NetworkIds, Spawns!DestroyNetworkEntity(n)
          PROVE  SpawnFacts!Next
      <3>1. Spawns!AddDespawn(n) <=> SpawnFacts!AddDespawn(n)
        BY DEF Spawns!AddDespawn, SpawnFacts!AddDespawn, Spawns!IsLast, SpawnFacts!IsLast,
             Spawns!Erase, SpawnFacts!Erase, Spawns!Relocate, SpawnFacts!Relocate,
             Spawns!InsertOrAssign, SpawnFacts!InsertOrAssign, Spawns!RecordDespawn,
             SpawnFacts!RecordDespawn, Spawns!spawnRecord, SpawnFacts!spawnRecord
      <3>2. SpawnFacts!DestroyNetworkEntity(n) /\ n \in SpawnFacts!NetworkIds
        BY <2>3, <3>1 DEF Spawns!DestroyNetworkEntity, SpawnFacts!DestroyNetworkEntity,
             Spawns!RemoveNetworkId, SpawnFacts!RemoveNetworkId, Spawns!NetworkIds,
             SpawnFacts!NetworkIds
      <3>3. QED
        BY <3>2 DEF SpawnFacts!Next
    <2>4. CASE Spawns!EndOfTick \/ Spawns!StopAndStart
      BY <2>4 DEF Spawns!EndOfTick, SpawnFacts!EndOfTick, Spawns!StopAndStart,
           SpawnFacts!StopAndStart, Spawns!ClearNewSpawnDespawn,
           SpawnFacts!ClearNewSpawnDespawn, Spawns!ClearAll, SpawnFacts!ClearAll,
           Spawns!EmptyMap, SpawnFacts!EmptyMap, SpawnFacts!Next
    <2>5. QED
      BY <1>1, <2>1, <2>2, <2>3, <2>4 DEF Spawns!Next
  <1>3. SpawnFacts!SpawnInv
    BY SameSpawnInv
  <1>4. SpawnFacts!SpawnInv'
    BY <1>2, <1>3, SpawnConstants, SpawnFacts!NextSpawnInv
  <1>5. QED
    BY <1>4, SameSpawnInv, PTL

-----------------------------------------------------------------------------
(* Sequences of messages.                                                  *)

\* The function by which FlattenSeq is defined exists.
LEMMA FlattenExists ==
  ASSUME NEW S, NEW ss \in Seq(Seq(S)), ss # <<>>
  PROVE  \E f : f = [i \in 1..Len(ss) |-> IF i = 1 THEN ss[i] ELSE f[i - 1] \o ss[i]]
  <1> DEFINE Upto(n, f) == \A i \in 1..n : f[i] = IF i = 1 THEN ss[i] ELSE f[i - 1] \o ss[i]
             Exists(n) == \E f \in [1..n -> Seq(S)] : Upto(n, f)
             T == {n \in 0..Len(ss) : Exists(n)}
  <1>1. Len(ss) \in Nat /\ \A k \in 1..Len(ss) : ss[k] \in Seq(S)
    OBVIOUS
  <1>2. 0 \in T
    <2>1. 1..0 = {}
      OBVIOUS
    <2> DEFINE none == [i \in 1..0 |-> <<>>]
    <2>2. none \in [1..0 -> Seq(S)] /\ Upto(0, none)
      BY <2>1
    <2> HIDE DEF none, Upto
    <2>3. Exists(0)
      BY <2>2
    <2> HIDE DEF Exists
    <2>4. QED
      BY <1>1, <2>3
  <1>3. ASSUME NEW n \in 1..Len(ss), n - 1 \in T PROVE n \in T
    <2>1. PICK f \in [1..(n - 1) -> Seq(S)] : Upto(n - 1, f)
      BY <1>3
    <2> DEFINE g == [i \in 1..n |-> IF i < n THEN f[i]
                                    ELSE IF n = 1 THEN ss[n] ELSE f[n - 1] \o ss[n]]
    <2>2. ss[n] \in Seq(S) /\ (n # 1 => f[n - 1] \o ss[n] \in Seq(S))
      BY <1>1
    <2>3. g \in [1..n -> Seq(S)]
      BY <2>2
    <2>4. \A i \in 1..n : i < n => g[i] = f[i] /\ i \in 1..(n - 1)
      OBVIOUS
    <2>5. g[n] = IF n = 1 THEN ss[n] ELSE g[n - 1] \o ss[n]
      OBVIOUS
    <2>6. Upto(n, g)
      <3> SUFFICES ASSUME NEW i \in 1..n
                   PROVE  g[i] = IF i = 1 THEN ss[i] ELSE g[i - 1] \o ss[i]
        OBVIOUS
      <3>1. CASE i = n
        BY <2>5, <3>1
      <3>2. CASE i < n
        <4>1. g[i] = f[i] /\ (i # 1 => g[i - 1] = f[i - 1])
          BY <2>4, <3>2
        <4> HIDE DEF g
        <4>2. i \in 1..(n - 1)
          BY <3>2
        <4>3. QED
          BY <2>1, <4>1, <4>2
      <3>3. QED
        BY <3>1, <3>2
    <2> HIDE DEF g, Upto
    <2>7. Exists(n)
      BY <2>3, <2>6
    <2> HIDE DEF Exists
    <2>8. QED
      BY <2>7
  <1>4. Len(ss) \in T
    <2> HIDE DEF T
    <2>1. 0..Len(ss) \subseteq T
      BY <1>1, <1>2, <1>3, UpTo
    <2>2. QED
      BY <1>1, <2>1
  <1>5. PICK f \in [1..Len(ss) -> Seq(S)] : Upto(Len(ss), f)
    BY <1>4
  <1>6. f = [i \in 1..Len(ss) |-> IF i = 1 THEN ss[i] ELSE f[i - 1] \o ss[i]]
    BY <1>5
  <1>7. QED
    BY <1>6

\* What a concatenation holds.
LEMMA MembersConcat ==
  ASSUME NEW S, NEW s \in Seq(S), NEW t \in Seq(S)
  PROVE  Spawns!Members(s \o t) = Spawns!Members(s) \cup Spawns!Members(t)
  <1>1. /\ Len(s) \in Nat /\ Len(t) \in Nat
        /\ Len(s \o t) = Len(s) + Len(t)
        /\ \A i \in 1..Len(s) : (s \o t)[i] = s[i]
        /\ \A i \in 1..Len(t) : (s \o t)[Len(s) + i] = t[i]
    OBVIOUS
  <1>2. \A i \in 1..(Len(s) + Len(t)) : i \in 1..Len(s) \/ \E j \in 1..Len(t) : i = Len(s) + j
    <2> SUFFICES ASSUME NEW i \in 1..(Len(s) + Len(t)), i \notin 1..Len(s)
                 PROVE  \E j \in 1..Len(t) : i = Len(s) + j
      OBVIOUS
    <2>1. i - Len(s) \in 1..Len(t) /\ i = Len(s) + (i - Len(s))
      BY <1>1
    <2>2. QED
      BY <2>1
  <1>3. \A i \in 1..Len(t) : Len(s) + i \in 1..(Len(s) + Len(t))
    BY <1>1
  <1>4. ASSUME NEW x PROVE x \in Spawns!Members(s \o t) <=> x \in Spawns!Members(s)
               \/ x \in Spawns!Members(t)
    BY <1>1, <1>2, <1>3 DEF Spawns!Members
  <1>5. QED
    BY <1>4

\* FlattenSeq of sequences over S is a sequence over S and has the members of
\* all of them.
LEMMA FlattenMembers ==
  ASSUME NEW S, NEW ss \in Seq(Seq(S))
  PROVE  /\ FlattenSeq(ss) \in Seq(S)
         /\ Spawns!Members(FlattenSeq(ss)) = UNION {Spawns!Members(ss[k]) : k \in 1..Len(ss)}
  <1>1. Len(ss) \in Nat /\ \A k \in 1..Len(ss) : ss[k] \in Seq(S)
    OBVIOUS
  <1>2. CASE ss = <<>>
    BY <1>2 DEF FlattenSeq, Spawns!Members
  <1>3. CASE ss # <<>>
    <2> DEFINE IsFlat(f) == f = [i \in 1..Len(ss) |-> IF i = 1 THEN ss[i] ELSE f[i - 1] \o ss[i]]
               flatten == CHOOSE f : IsFlat(f)
    <2>1. FlattenSeq(ss) = flatten[Len(ss)] /\ 1 \in 1..Len(ss)
      BY <1>3 DEF FlattenSeq
    <2>2. IsFlat(flatten)
      <3>1. \E f : IsFlat(f)
        BY <1>3, FlattenExists
      <3>2. QED
        BY <3>1
    <2>3. \A i \in 1..Len(ss) :
            flatten[i] = IF i = 1 THEN ss[i] ELSE flatten[i - 1] \o ss[i]
      BY <2>2
    <2> HIDE DEF flatten
    <2> DEFINE good == {n \in 0..Len(ss) : n = 0 \/
                          /\ flatten[n] \in Seq(S)
                          /\ Spawns!Members(flatten[n]) =
                               UNION {Spawns!Members(ss[k]) : k \in 1..n}}
    <2>4. 0 \in good
      BY <1>1
    <2>5. ASSUME NEW n \in 1..Len(ss), n - 1 \in good PROVE n \in good
      <3>1. CASE n = 1
        <4>1. flatten[1] = ss[1]
          BY <2>1, <2>3
        <4>2. QED
          BY <1>1, <3>1, <4>1
      <3>2. CASE n # 1
        <4>1. /\ flatten[n] = flatten[n - 1] \o ss[n]
              /\ flatten[n - 1] \in Seq(S) /\ ss[n] \in Seq(S)
              /\ Spawns!Members(flatten[n - 1]) = UNION {Spawns!Members(ss[k]) : k \in 1..(n - 1)}
          <5>1. n - 1 # 0 /\ n - 1 \in good
            BY <2>5, <3>2
          <5>2. QED
            BY <1>1, <2>3, <3>2, <5>1
        <4>2. Spawns!Members(flatten[n]) = Spawns!Members(flatten[n - 1])
                \cup Spawns!Members(ss[n])
          BY <4>1, MembersConcat
        <4>3. 1..n = 1..(n - 1) \cup {n}
          OBVIOUS
        <4>4. Spawns!Members(flatten[n]) = UNION {Spawns!Members(ss[k]) : k \in 1..n}
          BY <4>1, <4>2, <4>3
        <4>5. flatten[n] \in Seq(S)
          BY <4>1
        <4>6. QED
          BY <4>4, <4>5
      <3>3. QED
        BY <3>1, <3>2
    <2>6. Len(ss) \in good
      <3> HIDE DEF good
      <3>1. 0..Len(ss) \subseteq good
        BY <1>1, <2>4, <2>5, UpTo
      <3>2. QED
        BY <1>1, <3>1
    <2>7. QED
      BY <1>3, <2>1, <2>6
  <1>4. QED
    BY <1>2, <1>3

\* The messages there are, and what a client reads in them.
LEMMA MessageTypes ==
  /\ ClientIsReady \in Messages /\ AppMessage \in Messages /\ Snapshot \in Messages
  /\ \A id \in 0..MaxClientId : InitializeClient(id) \in Messages
  /\ \A new, gone \in Seq(Spawns!NetworkIds) : SpawnDespawn(new, gone) \in Messages
  BY DEF Messages, SpawnDespawn

\* What a message tells of network entities, and the id it carries.
LEMMA MessageParts ==
  ASSUME NEW m \in Messages
  PROVE  /\ SpawnsOf(m) \in Seq(Spawns!NetworkIds)
         /\ DespawnsOf(m) \in Seq(Spawns!NetworkIds)
         /\ m.type = "InitializeClient" => m.id \in 0..MaxClientId
  <1> DEFINE News == [type : {"SpawnDespawn"}, spawns : Seq(Spawns!NetworkIds),
                      despawns : Seq(Spawns!NetworkIds)]
             Ids == {InitializeClient(id) : id \in 0..MaxClientId}
  <1>1. m \in {ClientIsReady, AppMessage, Snapshot} \/ m \in Ids \/ m \in News
    BY DEF Messages
  <1>2. CASE m \in {ClientIsReady, AppMessage, Snapshot}
    BY <1>2 DEF ClientIsReady, AppMessage, Snapshot, SpawnsOf, DespawnsOf
  <1>3. CASE m \in Ids
    <2>1. PICK id \in 0..MaxClientId : m = InitializeClient(id)
      BY <1>3
    <2>2. m.type = "InitializeClient" /\ m.id = id
      BY <2>1 DEF InitializeClient
    <2>3. QED
      BY <2>2 DEF SpawnsOf, DespawnsOf
  <1>4. CASE m \in News
    BY <1>4 DEF SpawnsOf, DespawnsOf
  <1>5. QED
    BY <1>1, <1>2, <1>3, <1>4

\* The spawns, and the despawns, of all messages together.
LEMMA AllSpawnedMembers ==
  ASSUME NEW msgs \in Seq(Messages)
  PROVE  /\ AllSpawned(msgs) \in Seq(Spawns!NetworkIds)
         /\ Spawns!Members(AllSpawned(msgs)) =
              UNION {Spawns!Members(SpawnsOf(msgs[k])) : k \in 1..Len(msgs)}
  <1> DEFINE ss == [i \in DOMAIN msgs |-> SpawnsOf(msgs[i])]
  <1>1. /\ ss \in Seq(Seq(Spawns!NetworkIds)) /\ Len(ss) = Len(msgs)
        /\ \A k \in 1..Len(msgs) : ss[k] = SpawnsOf(msgs[k])
    <2>1. Len(msgs) \in Nat /\ DOMAIN msgs = 1..Len(msgs)
      OBVIOUS
    <2>2. \A k \in 1..Len(msgs) : msgs[k] \in Messages
      OBVIOUS
    <2>3. \A k \in 1..Len(msgs) : SpawnsOf(msgs[k]) \in Seq(Spawns!NetworkIds)
      BY <2>2, MessageParts
    <2>4. QED
      BY <2>1, <2>3
  <1>2. /\ FlattenSeq(ss) \in Seq(Spawns!NetworkIds)
        /\ Spawns!Members(FlattenSeq(ss)) = UNION {Spawns!Members(ss[k]) : k \in 1..Len(ss)}
    <2> HIDE DEF ss
    <2>1. QED
      BY <1>1, FlattenMembers
  <1>3. QED
    BY <1>1, <1>2 DEF AllSpawned

\* The despawns of some messages are those of each of them.
LEMMA AllDespawnedMembers ==
  ASSUME NEW msgs \in Seq(Messages)
  PROVE  /\ AllDespawned(msgs) \in Seq(Spawns!NetworkIds)
         /\ Spawns!Members(AllDespawned(msgs)) =
              UNION {Spawns!Members(DespawnsOf(msgs[k])) : k \in 1..Len(msgs)}
  <1> DEFINE ss == [i \in DOMAIN msgs |-> DespawnsOf(msgs[i])]
  <1>1. /\ ss \in Seq(Seq(Spawns!NetworkIds)) /\ Len(ss) = Len(msgs)
        /\ \A k \in 1..Len(msgs) : ss[k] = DespawnsOf(msgs[k])
    <2>1. Len(msgs) \in Nat /\ DOMAIN msgs = 1..Len(msgs)
      OBVIOUS
    <2>2. \A k \in 1..Len(msgs) : msgs[k] \in Messages
      OBVIOUS
    <2>3. \A k \in 1..Len(msgs) : DespawnsOf(msgs[k]) \in Seq(Spawns!NetworkIds)
      BY <2>2, MessageParts
    <2>4. QED
      BY <2>1, <2>3
  <1>2. /\ FlattenSeq(ss) \in Seq(Spawns!NetworkIds)
        /\ Spawns!Members(FlattenSeq(ss)) = UNION {Spawns!Members(ss[k]) : k \in 1..Len(ss)}
    <2> HIDE DEF ss
    <2>1. QED
      BY <1>1, FlattenMembers
  <1>3. QED
    BY <1>1, <1>2 DEF AllDespawned

\* Cutting a queue into what is sent and what is left.
LEMMA TakeDrop ==
  ASSUME NEW S, NEW s \in Seq(S), NEW k \in 0..Len(s)
  PROVE  /\ Take(s, k) \in Seq(S) /\ Len(Take(s, k)) = k
         /\ Drop(s, k) \in Seq(S) /\ Len(Drop(s, k)) = Len(s) - k
         /\ \A i \in 1..k : Take(s, k)[i] = s[i]
         /\ \A i \in 1..(Len(s) - k) : Drop(s, k)[i] = s[k + i]
  BY DEF Take, Drop

\* Serialization fills in ids, and keeps the number, order and types of messages.
LEMMA SerializedType ==
  ASSUME NEW msgs \in Seq(Messages), initMessage \in 0..MaxClientId
  PROVE  /\ Serialized(msgs) \in Seq(Messages)
         /\ Len(Serialized(msgs)) = Len(msgs)
         /\ \A i \in 1..Len(msgs) :
              /\ Serialized(msgs)[i].type = msgs[i].type
              /\ msgs[i].type # "InitializeClient" => Serialized(msgs)[i] = msgs[i]
              /\ msgs[i].type = "InitializeClient" =>
                   Serialized(msgs)[i] = InitializeClient(initMessage)
  <1>1. InitializeClient(initMessage) \in Messages
    BY MessageTypes
  <1>2. InitializeClient(initMessage).type = "InitializeClient"
    BY DEF InitializeClient
  <1>3. QED
    BY <1>1, <1>2 DEF Serialized

-----------------------------------------------------------------------------
(* Types.                                                                  *)

LinkTyped ==
  /\ backlog \in Seq(Conns)
  /\ toServer \in [Conns -> Seq(Messages)]
  /\ toClient \in [Conns -> Seq(Messages)]
  /\ \A c \in Conns : Len(toServer[c]) <= Capacity /\ Len(toClient[c]) <= Capacity
  /\ serverEnd \in [Conns -> {"none", "open", "closed"}]
  /\ clientEnd \in [Conns -> {"none", "open", "closed"}]

ServerTyped ==
  /\ accepted \in 0..MaxAccepted /\ starts \in 0..MaxStarts
  /\ conn \in [Entities -> Conns \cup {NoConn}]
  /\ \A e \in Entities : e \in live <=> conn[e] # NoConn
  /\ toSend \in [Entities -> Seq(Messages)]
  /\ received \in [Entities -> Seq(Messages)]
  /\ initMessage \in 0..MaxClientId
  /\ disconnectedClientIds \in Seq(Registry!ClientIds)

ClientTyped ==
  /\ process \in [Conns -> Processes \cup {NoConn}]
  /\ clientPhase \in [Conns -> {"off", "idle", "app", "end", "disconnected", "left", "exited"}]
  /\ clientTags \in [Conns -> SUBSET Tags]
  /\ clientReceived \in [Conns -> Seq(Messages)]
  /\ clientToSend \in [Conns -> Seq(Messages)]
  /\ clientId \in [Conns -> 0..MaxClientId]
  /\ spawnQueue \in [Conns -> Seq(Spawns!NetworkIds)]
  /\ despawnQueue \in [Conns -> Seq(Spawns!NetworkIds)]
  /\ known \in [Conns -> SUBSET Spawns!NetworkIds]
  /\ inherited \subseteq Conns

Typed == LinkTyped /\ ServerTyped /\ ClientTyped

typedServerVars == <<accepted, starts, conn, live, toSend, received, initMessage,
  disconnectedClientIds>>

\* What the operating system does to a connection.
LEMMA EndsKeepTypes ==
  ASSUME LinkTyped, NEW c \in Conns,
         Connect(c) \/ Accept(c) \/ AcceptAndClose(c) \/ Break(c)
  PROVE  LinkTyped'
  <1>1. CASE Connect(c)
    BY <1>1 DEF Connect, LinkTyped
  <1>2. CASE Accept(c)
    BY <1>2 DEF Accept, LinkTyped
  <1>3. CASE AcceptAndClose(c)
    BY <1>3 DEF AcceptAndClose, LinkTyped
  <1>4. CASE Break(c)
    BY <1>4 DEF Break, LinkTyped
  <1>5. QED
    BY <1>1, <1>2, <1>3, <1>4

\* Ends that close, and the listener, keep the types of the link.
LEMMA ClosingKeepsTypes ==
  ASSUME LinkTyped, NEW C, CloseServerEnds(C) \/ CloseListener(C) \/ CloseClientEnds(C)
  PROVE  LinkTyped'
  <1>1. CASE CloseServerEnds(C)
    BY <1>1 DEF CloseServerEnds, LinkTyped
  <1>2. CASE CloseListener(C)
    BY <1>2 DEF CloseListener, LinkTyped
  <1>3. CASE CloseClientEnds(C)
    BY <1>3, LinkAssumption DEF CloseClientEnds, LinkTyped, LinkAssumption
  <1>5. QED
    BY <1>1, <1>2, <1>3

\* A receive of the server takes the beginning of a stream.
LEMMA ServerReceivesKeepsTypes ==
  ASSUME LinkTyped, NEW c \in Conns, NEW k \in 0..Len(toServer[c]), ServerReceives(c, k)
  PROVE  LinkTyped'
  <1>1. Drop(toServer[c], k) \in Seq(Messages) /\ Len(Drop(toServer[c], k)) <= Len(toServer[c])
    <2>1. toServer[c] \in Seq(Messages)
      BY DEF LinkTyped
    <2>2. Drop(toServer[c], k) \in Seq(Messages)
            /\ Len(Drop(toServer[c], k)) = Len(toServer[c]) - k
      BY <2>1, TakeDrop
    <2>3. QED
      BY <2>1, <2>2
  <1>2. Len(Drop(toServer[c], k)) <= Capacity
    BY <1>1, LinkAssumption DEF LinkTyped, LinkAssumption
  <1>3. QED
    BY <1>1, <1>2 DEF ServerReceives, LinkTyped

\* So does a receive of a client.
LEMMA ClientReceivesKeepsTypes ==
  ASSUME LinkTyped, NEW c \in Conns, NEW k \in 0..Len(toClient[c]), ClientReceives(c, k)
  PROVE  LinkTyped'
  <1>1. Drop(toClient[c], k) \in Seq(Messages) /\ Len(Drop(toClient[c], k)) <= Len(toClient[c])
    <2>1. toClient[c] \in Seq(Messages)
      BY DEF LinkTyped
    <2>2. Drop(toClient[c], k) \in Seq(Messages)
            /\ Len(Drop(toClient[c], k)) = Len(toClient[c]) - k
      BY <2>1, TakeDrop
    <2>3. QED
      BY <2>1, <2>2
  <1>2. Len(Drop(toClient[c], k)) <= Capacity
    BY <1>1, LinkAssumption DEF LinkTyped, LinkAssumption
  <1>3. QED
    BY <1>1, <1>2 DEF ClientReceives, LinkTyped

\* What is sent is put at the end of a stream, if it is open.
LEMMA SendingKeepsTypes ==
  ASSUME LinkTyped, NEW c \in Conns, NEW msgs \in Seq(Messages),
         \/ ServerSends(c, msgs)
              /\ (clientEnd[c] = "open" => Len(toClient[c]) + Len(msgs) <= Capacity)
         \/ ClientSends(c, msgs)
              /\ (serverEnd[c] # "closed" => Len(toServer[c]) + Len(msgs) <= Capacity)
  PROVE  LinkTyped'
  <1>1. CASE ServerSends(c, msgs)
             /\ (clientEnd[c] = "open" => Len(toClient[c]) + Len(msgs) <= Capacity)
    <2>1. toClient[c] \o msgs \in Seq(Messages)
            /\ Len(toClient[c] \o msgs) = Len(toClient[c]) + Len(msgs)
      BY DEF LinkTyped
    <2>2. QED
      BY <1>1, <2>1 DEF ServerSends, LinkTyped
  <1>2. CASE ClientSends(c, msgs)
             /\ (serverEnd[c] # "closed" => Len(toServer[c]) + Len(msgs) <= Capacity)
    <2>1. toServer[c] \o msgs \in Seq(Messages)
            /\ Len(toServer[c] \o msgs) = Len(toServer[c]) + Len(msgs)
      BY DEF LinkTyped
    <2>2. QED
      BY <1>2, <2>1 DEF ClientSends, LinkTyped
  <1>3. QED
    BY <1>1, <1>2

\* A send takes between none and all of a queue, and what the stream can hold.
LEMMA SentCountsBound ==
  ASSUME NEW stream \in Seq(Messages), NEW queue \in Seq(Messages), NEW open \in BOOLEAN,
         Len(stream) <= Capacity, NEW k \in SentCounts(stream, open, queue)
  PROVE  k \in 0..Len(queue) /\ (open => Len(stream) + k <= Capacity)
  BY LinkAssumption DEF SentCounts, LinkAssumption

-----------------------------------------------------------------------------
\* Steps of the server that leave the typed variables alone.
LEMMA SameServerTypes ==
  ASSUME ServerTyped, UNCHANGED typedServerVars
  PROVE  ServerTyped'
  BY DEF ServerTyped, typedServerVars

\* A step that leaves the link alone.
LEMMA SameLinkTypes ==
  ASSUME LinkTyped, UNCHANGED link
  PROVE  LinkTyped'
  BY DEF LinkTyped, link

\* A step that leaves the clients alone.
LEMMA SameClientTypes ==
  ASSUME ClientTyped, UNCHANGED clientVars
  PROVE  ClientTyped'
  BY DEF ClientTyped, clientVars

\* Entities that go take their components with them.
LEMMA DestroyKeepsTypes ==
  ASSUME ServerTyped, NEW es, DestroyEntities(es),
         UNCHANGED <<accepted, initMessage, disconnectedClientIds>>,
         starts' = starts
  PROVE  ServerTyped'
  BY DEF ServerTyped, DestroyEntities

\* All variables have their types in the initial state.
LEMMA InitTyped == Init => Typed
  BY ServerAssumption, LinkAssumption, ClientAssumption
  DEF Init, ServerInit, LinkInit, ClientInit, Typed, LinkTyped, ServerTyped, ClientTyped,
      ServerAssumption, LinkAssumption, ClientAssumption

\* The server starts and stops, and the first phases of a tick.
LEMMA EarlyPhasesKeepTypes ==
  ASSUME Typed, ServerInv,
         Start \/ Stop \/ DisconnectSystem \/ PendingDisconnectSystem \/ ForgetNewConnections
         \/ AcceptedSocketFails \/ AcceptDone \/ (\E e \in Entities : AcceptConnection(e))
  PROVE  ServerTyped' /\ LinkTyped'
  <1>0. LinkTyped /\ ServerTyped
    BY DEF Typed
  <1>1. CASE Start
    <2>1. starts' \in 0..MaxStarts
      BY <1>0, <1>1, ServerAssumption DEF Start, ServerTyped, ServerAssumption
    <2>2. UNCHANGED <<accepted, conn, live, toSend, received, initMessage, disconnectedClientIds,
            link>>
      BY <1>1 DEF Start, ecs, events
    <2>3. QED
      BY <1>0, <2>1, <2>2, SameLinkTypes DEF ServerTyped
  <1>2. CASE Stop
    BY <1>0, <1>2, ClosingKeepsTypes, DestroyKeepsTypes DEF Stop, events
  <1>3. CASE DisconnectSystem
    BY <1>0, <1>3, ClosingKeepsTypes, DestroyKeepsTypes DEF DisconnectSystem, events
  <1>4. CASE PendingDisconnectSystem \/ ForgetNewConnections
    BY <1>0, <1>4, SameLinkTypes, SameServerTypes
    DEF PendingDisconnectSystem, ForgetNewConnections, events, typedServerVars
  <1>5. CASE AcceptedSocketFails
    <2>1. Head(backlog) \in Conns
      BY <1>0, <1>5 DEF AcceptedSocketFails, LinkTyped
    <2>2. QED
      BY <1>0, <1>5, <2>1, EndsKeepTypes, SameServerTypes
      DEF AcceptedSocketFails, events, typedServerVars, ecs
  <1>6. CASE AcceptDone
    <2>1. accepted' = 0 /\ UNCHANGED <<starts, conn, live, toSend, received, initMessage,
            disconnectedClientIds, link>>
      BY <1>6 DEF AcceptDone, ecs, events
    <2>2. QED
      BY <1>0, <2>1, SameLinkTypes, ServerAssumption DEF ServerTyped, ServerAssumption
  <1>7. ASSUME NEW e \in Entities, AcceptConnection(e) PROVE ServerTyped' /\ LinkTyped'
    <2>1. Head(backlog) \in Conns /\ Head(backlog) # NoConn
      BY <1>0, <1>7, ServerAssumption DEF AcceptConnection, LinkTyped, ServerAssumption
    <2>2. LinkTyped'
      BY <1>0, <1>7, <2>1, EndsKeepTypes DEF AcceptConnection
    <2>3. accepted' \in 0..MaxAccepted
      BY <1>0, <1>7, ServerAssumption DEF AcceptConnection, ServerTyped, ServerAssumption
    <2>4. /\ conn' = [conn EXCEPT ![e] = Head(backlog)] /\ live' = live \cup {e}
          /\ UNCHANGED <<starts, toSend, received, initMessage, disconnectedClientIds>>
      BY <1>7 DEF AcceptConnection, events
    <2>5. QED
      BY <1>0, <2>1, <2>2, <2>3, <2>4 DEF ServerTyped
  <1>8. QED
    BY <1>1, <1>2, <1>3, <1>4, <1>5, <1>6, <1>7

\* The two lookups of the registry lead to each other.
LEMMA RegistryLookups ==
  ASSUME ServerInv
  PROVE  /\ \A e \in registered :
              /\ e \in Entities
              /\ Registry!GetClientId(e) \in DOMAIN clientEntityLookup
              /\ Registry!GetEntity(Registry!GetClientId(e)) = e
         /\ \A id \in DOMAIN clientEntityLookup :
              /\ id \in Registry!ClientIds /\ id < nextClientId
              /\ Registry!GetEntity(id) \in registered
              /\ Registry!GetClientId(Registry!GetEntity(id)) = id
  BY DEF ServerInv, Facts!RegistryInv, Facts!TypeOK, Facts!IsMap, Facts!ClientIds,
         Registry!ClientIds, Registry!GetClientId, Registry!GetEntity, registered

\* Receiving, and what the application does.
LEMMA ReceivingPhasesKeepTypes ==
  ASSUME Typed, ServerInv, Spawns!SpawnInv,
         \/ ReceiveDone \/ EndUpdate \/ ServerApp
         \/ \E e \in Entities : ReceiveTcpMessages(e) \/ ReceiveFails(e)
  PROVE  ServerTyped' /\ LinkTyped'
  <1>0. LinkTyped /\ ServerTyped /\ todo \subseteq live
    BY DEF Typed, ServerInv, TablesTyped
  <1>1. ASSUME NEW e \in Entities, ReceiveTcpMessages(e) PROVE ServerTyped' /\ LinkTyped'
    <2> DEFINE c == conn[e]
    <2>1. c \in Conns
      BY <1>0, <1>1 DEF ReceiveTcpMessages, ServerTyped
    <2>2. PICK k \in 0..Len(toServer[c]) :
            /\ received' = [received EXCEPT ![e] = Take(toServer[c], k)]
            /\ ServerReceives(c, k)
      BY <1>1 DEF ReceiveTcpMessages
    <2> HIDE DEF c
    <2>3. Take(toServer[c], k) \in Seq(Messages)
      BY <1>0, <2>1, TakeDrop DEF LinkTyped
    <2>4. LinkTyped'
      BY <1>0, <2>1, <2>2, ServerReceivesKeepsTypes
    <2>5. UNCHANGED <<accepted, starts, live, conn, toSend, initMessage, disconnectedClientIds>>
      BY <1>1 DEF ReceiveTcpMessages, events
    <2>6. QED
      BY <1>0, <2>2, <2>3, <2>4, <2>5 DEF ServerTyped
  <1>2. ASSUME NEW e \in Entities, ReceiveFails(e) PROVE ServerTyped' /\ LinkTyped'
    <2>1. /\ received' = [received EXCEPT ![e] = <<>>]
          /\ UNCHANGED <<accepted, starts, live, conn, toSend, initMessage,
               disconnectedClientIds, link>>
      BY <1>2 DEF ReceiveFails, events
    <2>2. QED
      BY <1>0, <2>1, SameLinkTypes DEF ServerTyped
  <1>3. CASE ReceiveDone
    BY <1>0, <1>3, SameLinkTypes, SameServerTypes DEF ReceiveDone, events, typedServerVars, ecs
  <1>4. CASE EndUpdate
    <2>1. /\ disconnectedClientIds' = <<>>
          /\ UNCHANGED <<accepted, starts, live, conn, toSend, received, initMessage, link>>
      BY <1>4 DEF EndUpdate, ecs
    <2>2. QED
      BY <1>0, <2>1, SameLinkTypes DEF ServerTyped
  <1>5. CASE CreateNetworkEntity \/ \E n \in Spawns!NetworkIds : DestroyNetworkEntity(n)
    BY <1>0, <1>5, SameLinkTypes, SameServerTypes
    DEF CreateNetworkEntity, DestroyNetworkEntity, events, typedServerVars, ecs
  <1>6. ASSUME NEW id \in Registry!ClientIds, SendTcpMessage(id) PROVE ServerTyped' /\ LinkTyped'
    <2> DEFINE e == Registry!GetEntity(id)
    <2>0. e \in Entities
      BY <1>6, RegistryLookups DEF SendTcpMessage, Registry!GetEntity
    <2>1. /\ toSend' = [toSend EXCEPT ![e] = Append(@, AppMessage)]
          /\ UNCHANGED <<accepted, starts, live, conn, received, initMessage,
               disconnectedClientIds, link>>
      BY <1>6 DEF SendTcpMessage, events
    <2> HIDE DEF e
    <2>2. AppMessage \in Messages
      BY MessageTypes
    <2>3. toSend' \in [Entities -> Seq(Messages)]
      BY <1>0, <2>0, <2>1, <2>2 DEF ServerTyped
    <2>4. QED
      BY <1>0, <2>1, <2>3, SameLinkTypes DEF ServerTyped
  <1>7. QED
    BY <1>1, <1>2, <1>3, <1>4, <1>5, <1>6 DEF ServerApp

\* The server's endUpdate.
LEMMA LatePhasesKeepTypes ==
  ASSUME Typed, ServerInv, Spawns!SpawnInv,
         \/ ReportDone \/ ReadyDone \/ InitializeDone \/ SendNewSpawnDespawn
         \/ SendSnapshots \/ SendDone
         \/ \E e \in Entities : DisconnectedClient(e) \/ SetClientReady(e)
                \/ InitializeNewClient(e) \/ SendTcpMessages(e)
  PROVE  ServerTyped' /\ LinkTyped'
  <1>0. LinkTyped /\ ServerTyped /\ todo \subseteq live
    BY DEF Typed, ServerInv, TablesTyped
  <1>1. CASE ReportDone \/ ReadyDone \/ InitializeDone
    BY <1>0, <1>1, SameLinkTypes, SameServerTypes
    DEF ReportDone, ReadyDone, InitializeDone, events, typedServerVars, ecs
  <1>2. CASE SendDone
    <2>1. /\ initMessage' = 0
          /\ UNCHANGED <<accepted, starts, live, conn, toSend, received, disconnectedClientIds,
               link>>
      BY <1>2 DEF SendDone, ecs, events
    <2>2. QED
      BY <1>0, <2>1, SameLinkTypes, ServerAssumption DEF ServerTyped, ServerAssumption
  <1>3. CASE SendNewSpawnDespawn
    <2>1. SpawnDespawn(newSpawns, newDespawns) \in Messages
      BY MessageTypes DEF Spawns!SpawnInv, Spawns!TypeOK
    <2>2. toSend' = [e \in Entities |->
            IF HasNews /\ e \in Audience
            THEN Append(toSend[e], SpawnDespawn(newSpawns, newDespawns)) ELSE toSend[e]]
      BY <1>3 DEF SendNewSpawnDespawn
    <2>3. toSend' \in [Entities -> Seq(Messages)]
      BY <1>0, <2>1, <2>2 DEF ServerTyped
    <2>4. UNCHANGED <<accepted, starts, live, conn, received, initMessage, disconnectedClientIds,
            link>>
      BY <1>3 DEF SendNewSpawnDespawn, events
    <2>5. QED
      BY <1>0, <2>3, <2>4, SameLinkTypes DEF ServerTyped
  <1>4. CASE SendSnapshots
    <2>1. toSend' = [e \in Entities |->
            IF "snapshot" \in Traffic /\ e \in live
            THEN Append(toSend[e], Snapshot) ELSE toSend[e]]
      BY <1>4 DEF SendSnapshots
    <2>2. toSend' \in [Entities -> Seq(Messages)]
      BY <1>0, <2>1, MessageTypes DEF ServerTyped
    <2>3. UNCHANGED <<accepted, starts, live, conn, received, initMessage, disconnectedClientIds,
            link>>
      BY <1>4 DEF SendSnapshots, events
    <2>4. QED
      BY <1>0, <2>2, <2>3, SameLinkTypes DEF ServerTyped
  <1>5. ASSUME NEW e \in Entities, DisconnectedClient(e) PROVE ServerTyped' /\ LinkTyped'
    <2> DEFINE id == Registry!GetClientId(e)
    <2>1. UNCHANGED <<accepted, starts, live, conn, toSend, received, initMessage, link>>
      BY <1>5 DEF DisconnectedClient, ecs
    <2>2. CASE id = Registry!NullClientId
      BY <1>0, <1>5, <2>1, <2>2, SameLinkTypes, SameServerTypes
      DEF DisconnectedClient, typedServerVars
    <2>3. CASE id # Registry!NullClientId
      <3>1. id \in Registry!ClientIds
        BY <2>3 DEF ServerInv, Facts!RegistryInv, Facts!TypeOK, Facts!IsMap, Facts!ClientIds,
                    Registry!ClientIds, Registry!GetClientId
      <3>2. disconnectedClientIds' = Append(disconnectedClientIds, id)
        BY <1>5, <2>3 DEF DisconnectedClient
      <3> HIDE DEF id
      <3>3. disconnectedClientIds' \in Seq(Registry!ClientIds)
        BY <1>0, <3>1, <3>2 DEF ServerTyped
      <3>4. QED
        BY <1>0, <2>1, <3>3, SameLinkTypes DEF ServerTyped
    <2>4. QED
      BY <2>2, <2>3
  <1>6. ASSUME NEW e \in Entities, SetClientReady(e) PROVE ServerTyped' /\ LinkTyped'
    <2>1. UNCHANGED <<accepted, starts, live, conn, received, initMessage, disconnectedClientIds,
            link>>
      BY <1>6 DEF SetClientReady
    <2>2. toSend' \in [Entities -> Seq(Messages)]
      <3>1. AllSpawns \in Seq(Messages)
        <4>1. spawns \in Seq(Spawns!NetworkIds) /\ <<>> \in Seq(Spawns!NetworkIds)
          BY DEF Spawns!SpawnInv, Spawns!TypeOK
        <4>2. SpawnDespawn(spawns, <<>>) \in Messages
          BY <4>1, MessageTypes
        <4>3. QED
          BY <4>2 DEF AllSpawns
      <3>2. CASE ~SaidReady(e)
        BY <1>0, <1>6, <3>2 DEF SetClientReady, ServerTyped
      <3>3. CASE SaidReady(e)
        <4>1. toSend' = [toSend EXCEPT ![e] = @ \o AllSpawns]
          BY <1>6, <3>3 DEF SetClientReady
        <4>2. QED
          BY <1>0, <3>1, <4>1 DEF ServerTyped
      <3>4. QED
        BY <3>2, <3>3
    <2>3. QED
      BY <1>0, <2>1, <2>2, SameLinkTypes DEF ServerTyped
  <1>7. ASSUME NEW e \in Entities, InitializeNewClient(e) PROVE ServerTyped' /\ LinkTyped'
    <2>1. /\ UNCHANGED <<accepted, starts, live, conn, received, disconnectedClientIds, link>>
          /\ initMessage' = nextClientId /\ nextClientId \in Registry!ClientIds
          /\ toSend' = [toSend EXCEPT ![e] = Append(@, InitializeClient(0))]
      BY <1>7 DEF InitializeNewClient, events, GivenId
    <2>2. initMessage' \in 0..MaxClientId /\ InitializeClient(0) \in Messages
      BY <2>1, ServerAssumption, MessageTypes DEF Registry!ClientIds, ServerAssumption
    <2>3. QED
      BY <1>0, <2>1, <2>2, SameLinkTypes DEF ServerTyped
  <1>8. ASSUME NEW e \in Entities, SendTcpMessages(e) PROVE ServerTyped' /\ LinkTyped'
    <2> DEFINE c == conn[e]
    <2>1. c \in Conns
      BY <1>0, <1>8 DEF SendTcpMessages, ServerTyped
    <2>2. PICK k \in SentCounts(toClient[c], clientEnd[c] = "open", toSend[e]) :
            /\ ServerSends(c, Serialized(Take(toSend[e], k)))
            /\ toSend' = [toSend EXCEPT ![e] = Drop(@, k)]
      BY <1>8 DEF SendTcpMessages
    <2>3. UNCHANGED <<accepted, starts, live, conn, received, initMessage, disconnectedClientIds>>
      BY <1>8 DEF SendTcpMessages, events
    <2> HIDE DEF c
    <2>4. /\ toClient[c] \in Seq(Messages) /\ toSend[e] \in Seq(Messages)
          /\ Len(toClient[c]) <= Capacity
      BY <1>0, <2>1 DEF LinkTyped, ServerTyped
    <2>5. k \in 0..Len(toSend[e]) /\ (clientEnd[c] = "open" => Len(toClient[c]) + k <= Capacity)
      BY <2>2, <2>4, SentCountsBound
    <2>6. /\ Take(toSend[e], k) \in Seq(Messages) /\ Len(Take(toSend[e], k)) = k
          /\ Drop(toSend[e], k) \in Seq(Messages)
      BY <2>4, <2>5, TakeDrop
    <2>7. /\ Serialized(Take(toSend[e], k)) \in Seq(Messages)
          /\ Len(Serialized(Take(toSend[e], k))) = k
      BY <1>0, <2>6, SerializedType DEF ServerTyped
    <2>8. LinkTyped'
      BY <1>0, <2>1, <2>2, <2>5, <2>7, SendingKeepsTypes
    <2>9. QED
      BY <1>0, <2>2, <2>3, <2>6, <2>8 DEF ServerTyped
  <1>9. QED
    BY <1>1, <1>2, <1>3, <1>4, <1>5, <1>6, <1>7, <1>8

\* What a client reads goes to its queues.
LEMMA QueuesKeepTypes ==
  ASSUME ClientTyped, NEW c \in Conns, NEW msgs \in Seq(Messages), ReceiveSpawnDespawn(c, msgs)
  PROVE  /\ spawnQueue' \in [Conns -> Seq(Spawns!NetworkIds)]
         /\ despawnQueue' \in [Conns -> Seq(Spawns!NetworkIds)]
  <1>1. /\ AllSpawned(msgs) \in Seq(Spawns!NetworkIds)
        /\ AllDespawned(msgs) \in Seq(Spawns!NetworkIds)
    BY AllSpawnedMembers, AllDespawnedMembers
  <1>2. /\ spawnQueue[c] \o AllSpawned(msgs) \in Seq(Spawns!NetworkIds)
        /\ despawnQueue[c] \o AllDespawned(msgs) \in Seq(Spawns!NetworkIds)
    BY <1>1 DEF ClientTyped
  <1>3. QED
    BY <1>2 DEF ClientTyped, ReceiveSpawnDespawn

\* connectTo, in its three cases.
LEMMA ConnectKeepsTypes ==
  ASSUME Typed, NEW c \in Conns,
         ConnectTo(c) \/ (\E d \in Conns : ConnectAgain(c, d)) \/ ConnectAgainFails(c)
  PROVE  ClientTyped' /\ LinkTyped'
  <1>0. LinkTyped /\ ClientTyped
    BY DEF Typed
  <1>1. CASE ConnectTo(c)
    <2>1. LinkTyped'
      BY <1>0, <1>1, EndsKeepTypes DEF ConnectTo
    <2>2. /\ clientPhase' = [clientPhase EXCEPT ![c] = "idle"]
          /\ clientTags' = [clientTags EXCEPT ![c] = {"Connected"}]
          /\ UNCHANGED <<process, clientReceived, clientToSend, clientId, spawnQueue,
               despawnQueue, known, inherited>>
      BY <1>1 DEF ConnectTo
    <2>3. QED
      BY <1>0, <2>1, <2>2 DEF ClientTyped, Tags
  <1>2. ASSUME NEW d \in Conns, ConnectAgain(c, d) PROVE ClientTyped' /\ LinkTyped'
    <2>1. LinkTyped'
      BY <1>0, <1>2, EndsKeepTypes DEF ConnectAgain
    <2>2. /\ process' = [process EXCEPT ![d] = process[c]]
          /\ clientPhase' = [clientPhase EXCEPT ![c] = "left", ![d] = "idle"]
          /\ clientTags' = [clientTags EXCEPT ![c] = {}, ![d] = {"Connected"}]
          /\ clientReceived' = [clientReceived EXCEPT ![c] = <<>>]
          /\ clientToSend' = [clientToSend EXCEPT ![c] = <<>>]
          /\ clientId' = [clientId EXCEPT ![c] = 0, ![d] = clientId[c]]
          /\ spawnQueue' = [spawnQueue EXCEPT ![c] = <<>>, ![d] = spawnQueue[c]]
          /\ despawnQueue' = [despawnQueue EXCEPT ![c] = <<>>, ![d] = despawnQueue[c]]
          /\ known' = [known EXCEPT ![c] = {}]
          /\ inherited' \subseteq inherited \cup {d}
      BY <1>2 DEF ConnectAgain
    <2>3. 0 \in 0..MaxClientId
      BY ServerAssumption DEF ServerAssumption
    <2>4. /\ spawnQueue' \in [Conns -> Seq(Spawns!NetworkIds)]
          /\ despawnQueue' \in [Conns -> Seq(Spawns!NetworkIds)]
      <3>1. /\ spawnQueue[c] \in Seq(Spawns!NetworkIds) /\ <<>> \in Seq(Spawns!NetworkIds)
            /\ despawnQueue[c] \in Seq(Spawns!NetworkIds)
        BY <1>0 DEF ClientTyped
      <3>2. /\ spawnQueue \in [Conns -> Seq(Spawns!NetworkIds)]
            /\ despawnQueue \in [Conns -> Seq(Spawns!NetworkIds)]
        BY <1>0 DEF ClientTyped
      <3> DEFINE S == Seq(Spawns!NetworkIds)
      <3> HIDE DEF S
      <3>3. spawnQueue' \in [Conns -> S]
        <4>1. spawnQueue[c] \in S /\ <<>> \in S /\ spawnQueue \in [Conns -> S]
          BY <3>1, <3>2 DEF S
        <4>2. QED
          BY <2>2, <4>1
      <3>4. despawnQueue' \in [Conns -> S]
        <4>1. despawnQueue[c] \in S /\ <<>> \in S /\ despawnQueue \in [Conns -> S]
          BY <3>1, <3>2 DEF S
        <4>2. QED
          BY <2>2, <4>1
      <3>5. QED
        BY <3>3, <3>4 DEF S
    <2>5. /\ clientReceived' \in [Conns -> Seq(Messages)]
          /\ clientToSend' \in [Conns -> Seq(Messages)]
      BY <1>0, <2>2 DEF ClientTyped
    <2>6. QED
      BY <1>0, <2>1, <2>2, <2>3, <2>4, <2>5 DEF ClientTyped, Tags
  <1>3. CASE ConnectAgainFails(c)
    BY <1>0, <1>3, SameLinkTypes DEF ConnectAgainFails, ClientTyped
  <1>4. QED
    BY <1>1, <1>2, <1>3

\* Client::beginUpdate.
LEMMA BeginUpdateKeepsTypes ==
  ASSUME Typed, NEW c \in Conns, BeginUpdate(c) \/ BeginUpdateDisconnects(c)
  PROVE  ClientTyped' /\ LinkTyped'
  <1>0. LinkTyped /\ ClientTyped
    BY DEF Typed
  <1>1. CASE BeginUpdateDisconnects(c)
    <2>1. /\ clientTags' = [clientTags EXCEPT ![c] = LostTags(@)]
          /\ ReceiveSpawnDespawn(c, clientReceived[c])
          /\ clientPhase' = [clientPhase EXCEPT ![c] = "app"]
          /\ UNCHANGED <<process, clientReceived, clientToSend, clientId, known, inherited, link>>
      BY <1>1 DEF BeginUpdateDisconnects
    <2>2. /\ spawnQueue' \in [Conns -> Seq(Spawns!NetworkIds)]
          /\ despawnQueue' \in [Conns -> Seq(Spawns!NetworkIds)]
      <3>1. clientReceived[c] \in Seq(Messages)
        BY <1>0 DEF ClientTyped
      <3>2. QED
        BY <1>0, <2>1, <3>1, QueuesKeepTypes
    <2>3. clientTags' \in [Conns -> SUBSET Tags]
      BY <1>0, <2>1 DEF ClientTyped, LostTags, Tags
    <2>4. QED
      BY <1>0, <2>1, <2>2, <2>3, SameLinkTypes DEF ClientTyped
  <1>2. CASE BeginUpdate(c)
    <2>1. clientReceived' \in [Conns -> Seq(Messages)] /\ LinkTyped'
            /\ clientTags' \in [Conns -> SUBSET Tags]
      <3>1. ASSUME NEW k \in 0..Len(toClient[c]),
                   clientReceived' = [clientReceived EXCEPT ![c] = Take(toClient[c], k)],
                   ClientReceives(c, k), UNCHANGED clientTags
            PROVE  clientReceived' \in [Conns -> Seq(Messages)] /\ LinkTyped'
                     /\ clientTags' \in [Conns -> SUBSET Tags]
        <4>1. toClient[c] \in Seq(Messages)
          BY <1>0 DEF LinkTyped
        <4>2. Take(toClient[c], k) \in Seq(Messages)
          BY <4>1, TakeDrop
        <4>3. LinkTyped'
          BY <1>0, <3>1, ClientReceivesKeepsTypes
        <4>4. QED
          BY <1>0, <3>1, <4>2, <4>3 DEF ClientTyped
      <3>2. ASSUME clientReceived' = [clientReceived EXCEPT ![c] = <<>>],
                   clientTags' = [clientTags EXCEPT ![c] = @ \cup {"PendingDisconnect"}],
                   UNCHANGED link
            PROVE  clientReceived' \in [Conns -> Seq(Messages)] /\ LinkTyped'
                     /\ clientTags' \in [Conns -> SUBSET Tags]
        BY <1>0, <3>2, SameLinkTypes DEF ClientTyped, Tags
      <3>3. QED
        BY <1>2, <3>1, <3>2 DEF BeginUpdate
    <2>2. /\ ReceiveSpawnDespawn(c, clientReceived'[c])
          /\ clientPhase' = [clientPhase EXCEPT ![c] = "app"]
          /\ UNCHANGED <<process, clientToSend, clientId, known, inherited>>
      BY <1>2 DEF BeginUpdate
    <2>3. /\ spawnQueue' \in [Conns -> Seq(Spawns!NetworkIds)]
          /\ despawnQueue' \in [Conns -> Seq(Spawns!NetworkIds)]
      <3>1. clientReceived'[c] \in Seq(Messages)
        BY <2>1
      <3>2. QED
        BY <1>0, <2>2, <3>1, QueuesKeepTypes
    <2>4. QED
      BY <1>0, <2>1, <2>2, <2>3 DEF ClientTyped
  <1>3. QED
    BY <1>1, <1>2

\* The application of a client takes its news.
LEMMA ApplicationKeepsTypes ==
  ASSUME Typed, NEW c \in Conns, Application(c)
  PROVE  ClientTyped' /\ LinkTyped'
  <1>0. LinkTyped /\ ClientTyped
    BY DEF Typed
  <1>1. /\ UNCHANGED <<process, clientTags, clientReceived, clientId, inherited, link>>
        /\ clientPhase' = [clientPhase EXCEPT ![c] = "end"]
    BY DEF Application
  <1>2. /\ UNCHANGED <<known, spawnQueue, despawnQueue, clientToSend>>
        \/ /\ known' = [known EXCEPT ![c] =
               (@ \cup Spawns!Members(spawnQueue[c])) \ Spawns!Members(despawnQueue[c])]
           /\ spawnQueue' = [spawnQueue EXCEPT ![c] = <<>>]
           /\ despawnQueue' = [despawnQueue EXCEPT ![c] = <<>>]
           /\ \/ UNCHANGED clientToSend
              \/ clientToSend' = [clientToSend EXCEPT ![c] = Append(@, AppMessage)]
    BY DEF Application
  <1>3. CASE UNCHANGED <<known, spawnQueue, despawnQueue, clientToSend>>
    BY <1>0, <1>1, <1>3, SameLinkTypes DEF ClientTyped
  <1>4. CASE /\ known' = [known EXCEPT ![c] =
                  (@ \cup Spawns!Members(spawnQueue[c])) \ Spawns!Members(despawnQueue[c])]
             /\ spawnQueue' = [spawnQueue EXCEPT ![c] = <<>>]
             /\ despawnQueue' = [despawnQueue EXCEPT ![c] = <<>>]
             /\ \/ UNCHANGED clientToSend
                \/ clientToSend' = [clientToSend EXCEPT ![c] = Append(@, AppMessage)]
    <2>1. Spawns!Members(spawnQueue[c]) \subseteq Spawns!NetworkIds
      BY <1>0 DEF ClientTyped, Spawns!Members
    <2>2. AppMessage \in Messages
      BY MessageTypes
    <2>3. clientToSend' \in [Conns -> Seq(Messages)]
      <3>1. clientToSend \in [Conns -> Seq(Messages)]
        BY <1>0 DEF ClientTyped
      <3>2. Append(clientToSend[c], AppMessage) \in Seq(Messages)
        BY <2>2, <3>1
      <3>3. QED
        BY <1>4, <3>1, <3>2
    <2>4. known' \in [Conns -> SUBSET Spawns!NetworkIds]
      BY <1>0, <1>4, <2>1 DEF ClientTyped
    <2>5. spawnQueue' \in [Conns -> Seq(Spawns!NetworkIds)]
            /\ despawnQueue' \in [Conns -> Seq(Spawns!NetworkIds)]
      BY <1>0, <1>4 DEF ClientTyped
    <2>6. QED
      BY <1>0, <1>1, <2>3, <2>4, <2>5, SameLinkTypes DEF ClientTyped
  <1>5. QED
    BY <1>2, <1>3, <1>4

\* Client::endUpdate.
LEMMA EndUpdateKeepsTypes ==
  ASSUME Typed, NEW c \in Conns, EndUpdateInitializes(c) \/ EndUpdateSends(c)
  PROVE  ClientTyped' /\ LinkTyped'
  <1>0. LinkTyped /\ ClientTyped
    BY DEF Typed
  <1>1. CASE EndUpdateInitializes(c)
    <2>1. PICK i \in 1..Len(clientReceived[c]) :
            /\ IsFirst(clientReceived[c], i, "InitializeClient")
            /\ clientId' = [clientId EXCEPT ![c] = clientReceived[c][i].id]
      BY <1>1 DEF EndUpdateInitializes
    <2>2. clientReceived[c][i].id \in 0..MaxClientId
      <3>1. clientReceived[c][i] \in Messages /\ clientReceived[c][i].type = "InitializeClient"
        BY <1>0, <2>1 DEF ClientTyped, IsFirst
      <3>2. QED
        BY <3>1, MessageParts
    <2>3. /\ clientTags' = [clientTags EXCEPT ![c] = @ \cup {"ClientIsReady"}]
          /\ clientToSend' = [clientToSend EXCEPT ![c] = Append(clientToSend[c], ClientIsReady)]
          /\ clientPhase' = [clientPhase EXCEPT ![c] = "idle"]
          /\ UNCHANGED <<process, clientReceived, spawnQueue, despawnQueue, known, inherited,
                         link>>
      BY <1>1 DEF EndUpdateInitializes, Answer
    <2>4. ClientIsReady \in Messages
      BY MessageTypes
    <2>5. clientToSend' \in [Conns -> Seq(Messages)]
      BY <1>0, <2>3, <2>4 DEF ClientTyped
    <2>6. clientId' \in [Conns -> 0..MaxClientId]
      BY <1>0, <2>1, <2>2 DEF ClientTyped
    <2>7. QED
      BY <1>0, <2>3, <2>5, <2>6, SameLinkTypes DEF ClientTyped, Tags
  <1>2. CASE EndUpdateSends(c)
    <2>1. /\ clientPhase' = [clientPhase EXCEPT ![c] = "idle"]
          /\ UNCHANGED <<process, clientReceived, clientId, spawnQueue, despawnQueue, known,
                         inherited>>
      BY <1>2 DEF EndUpdateSends
    <2>2. clientTags' \in [Conns -> SUBSET Tags] /\ clientToSend' \in [Conns -> Seq(Messages)]
            /\ LinkTyped'
      <3>1. CASE "PendingDisconnect" \in clientTags[c]
        <4>1. UNCHANGED <<clientTags, clientToSend, link>>
          BY <1>2, <3>1 DEF EndUpdateSends
        <4>2. QED
          BY <1>0, <4>1, SameLinkTypes DEF ClientTyped
      <3>2. CASE "PendingDisconnect" \notin clientTags[c]
        <4>1. PICK k \in SentCounts(toServer[c], serverEnd[c] # "closed", clientToSend[c]) :
                /\ ClientSends(c, Take(clientToSend[c], k))
                /\ clientToSend' = [clientToSend EXCEPT ![c] = Drop(@, k)]
                /\ clientTags' = [clientTags EXCEPT ![c] =
                     IF k < Len(clientToSend[c]) THEN @ \cup {"PendingDisconnect"} ELSE @]
          BY <1>2, <3>2 DEF EndUpdateSends
        <4>2. /\ toServer[c] \in Seq(Messages) /\ clientToSend[c] \in Seq(Messages)
              /\ Len(toServer[c]) <= Capacity
          BY <1>0 DEF LinkTyped, ClientTyped
        <4>3. k \in 0..Len(clientToSend[c])
                /\ (serverEnd[c] # "closed" => Len(toServer[c]) + k <= Capacity)
          BY <4>1, <4>2, SentCountsBound
        <4>4. /\ Take(clientToSend[c], k) \in Seq(Messages) /\ Len(Take(clientToSend[c], k)) = k
              /\ Drop(clientToSend[c], k) \in Seq(Messages)
          BY <4>2, <4>3, TakeDrop
        <4>5. LinkTyped'
          BY <1>0, <4>1, <4>3, <4>4, SendingKeepsTypes
        <4>6. clientTags' \in [Conns -> SUBSET Tags]
          BY <1>0, <4>1 DEF ClientTyped, Tags
        <4>7. QED
          BY <1>0, <4>1, <4>4, <4>5, <4>6 DEF ClientTyped
      <3>3. QED
        BY <3>1, <3>2
    <2>3. QED
      BY <1>0, <2>1, <2>2 DEF ClientTyped
  <1>3. QED
    BY <1>1, <1>2

\* A client that disconnects or whose process ends.
LEMMA LeavingKeepsTypes ==
  ASSUME Typed, NEW c \in Conns, Disconnect(c) \/ Exit(c)
  PROVE  ClientTyped' /\ LinkTyped'
  <1>0. LinkTyped /\ ClientTyped
    BY DEF Typed
  <1>1. CASE Disconnect(c)
    <2>1. LinkTyped'
      BY <1>0, <1>1, ClosingKeepsTypes, SameLinkTypes DEF Disconnect
    <2>2. QED
      BY <1>0, <1>1, <2>1 DEF Disconnect, ClientTyped
  <1>2. CASE Exit(c)
    <2>1. LinkTyped'
      BY <1>0, <1>2, ClosingKeepsTypes DEF Exit
    <2>2. 0 \in 0..MaxClientId
      BY ServerAssumption DEF ServerAssumption
    <2>3. QED
      BY <1>0, <1>2, <2>1, <2>2 DEF Exit, ClientTyped
  <1>3. QED
    BY <1>1, <1>2

\* Every step keeps the types.
LEMMA NextTyped == Typed /\ ServerInv /\ Spawns!SpawnInv /\ [Next]_vars => Typed'
  <1> SUFFICES ASSUME Typed, ServerInv, Spawns!SpawnInv, [Next]_vars PROVE Typed'
    OBVIOUS
  <1>0. LinkTyped /\ ServerTyped /\ ClientTyped
    BY DEF Typed
  <1>1. CASE ServerStep
    <2>1. ServerTyped' /\ LinkTyped'
      BY <1>1, EarlyPhasesKeepTypes, ReceivingPhasesKeepTypes, LatePhasesKeepTypes
      DEF ServerStep, ServerNext, ServerTick
    <2>2. ClientTyped'
      BY <1>0, <1>1, SameClientTypes DEF ServerStep
    <2>3. QED
      BY <2>1, <2>2 DEF Typed
  <1>2. ASSUME NEW c \in Conns, ClientStep(c) PROVE Typed'
    <2>1. ClientTyped' /\ LinkTyped'
      BY <1>2, ConnectKeepsTypes, BeginUpdateKeepsTypes, ApplicationKeepsTypes,
         EndUpdateKeepsTypes,
         LeavingKeepsTypes DEF ClientStep, ClientTick
    <2>2. ServerTyped'
      BY <1>0, <1>2, SameServerTypes DEF ClientStep, serverVars, ecs, typedServerVars
    <2>3. QED
      BY <2>1, <2>2 DEF Typed
  <1>3. ASSUME NEW c \in Conns, Breaks(c) PROVE Typed'
    BY <1>0, <1>3, EndsKeepTypes, SameClientTypes, SameServerTypes
    DEF Breaks, serverVars, ecs, typedServerVars, Typed
  <1>4. CASE UNCHANGED vars
    BY <1>0, <1>4, SameLinkTypes, SameClientTypes, SameServerTypes
    DEF vars, serverVars, ecs, typedServerVars, Typed
  <1>5. QED
    BY <1>1, <1>2, <1>3, <1>4 DEF Next, Finished

-----------------------------------------------------------------------------
(* The tags of an entity through a tick.                                   *)

\* The handshake with the client of entity e has begun: it was registered.
Begun(e) == "WaitingClientIsReady" \in tags[e] \/ "ClientIsReady" \in tags[e]

NoTagsWithoutEntity == \A e \in Entities \ live : tags[e] = {}

StoppedIsEmpty == phase = "stopped" => live = {}

TagsExclusive ==
  \A e \in Entities :
    /\ "Connected" \in tags[e] => "Disconnected" \notin tags[e]
    /\ "WaitingClientIsReady" \in tags[e] => "ClientIsReady" \notin tags[e]

\* What a loop visits has the tag the loop is about.
LoopsOverTags ==
  /\ phase = "receive" => \A e \in todo : "Connected" \in tags[e]
  /\ phase = "report" => \A e \in todo : "Disconnected" \in tags[e]
  /\ phase = "ready" => \A e \in todo : "WaitingClientIsReady" \in tags[e]
  /\ phase = "initialize" => \A e \in todo : ~Begun(e)

\* Until initializeNewClient, what is new is not registered.
NewNotBegun ==
  phase \in {"accept", "receive", "app", "report", "ready"} =>
    \A e \in live : "NewConnection" \in tags[e] => ~Begun(e)

\* An entity is not registered only from AcceptConnectionSystem to
\* initializeNewClient in the tick it is made.
NotBegunIsNew ==
  \A e \in live : ~Begun(e) =>
    /\ "NewConnection" \in tags[e]
    /\ phase \in {"accept", "receive", "app", "report", "ready", "initialize"}
    /\ phase = "initialize" => e \in todo

TagInv ==
  /\ NoTagsWithoutEntity
  /\ StoppedIsEmpty
  /\ TagsExclusive
  /\ LoopsOverTags
  /\ NewNotBegun
  /\ NotBegunIsNew

\* Nothing is tagged before the server starts.
LEMMA InitTagInv == Init => TagInv
  BY DEF Init, ServerInit, TagInv, NoTagsWithoutEntity, StoppedIsEmpty, TagsExclusive,
         LoopsOverTags, NewNotBegun, NotBegunIsNew

\* A step that does not touch entities and their tags.
LEMMA SameTags ==
  ASSUME TagInv, UNCHANGED <<phase, todo, live, tags>>
  PROVE  TagInv'
  BY DEF TagInv, NoTagsWithoutEntity, StoppedIsEmpty, TagsExclusive, LoopsOverTags,
         NewNotBegun, NotBegunIsNew, Begun

\* Entities are destroyed with their tags.
LEMMA DestroyKeepsTags ==
  ASSUME TagInv, ServerInv, Stop \/ DisconnectSystem
  PROVE  TagInv'
  <1>1. PICK es \in SUBSET Entities : /\ live' = live \ es
                   /\ tags' = [e \in Entities |-> IF e \in es THEN {} ELSE tags[e]]
                   /\ todo' = {}
                   /\ \/ phase' = "stopped" /\ live' = {}
                      \/ phase = "idle" /\ phase' = "pending"
    BY DEF Stop, DisconnectSystem, DestroyEntities, Enter, ReportedEntities, With, ServerInv,
       TablesTyped
  <1>2. live \subseteq Entities
    BY DEF ServerInv, TablesTyped
  <1>3. QED
    BY <1>1, <1>2 DEF TagInv, NoTagsWithoutEntity, StoppedIsEmpty, TagsExclusive, LoopsOverTags,
         NewNotBegun, NotBegunIsNew, Begun

\* PendingDisconnectSystem and the first step of AcceptConnectionSystem.
LEMMA RetaggingKeepsTags ==
  ASSUME TagInv, ServerInv, PendingDisconnectSystem \/ ForgetNewConnections
  PROVE  TagInv'
  <1>0. live \subseteq Entities
    BY DEF ServerInv, TablesTyped
  <1>1. CASE PendingDisconnectSystem
    <2>1. /\ phase = "pending" /\ phase' = "forget" /\ todo' = {} /\ live' = live
          /\ tags' = [e \in Entities |->
               IF e \in With("PendingDisconnect") \cap With("Connected")
               THEN (tags[e] \ {"PendingDisconnect", "Connected"}) \cup {"Disconnected"}
               ELSE tags[e]]
      BY <1>1 DEF PendingDisconnectSystem, Enter
    <2>2. QED
      BY <1>0, <2>1 DEF TagInv, NoTagsWithoutEntity, StoppedIsEmpty, TagsExclusive, LoopsOverTags,
         NewNotBegun, NotBegunIsNew, Begun, With
  <1>2. CASE ForgetNewConnections
    <2>1. /\ phase = "forget" /\ phase' = "accept" /\ todo' = {} /\ live' = live
          /\ tags' = [e \in Entities |-> tags[e] \ {"NewConnection"}]
      BY <1>2 DEF ForgetNewConnections, Enter, NoLongerNew
    <2>2. QED
      BY <1>0, <2>1 DEF TagInv, NoTagsWithoutEntity, StoppedIsEmpty, TagsExclusive, LoopsOverTags,
         NewNotBegun, NotBegunIsNew, Begun
  <1>3. QED
    BY <1>1, <1>2

\* The entity of an accepted connection begins as connected and new.
LEMMA AcceptKeepsTags ==
  ASSUME TagInv, ServerInv, NEW e \in Entities, AcceptConnection(e)
  PROVE  TagInv'
  <1>1. /\ phase = "accept" /\ e \notin live /\ live' = live \cup {e}
        /\ tags' = [tags EXCEPT ![e] = {"NewConnection", "Connected"}]
        /\ UNCHANGED <<phase, todo>>
    BY DEF AcceptConnection
  <1>2. live \subseteq Entities /\ tags \in [Entities -> SUBSET Tags]
    BY DEF ServerInv, TablesTyped
  <1>3. QED
    BY <1>1, <1>2 DEF TagInv, NoTagsWithoutEntity, StoppedIsEmpty, TagsExclusive, LoopsOverTags,
         NewNotBegun, NotBegunIsNew, Begun

\* The loops of a tick follow each other.
LEMMA PhasesKeepTags ==
  ASSUME TagInv, ServerInv,
         \/ Start \/ AcceptDone \/ ReceiveDone \/ EndUpdate \/ ReportDone \/ ReadyDone
         \/ InitializeDone \/ SendNewSpawnDespawn \/ SendSnapshots \/ SendDone
  PROVE  TagInv'
  <1>0. live \subseteq Entities
    BY DEF ServerInv, TablesTyped
  <1>1. UNCHANGED <<live, tags>>
    BY DEF Start, AcceptDone, ReceiveDone, EndUpdate, ReportDone, ReadyDone,
           InitializeDone, SendNewSpawnDespawn, SendSnapshots, SendDone, ecs
  <1>2. CASE ReadyDone
    <2>1. /\ phase = "ready" /\ phase' = "initialize"
          /\ todo' = With("NewConnection") \ With("WaitingClientIsReady")
      BY <1>2 DEF ReadyDone, Enter
    <2>2. QED
      BY <1>0, <1>1, <2>1
      DEF TagInv, NoTagsWithoutEntity, StoppedIsEmpty, TagsExclusive, LoopsOverTags,
         NewNotBegun, NotBegunIsNew, Begun, With
  <1>3. CASE Start \/ InitializeDone \/ SendNewSpawnDespawn \/ SendSnapshots \/ SendDone
    <2>1. /\ phase' \in {"idle", "broadcast", "snapshot", "send"}
          /\ \/ phase = "stopped"
             \/ phase = "initialize" /\ todo = {}
             \/ phase \in {"broadcast", "snapshot", "send"}
      BY <1>3 DEF Start, InitializeDone, SendNewSpawnDespawn, SendSnapshots, SendDone, Enter
    <2>2. QED
      BY <1>1, <2>1 DEF TagInv, NoTagsWithoutEntity, StoppedIsEmpty, TagsExclusive, LoopsOverTags,
         NewNotBegun, NotBegunIsNew, Begun
  <1>4. CASE AcceptDone \/ ReceiveDone \/ EndUpdate \/ ReportDone
    <2>1. \/ phase = "accept" /\ phase' = "receive" /\ todo' = Linked
          \/ phase = "receive" /\ phase' = "app"
          \/ phase = "app" /\ phase' = "report" /\ todo' = With("Disconnected")
          \/ phase = "report" /\ phase' = "ready" /\ todo' = With("WaitingClientIsReady")
      BY <1>4 DEF AcceptDone, ReceiveDone, EndUpdate, ReportDone, Enter
    <2>2. QED
      BY <1>1, <2>1 DEF TagInv, NoTagsWithoutEntity, StoppedIsEmpty, TagsExclusive, LoopsOverTags,
         NewNotBegun, NotBegunIsNew, Begun, Linked, With
  <1>5. QED
    BY <1>2, <1>3, <1>4

\* The steps of the loops.
LEMMA VisitsKeepTags ==
  ASSUME TagInv, ServerInv, NEW e \in Entities,
         \/ ReceiveTcpMessages(e) \/ ReceiveFails(e) \/ DisconnectedClient(e)
         \/ SetClientReady(e) \/ InitializeNewClient(e) \/ SendTcpMessages(e)
  PROVE  TagInv'
  <1>0. /\ live \subseteq Entities /\ todo \subseteq live /\ tags \in [Entities -> SUBSET Tags]
    BY DEF ServerInv, TablesTyped
  <1>1. e \in todo /\ todo' = todo \ {e} /\ UNCHANGED <<phase, live>>
    BY DEF ReceiveTcpMessages, ReceiveFails, DisconnectedClient, SetClientReady,
           InitializeNewClient, SendTcpMessages, Visited, ecs
  <1>2. CASE ReceiveTcpMessages(e) \/ ReceiveFails(e) \/ DisconnectedClient(e)
             \/ SendTcpMessages(e)
    <2>1. \/ UNCHANGED tags
          \/ tags' = [tags EXCEPT ![e] = @ \cup {"PendingDisconnect"}]
      BY <1>0, <1>2 DEF ReceiveTcpMessages, ReceiveFails, DisconnectedClient, SendTcpMessages,
         ecs, Failed
    <2>2. phase \in {"receive", "report", "send"}
      BY <1>2 DEF ReceiveTcpMessages, ReceiveFails, DisconnectedClient, SendTcpMessages
    <2>3. /\ \A d \in Entities, t \in Tags \ {"PendingDisconnect"} :
               t \in tags'[d] <=> t \in tags[d]
          /\ \A d \in Entities \ {e} : tags'[d] = tags[d]
      BY <1>0, <2>1
    <2>4. QED
      BY <1>0, <1>1, <2>2, <2>3
      DEF TagInv, NoTagsWithoutEntity, StoppedIsEmpty, TagsExclusive, LoopsOverTags,
         NewNotBegun, NotBegunIsNew, Begun, Tags
  <1>3. CASE SetClientReady(e)
    <2>1. /\ phase = "ready"
          /\ \/ UNCHANGED tags
             \/ tags' = [tags EXCEPT ![e] = (@ \ {"WaitingClientIsReady"}) \cup {"ClientIsReady"}]
      BY <1>3 DEF SetClientReady
    <2>2. "WaitingClientIsReady" \in tags[e] /\ "NewConnection" \notin tags[e]
      BY <1>0, <1>1, <2>1 DEF TagInv, LoopsOverTags, NewNotBegun, Begun
    <2>3. CASE UNCHANGED tags
      BY <1>0, <1>1, <2>1, <2>3
      DEF TagInv, NoTagsWithoutEntity, StoppedIsEmpty, TagsExclusive, LoopsOverTags,
         NewNotBegun, NotBegunIsNew, Begun
    <2>4. CASE tags' = [tags EXCEPT ![e] = (@ \ {"WaitingClientIsReady"}) \cup {"ClientIsReady"}]
      <3>1. /\ \A d \in Entities \ {e} : tags'[d] = tags[d]
            /\ tags'[e] = (tags[e] \ {"WaitingClientIsReady"}) \cup {"ClientIsReady"}
        BY <1>0, <2>4
      <3>2. "ClientIsReady" \in tags'[e] /\ "WaitingClientIsReady" \notin tags'[e]
            /\ "NewConnection" \notin tags'[e]
            /\ ("Connected" \in tags'[e] <=> "Connected" \in tags[e])
            /\ ("Disconnected" \in tags'[e] <=> "Disconnected" \in tags[e])
        BY <2>2, <3>1
      <3>3. (NoTagsWithoutEntity /\ StoppedIsEmpty /\ TagsExclusive)'
        BY <1>0, <1>1, <3>1, <3>2 DEF TagInv, NoTagsWithoutEntity, StoppedIsEmpty, TagsExclusive
      <3>4. (LoopsOverTags /\ NewNotBegun /\ NotBegunIsNew)'
        BY <1>0, <1>1, <2>1, <3>1, <3>2
        DEF TagInv, LoopsOverTags, NewNotBegun, NotBegunIsNew, Begun
      <3>5. QED
        BY <3>3, <3>4 DEF TagInv
    <2>5. QED
      BY <2>1, <2>3, <2>4
  <1>4. CASE InitializeNewClient(e)
    <2>1. /\ phase = "initialize"
          /\ tags' = [tags EXCEPT ![e] = @ \cup {"WaitingClientIsReady"}]
      BY <1>4 DEF InitializeNewClient
    <2>2. QED
      BY <1>0, <1>1, <2>1
      DEF TagInv, NoTagsWithoutEntity, StoppedIsEmpty, TagsExclusive, LoopsOverTags,
         NewNotBegun, NotBegunIsNew, Begun
  <1>5. QED
    BY <1>2, <1>3, <1>4

\* Every step keeps what the tags say.
LEMMA NextTagInv == TagInv /\ ServerInv /\ [Next]_vars => TagInv'
  <1> SUFFICES ASSUME TagInv, ServerInv, [Next]_vars PROVE TagInv'
    OBVIOUS
  <1>1. CASE ServerNext
    <2>1. CASE ServerApp \/ AcceptedSocketFails
      BY <2>1, SameTags DEF ServerApp, CreateNetworkEntity, DestroyNetworkEntity, SendTcpMessage,
                            AcceptedSocketFails, ecs
    <2>2. CASE Stop \/ DisconnectSystem \/ PendingDisconnectSystem \/ ForgetNewConnections
      BY <2>2, DestroyKeepsTags, RetaggingKeepsTags
    <2>3. CASE \/ Start \/ AcceptDone \/ ReceiveDone \/ EndUpdate \/ ReportDone \/ ReadyDone
               \/ InitializeDone \/ SendNewSpawnDespawn \/ SendSnapshots \/ SendDone
      BY <2>3, PhasesKeepTags
    <2>4. ASSUME NEW e \in Entities,
                 \/ AcceptConnection(e) \/ ReceiveTcpMessages(e) \/ ReceiveFails(e)
                 \/ DisconnectedClient(e) \/ SetClientReady(e) \/ InitializeNewClient(e)
                 \/ SendTcpMessages(e)
          PROVE  TagInv'
      BY <2>4, AcceptKeepsTags, VisitsKeepTags
    <2>5. QED
      BY <1>1, <2>1, <2>2, <2>3, <2>4 DEF ServerNext, ServerTick
  <1>2. CASE UNCHANGED serverVars
    BY <1>2, SameTags DEF serverVars, ecs
  <1>3. QED
    BY <1>1, <1>2 DEF Next, ServerStep, ClientStep, Breaks, Finished, vars

-----------------------------------------------------------------------------
(* Connections and who holds them.                                         *)

UnusedConnections ==
  \A c \in Conns : clientPhase[c] = "off" =>
    /\ clientEnd[c] = "none" /\ serverEnd[c] = "none"
    /\ \A i \in 1..Len(backlog) : backlog[i] # c

\* A connection no process made is not used.
UnclaimedIsOff == \A c \in Conns : process[c] = NoConn => clientPhase[c] = "off"

BacklogInv ==
  /\ \A i, j \in 1..Len(backlog) : backlog[i] = backlog[j] => i = j
  /\ \A i \in 1..Len(backlog) : serverEnd[backlog[i]] = "none"

\* An entity has a connection that was accepted, and no other entity has it.
EntitiesHoldConns ==
  /\ \A e \in live : serverEnd[conn[e]] # "none"
  /\ \A d, e \in live : conn[d] = conn[e] => d = e

GoneHasNoTags ==
  \A c \in Conns : clientPhase[c] \notin {"idle", "app", "end"} => clientTags[c] = {}

ConnInv ==
  /\ UnusedConnections
  /\ UnclaimedIsOff
  /\ BacklogInv
  /\ EntitiesHoldConns
  /\ GoneHasNoTags

\* No connection is made before the server starts.
LEMMA InitConnInv == Init => ConnInv
  <1> SUFFICES ASSUME Init PROVE ConnInv
    OBVIOUS
  <1>1. /\ backlog = <<>> /\ live = {}
        /\ clientEnd = [c \in Conns |-> "none"] /\ serverEnd = [c \in Conns |-> "none"]
        /\ clientPhase = [c \in Conns |-> "off"] /\ clientTags = [c \in Conns |-> {}]
    BY DEF Init, ServerInit, LinkInit, ClientInit
  <1>2. QED
    BY <1>1 DEF ConnInv, UnusedConnections, UnclaimedIsOff, BacklogInv, EntitiesHoldConns,
       GoneHasNoTags

connVars == <<backlog, serverEnd, clientEnd, live, conn, process, clientPhase, clientTags>>

\* The server's side.
LEMMA AcceptingKeepsConns ==
  ASSUME ConnInv, Typed, ServerInv, UNCHANGED clientVars,
         (\E e \in Entities : AcceptConnection(e)) \/ AcceptedSocketFails
  PROVE  ConnInv'
  <1>0. /\ backlog \in Seq(Conns) /\ serverEnd \in [Conns -> {"none", "open", "closed"}]
        /\ conn \in [Entities -> Conns \cup {NoConn}] /\ live \subseteq Entities
        /\ NoConn \notin Conns
        /\ \A d \in live : conn[d] \in Conns
    BY ServerAssumption
    DEF Typed, LinkTyped, ServerTyped, ServerInv, TablesTyped, ServerAssumption
  <1> DEFINE c == Head(backlog)
  <1>1. /\ backlog # <<>> /\ backlog' = Tail(backlog)
        /\ \/ serverEnd' = [serverEnd EXCEPT ![c] = "open"]
           \/ serverEnd' = [serverEnd EXCEPT ![c] = "closed"]
        /\ UNCHANGED clientEnd
    BY DEF AcceptConnection, AcceptedSocketFails, Accept, AcceptAndClose
  <1>2. /\ c \in Conns /\ c = backlog[1] /\ 1 \in 1..Len(backlog)
        /\ Len(backlog') = Len(backlog) - 1
        /\ \A i \in 1..Len(backlog') : backlog'[i] = backlog[i + 1] /\ i + 1 \in 1..Len(backlog)
    BY <1>0, <1>1
  <1>3. /\ serverEnd[c] = "none" /\ clientPhase[c] # "off"
        /\ \A i \in 1..Len(backlog') : backlog'[i] # c
    BY <1>2 DEF ConnInv, BacklogInv, UnusedConnections
  <1> HIDE DEF c
  <1>4. serverEnd'[c] # "none" /\ \A d \in Conns \ {c} : serverEnd'[d] = serverEnd[d]
    BY <1>0, <1>1, <1>2
  <1>5. (UnusedConnections /\ UnclaimedIsOff /\ GoneHasNoTags)'
    BY <1>1, <1>2, <1>3, <1>4
    DEF ConnInv, UnusedConnections, UnclaimedIsOff, GoneHasNoTags, clientVars
  <1>6. BacklogInv'
    <2>1. \A i \in 1..Len(backlog') : backlog'[i] \in Conns
      BY <1>0, <1>2
    <2>2. \A i, j \in 1..Len(backlog') : backlog'[i] = backlog'[j] => i = j
      <3> SUFFICES ASSUME NEW i \in 1..Len(backlog'), NEW j \in 1..Len(backlog'),
                          backlog'[i] = backlog'[j]
                   PROVE  i = j
        OBVIOUS
      <3>1. i + 1 = j + 1
        BY <1>2 DEF ConnInv, BacklogInv
      <3>2. QED
        BY <3>1
    <2>3. \A i \in 1..Len(backlog') : serverEnd'[backlog'[i]] = "none"
      BY <1>2, <1>3, <1>4, <2>1 DEF ConnInv, BacklogInv
    <2>4. QED
      BY <2>2, <2>3 DEF BacklogInv
  <1>7. EntitiesHoldConns'
    <2>1. CASE UNCHANGED <<live, conn>>
      BY <1>0, <1>4, <2>1 DEF ConnInv, EntitiesHoldConns
    <2>2. ASSUME NEW e \in Entities, e \notin live, live' = live \cup {e},
                 conn' = [conn EXCEPT ![e] = c]
          PROVE  EntitiesHoldConns'
      <3>1. \A d \in live : conn[d] # c /\ conn'[d] = conn[d]
        BY <1>0, <1>3, <2>2 DEF ConnInv, EntitiesHoldConns
      <3>2. conn'[e] = c
        BY <1>0, <2>2
      <3>3. QED
        BY <1>0, <1>4, <2>2, <3>1, <3>2 DEF ConnInv, EntitiesHoldConns
    <2>3. QED
      BY <2>1, <2>2 DEF AcceptConnection, AcceptedSocketFails, ecs, c
  <1>8. QED
    BY <1>5, <1>6, <1>7 DEF ConnInv

\* Entities that are destroyed give up their connections.
LEMMA ClosingKeepsConns ==
  ASSUME ConnInv, Typed, ServerInv, Stop \/ DisconnectSystem, UNCHANGED clientVars
  PROVE  ConnInv'
  <1>0. /\ conn \in [Entities -> Conns \cup {NoConn}] /\ live \subseteq Entities
        /\ \A d \in live : conn[d] \in Conns /\ conn[d] # NoConn
        /\ serverEnd \in [Conns -> {"none", "open", "closed"}]
    BY ServerAssumption
    DEF Typed, LinkTyped, ServerTyped, ServerInv, TablesTyped, ServerAssumption
  <1>1. CASE Stop
    <2>1. /\ live' = {} /\ backlog' = <<>> /\ UNCHANGED clientEnd
          /\ serverEnd' = [c \in Conns |-> IF \E i \in 1..Len(backlog) : backlog[i] = c
                                           THEN "closed" ELSE serverEnd[c]]
      BY <1>1 DEF Stop, DestroyEntities, CloseListener, Destroyed, HasDestroyFunc
    <2>2. QED
      BY <2>1 DEF ConnInv, UnusedConnections, UnclaimedIsOff, BacklogInv, EntitiesHoldConns,
                  GoneHasNoTags, clientVars
  <1>2. CASE DisconnectSystem
    <2>1. /\ live' = live \ ReportedEntities /\ UNCHANGED <<backlog, clientEnd>>
          /\ conn' = [e \in Entities |-> IF e \in ReportedEntities THEN NoConn ELSE conn[e]]
          /\ serverEnd' = serverEnd
      BY <1>0, <1>2 DEF DisconnectSystem, DestroyEntities, CloseServerEnds, Destroyed,
         HasDestroyFunc
    <2>2. \A e \in live' : e \in live /\ conn'[e] = conn[e]
      BY <1>0, <2>1
    <2>3. QED
      BY <2>1, <2>2 DEF ConnInv, UnusedConnections, UnclaimedIsOff, BacklogInv, EntitiesHoldConns,
                  GoneHasNoTags, clientVars
  <1>3. QED
    BY <1>1, <1>2

\* What no other step of the server touches.
LEMMA SameConns ==
  ASSUME ConnInv, UNCHANGED connVars
  PROVE  ConnInv'
  BY DEF ConnInv, connVars, UnusedConnections, UnclaimedIsOff, BacklogInv, EntitiesHoldConns,
     GoneHasNoTags

\* The clients' side: a connection is made, ...
LEMMA ConnectingKeepsConns ==
  ASSUME ConnInv, Typed, ServerInv, NEW c \in Conns, UNCHANGED serverVars,
         ConnectTo(c) \/ \E d \in Conns : ConnectAgain(c, d)
  PROVE  ConnInv'
  <1>0. /\ backlog \in Seq(Conns) /\ clientEnd \in [Conns -> {"none", "open", "closed"}]
        /\ clientPhase \in
             [Conns -> {"off", "idle", "app", "end", "disconnected", "left", "exited"}]
        /\ clientTags \in [Conns -> SUBSET Tags]
        /\ process \in [Conns -> Processes \cup {NoConn}]
    BY DEF Typed, LinkTyped, ClientTyped
  <1>1. PICK d \in Conns :
          /\ clientPhase[d] = "off" /\ Connect(d)
          /\ clientPhase'[d] = "idle"
          /\ process'[d] # NoConn
          /\ \A b \in Conns \ {d} :
               /\ process'[b] = process[b]
               /\ \/ clientPhase'[b] = clientPhase[b] /\ clientTags'[b] = clientTags[b]
                  \/ clientPhase[b] # "off" /\ clientPhase'[b] = "left" /\ clientTags'[b] = {}
    <2>0. NoConn \notin Conns
      BY ServerAssumption DEF ServerAssumption
    <2>1. CASE ConnectTo(c)
      BY <1>0, <2>0, <2>1 DEF ConnectTo
    <2>2. ASSUME NEW d \in Conns, ConnectAgain(c, d)
          PROVE  /\ clientPhase[d] = "off" /\ Connect(d)
                 /\ clientPhase'[d] = "idle"
                 /\ process'[d] # NoConn
                 /\ \A b \in Conns \ {d} :
                      /\ process'[b] = process[b]
                      /\ \/ clientPhase'[b] = clientPhase[b] /\ clientTags'[b] = clientTags[b]
                         \/ clientPhase[b] # "off" /\ clientPhase'[b] = "left"
                              /\ clientTags'[b] = {}
      <3>1. /\ MayReconnect(c) /\ process[d] = NoConn /\ Connect(d)
            /\ process' = [process EXCEPT ![d] = process[c]]
            /\ clientPhase' = [clientPhase EXCEPT ![c] = "left", ![d] = "idle"]
            /\ clientTags' = [clientTags EXCEPT ![c] = {}, ![d] = {"Connected"}]
        BY <2>2 DEF ConnectAgain
      <3>2. clientPhase[d] = "off" /\ clientPhase[c] # "off" /\ process[c] # NoConn
        BY <3>1 DEF MayReconnect, ConnInv, UnclaimedIsOff
      <3>3. QED
        BY <1>0, <3>1, <3>2
    <2>3. QED
      BY <2>1, <2>2
  <1>2. /\ backlog' = Append(backlog, d) /\ serverEnd' = serverEnd
        /\ clientEnd' = [clientEnd EXCEPT ![d] = "open"]
    BY <1>1 DEF Connect
  <1>3. /\ serverEnd[d] = "none" /\ \A i \in 1..Len(backlog) : backlog[i] # d
    BY <1>1 DEF ConnInv, UnusedConnections
  <1>4. /\ Len(backlog') = Len(backlog) + 1 /\ backlog'[Len(backlog')] = d
        /\ \A i \in 1..Len(backlog) : backlog'[i] = backlog[i]
    BY <1>0, <1>2
  <1>5. Len(backlog) \in Nat /\ \A i \in 1..Len(backlog') :
          i \in 1..Len(backlog) \/ i = Len(backlog')
    BY <1>0, <1>4
  <1>6. UNCHANGED <<live, conn>>
    BY DEF serverVars, ecs
  <1>7. BacklogInv'
    BY <1>2, <1>3, <1>4, <1>5 DEF ConnInv, BacklogInv
  <1>8. UnusedConnections'
    BY <1>0, <1>1, <1>2, <1>4, <1>5 DEF ConnInv, UnusedConnections
  <1>9. UnclaimedIsOff'
    BY <1>1 DEF ConnInv, UnclaimedIsOff
  <1>10. EntitiesHoldConns'
    BY <1>2, <1>6 DEF ConnInv, EntitiesHoldConns
  <1>11. GoneHasNoTags'
    BY <1>1 DEF ConnInv, GoneHasNoTags
  <1>12. QED
    BY <1>7, <1>8, <1>9, <1>10, <1>11 DEF ConnInv

\* ... used, and given up.
LEMMA UsingKeepsConns ==
  ASSUME ConnInv, Typed, ServerInv, NEW c \in Conns, UNCHANGED serverVars,
         ConnectAgainFails(c) \/ ClientTick(c) \/ Disconnect(c) \/ Exit(c)
  PROVE  ConnInv'
  <1>0. /\ clientPhase \in
             [Conns -> {"off", "idle", "app", "end", "disconnected", "left", "exited"}]
        /\ clientTags \in [Conns -> SUBSET Tags]
        /\ clientEnd \in [Conns -> {"none", "open", "closed"}]
    BY DEF Typed, LinkTyped, ClientTyped
  <1>1. UNCHANGED <<live, conn>>
    BY DEF serverVars, ecs
  <1>2. /\ clientPhase[c] # "off" /\ UNCHANGED <<process, backlog, serverEnd>>
        /\ \A b \in Conns \ {c} :
             clientPhase'[b] = clientPhase[b] /\ clientTags'[b] = clientTags[b]
        /\ clientPhase'[c] # "off"
        /\ clientPhase'[c] \notin {"idle", "app", "end"} => clientTags'[c] = {}
        /\ \A b \in Conns : clientPhase[b] = "off" => clientEnd'[b] = clientEnd[b]
    <2>1. CASE ConnectAgainFails(c)
      BY <1>0, <2>1 DEF ConnectAgainFails, MayReconnect, link
    <2>2. CASE Disconnect(c)
      BY <1>0, <2>2 DEF Disconnect, CloseClientEnds, HasDestroyFunc, link
    <2>3. CASE Exit(c)
      BY <1>0, <2>3 DEF Exit, CloseClientEnds
    <2>4. CASE BeginUpdateDisconnects(c)
      BY <1>0, <2>4 DEF BeginUpdateDisconnects, link
    <2>5. CASE BeginUpdate(c)
      BY <1>0, <2>5 DEF BeginUpdate, link, ClientReceives
    <2>6. CASE Application(c)
      BY <1>0, <2>6 DEF Application, link
    <2>7. CASE EndUpdateInitializes(c)
      BY <1>0, <2>7 DEF EndUpdateInitializes, link
    <2>8. CASE EndUpdateSends(c)
      BY <1>0, <2>8 DEF EndUpdateSends, link, ClientSends
    <2>9. QED
      BY <2>1, <2>2, <2>3, <2>4, <2>5, <2>6, <2>7, <2>8 DEF ClientTick
  <1>3. QED
    BY <1>0, <1>1, <1>2
    DEF ConnInv, UnusedConnections, UnclaimedIsOff, BacklogInv, EntitiesHoldConns, GoneHasNoTags

\* Every step keeps what is said of connections.
LEMMA NextConnInv == ConnInv /\ Typed /\ ServerInv /\ [Next]_vars => ConnInv'
  <1> SUFFICES ASSUME ConnInv, Typed, ServerInv, [Next]_vars PROVE ConnInv'
    OBVIOUS
  <1>1. CASE ServerStep
    <2>0. UNCHANGED clientVars
      BY <1>1 DEF ServerStep
    <2>1. CASE Stop \/ DisconnectSystem
      BY <2>0, <2>1, ClosingKeepsConns
    <2>2. CASE AcceptedSocketFails \/ \E e \in Entities : AcceptConnection(e)
      <3>1. (\E e \in Entities : AcceptConnection(e)) \/ AcceptedSocketFails
        BY <2>2
      <3>2. QED
        BY <2>0, <3>1, AcceptingKeepsConns
    <2>3. CASE \/ ServerApp \/ PendingDisconnectSystem \/ ForgetNewConnections
               \/ Start \/ AcceptDone \/ ReceiveDone \/ EndUpdate \/ ReportDone \/ ReadyDone
               \/ InitializeDone \/ SendNewSpawnDespawn \/ SendSnapshots \/ SendDone
      BY <2>0, <2>3, SameConns
      DEF ServerApp, CreateNetworkEntity, DestroyNetworkEntity, SendTcpMessage,
          PendingDisconnectSystem, ForgetNewConnections,
          Start, AcceptDone, ReceiveDone, EndUpdate, ReportDone, ReadyDone,
          InitializeDone, SendNewSpawnDespawn, SendSnapshots, SendDone, ecs, link,
          clientVars, connVars
    <2>4. ASSUME NEW e \in Entities,
                 \/ ReceiveTcpMessages(e) \/ ReceiveFails(e)
                 \/ DisconnectedClient(e) \/ SetClientReady(e) \/ InitializeNewClient(e)
                 \/ SendTcpMessages(e)
          PROVE  ConnInv'
      BY <2>0, <2>4, SameConns
      DEF ReceiveTcpMessages, ReceiveFails, DisconnectedClient, SetClientReady,
          InitializeNewClient, SendTcpMessages, ServerReceives, ServerSends, ecs, link,
          clientVars, connVars
    <2>5. QED
      BY <1>1, <2>1, <2>2, <2>3, <2>4 DEF ServerStep, ServerNext, ServerTick
  <1>2. ASSUME NEW c \in Conns, ClientStep(c) PROVE ConnInv'
    BY <1>2, ConnectingKeepsConns, UsingKeepsConns DEF ClientStep
  <1>3. ASSUME NEW c \in Conns, Breaks(c) PROVE ConnInv'
    <2>1. /\ clientEnd[c] = "open" /\ serverEnd[c] = "open" /\ backlog' = backlog
          /\ clientEnd' = [clientEnd EXCEPT ![c] = "closed"]
          /\ serverEnd' = [serverEnd EXCEPT ![c] = "closed"]
          /\ UNCHANGED <<live, conn, process, clientPhase, clientTags>>
      BY <1>3 DEF Breaks, Break, serverVars, ecs, clientVars
    <2>2. /\ serverEnd \in [Conns -> {"none", "open", "closed"}]
          /\ clientEnd \in [Conns -> {"none", "open", "closed"}]
          /\ \A e \in live : conn[e] \in Conns
          /\ \A i \in 1..Len(backlog) : backlog[i] \in Conns
      BY ServerAssumption
      DEF Typed, LinkTyped, ServerTyped, ServerInv, TablesTyped, ServerAssumption
    <2>3. \A d \in Conns : serverEnd'[d] = "none" <=> serverEnd[d] = "none"
      BY <2>1, <2>2
    <2>4. QED
      BY <2>1, <2>2, <2>3
      DEF ConnInv, UnusedConnections, UnclaimedIsOff, BacklogInv, EntitiesHoldConns, GoneHasNoTags
  <1>4. CASE UNCHANGED vars
    BY <1>4, SameConns DEF vars, serverVars, ecs, clientVars, link, connVars
  <1>5. QED
    BY <1>1, <1>2, <1>3, <1>4 DEF Next, Finished

-----------------------------------------------------------------------------
(* Nothing is said on a connection before its handshake.                   *)

\* Nothing is on its way on c, nothing is queued for it or was just received
\* by the client, which is not ready.
Quiet(c) ==
  /\ toServer[c] = <<>> /\ toClient[c] = <<>>
  /\ clientReceived[c] = <<>> /\ clientToSend[c] = <<>>
  /\ ~IsReady(c)

NotAcceptedIsQuiet == \A c \in Conns : serverEnd[c] = "none" => Quiet(c)

NoQueueWithoutEntity == \A e \in Entities \ live : toSend[e] = <<>> /\ received[e] = <<>>

NotBegunIsQuiet ==
  \A e \in live : ~Begun(e) => Quiet(conn[e]) /\ toSend[e] = <<>> /\ received[e] = <<>>

QuietInv ==
  /\ NotAcceptedIsQuiet
  /\ NoQueueWithoutEntity
  /\ NotBegunIsQuiet

\* Nothing was sent to anyone in the initial state.
LEMMA InitQuietInv == Init => QuietInv
  <1> SUFFICES ASSUME Init PROVE QuietInv
    OBVIOUS
  <1>1. /\ live = {}
        /\ toServer = [c \in Conns |-> <<>>] /\ toClient = [c \in Conns |-> <<>>]
        /\ clientReceived = [c \in Conns |-> <<>>] /\ clientToSend = [c \in Conns |-> <<>>]
        /\ clientTags = [c \in Conns |-> {}]
        /\ toSend = [e \in Entities |-> <<>>] /\ received = [e \in Entities |-> <<>>]
    BY DEF Init, ServerInit, LinkInit, ClientInit
  <1>2. QED
    BY <1>1 DEF QuietInv, NotAcceptedIsQuiet, NoQueueWithoutEntity, NotBegunIsQuiet, Quiet,
       IsReady

\* Taking from an empty queue.
LEMMA TakeNothing ==
  Take(<<>>, 0) = <<>> /\ Drop(<<>>, 0) = <<>>
  BY DEF Take, Drop

\* A client does nothing on a quiet connection, other than making it.
LEMMA ClientsKeepQuiet ==
  ASSUME Typed, ConnInv, NEW b \in Conns, Quiet(b), NEW c \in Conns, ClientStep(c) \/ Breaks(c)
  PROVE  Quiet(b)'
  <1>0. /\ clientTags \in [Conns -> SUBSET Tags]
        /\ clientReceived \in [Conns -> Seq(Messages)]
        /\ clientToSend \in [Conns -> Seq(Messages)]
        /\ toServer \in [Conns -> Seq(Messages)]
        /\ toClient \in [Conns -> Seq(Messages)]
    BY DEF Typed, LinkTyped, ClientTyped
  <1>1. CASE ConnectTo(c)
    BY <1>0, <1>1 DEF ConnectTo, Connect, Quiet, IsReady
  <1>2. ASSUME NEW d \in Conns, ConnectAgain(c, d) PROVE Quiet(b)'
    BY <1>0, <1>2 DEF ConnectAgain, Connect, Quiet, IsReady
  <1>3. CASE ConnectAgainFails(c)
    BY <1>0, <1>3 DEF ConnectAgainFails, link, Quiet, IsReady
  <1>4. CASE BeginUpdateDisconnects(c)
    <2>1. /\ UNCHANGED <<clientReceived, clientToSend, link>>
          /\ clientTags' = [clientTags EXCEPT ![c] = LostTags(@)]
      BY <1>4 DEF BeginUpdateDisconnects
    <2>2. QED
      BY <1>0, <2>1 DEF link, Quiet, IsReady, LostTags
  <1>5. CASE BeginUpdate(c)
    <2>1. UNCHANGED clientToSend
      BY <1>5 DEF BeginUpdate
    <2>2. ASSUME NEW k \in 0..Len(toClient[c]),
                 clientReceived' = [clientReceived EXCEPT ![c] = Take(toClient[c], k)],
                 ClientReceives(c, k), UNCHANGED clientTags
          PROVE  Quiet(b)'
      <3>1. toClient' = [toClient EXCEPT ![c] = Drop(@, k)] /\ UNCHANGED toServer
        BY <2>2 DEF ClientReceives
      <3>2. CASE b = c
        <4>1. k = 0
          BY <3>2 DEF Quiet
        <4>2. toClient'[c] = <<>> /\ clientReceived'[c] = <<>>
          BY <1>0, <2>2, <3>1, <3>2, <4>1, TakeNothing DEF Quiet
        <4>3. QED
          BY <2>1, <2>2, <3>1, <3>2, <4>2 DEF Quiet, IsReady
      <3>3. CASE b # c
        BY <1>0, <2>1, <2>2, <3>1, <3>3 DEF Quiet, IsReady
      <3>4. QED
        BY <3>2, <3>3
    <2>3. CASE /\ clientReceived' = [clientReceived EXCEPT ![c] = <<>>]
               /\ clientTags' = [clientTags EXCEPT ![c] = @ \cup {"PendingDisconnect"}]
               /\ UNCHANGED link
      BY <1>0, <2>1, <2>3 DEF link, Quiet, IsReady
    <2>4. QED
      BY <1>5, <2>2, <2>3 DEF BeginUpdate
  <1>6. CASE Application(c)
    <2>1. /\ UNCHANGED <<clientTags, clientReceived, link>>
          /\ ~IsReady(c) => UNCHANGED clientToSend
          /\ \/ UNCHANGED clientToSend
             \/ clientToSend' = [clientToSend EXCEPT ![c] = Append(@, AppMessage)]
      BY <1>6 DEF Application
    <2>2. QED
      BY <1>0, <2>1 DEF link, Quiet, IsReady
  <1>7. CASE EndUpdateInitializes(c)
    <2>1. /\ UNCHANGED <<clientReceived, link>>
          /\ clientReceived[c] # <<>>
          /\ clientToSend' = [clientToSend EXCEPT ![c] = Answer(c)]
          /\ clientTags' = [clientTags EXCEPT ![c] = @ \cup {"ClientIsReady"}]
      BY <1>0, <1>7 DEF EndUpdateInitializes
    <2>2. QED
      BY <1>0, <2>1 DEF link, Quiet, IsReady
  <1>8. CASE EndUpdateSends(c)
    <2>1. UNCHANGED clientReceived
      BY <1>8 DEF EndUpdateSends
    <2>2. CASE UNCHANGED <<clientTags, clientToSend, link>>
      BY <2>1, <2>2 DEF link, Quiet, IsReady
    <2>3. ASSUME NEW k \in SentCounts(toServer[c], serverEnd[c] # "closed", clientToSend[c]),
                 ClientSends(c, Take(clientToSend[c], k)),
                 clientToSend' = [clientToSend EXCEPT ![c] = Drop(@, k)],
                 clientTags' = [clientTags EXCEPT ![c] =
                    IF k < Len(clientToSend[c]) THEN @ \cup {"PendingDisconnect"} ELSE @]
          PROVE  Quiet(b)'
      <3>1. /\ toServer' = [toServer EXCEPT ![c] = IF serverEnd[c] # "closed"
                              THEN @ \o Take(clientToSend[c], k) ELSE @]
            /\ UNCHANGED toClient
        BY <2>3 DEF ClientSends
      <3>2. CASE b = c
        <4>0. /\ toServer[c] \in Seq(Messages) /\ clientToSend[c] \in Seq(Messages)
              /\ Len(toServer[c]) <= Capacity /\ Len(clientToSend[c]) = 0
          BY <1>0, <3>2 DEF Typed, LinkTyped, Quiet
        <4>1. k = 0
          <5>1. k \in 0..Len(clientToSend[c])
            BY <2>3, <4>0, SentCountsBound
          <5>2. QED
            BY <4>0, <5>1
        <4>2. toServer'[c] = <<>> /\ clientToSend'[c] = <<>> /\ clientTags'[c] = clientTags[c]
          BY <1>0, <2>3, <3>1, <3>2, <4>1, TakeNothing DEF Quiet
        <4>3. QED
          BY <2>1, <3>1, <3>2, <4>2 DEF Quiet, IsReady
      <3>3. CASE b # c
        BY <1>0, <2>1, <2>3, <3>1, <3>3 DEF Quiet, IsReady
      <3>4. QED
        BY <3>2, <3>3
    <2>4. QED
      BY <1>8, <2>2, <2>3 DEF EndUpdateSends
  <1>9. CASE Disconnect(c)
    BY <1>0, <1>9 DEF Disconnect, CloseClientEnds, HasDestroyFunc, link, Quiet, IsReady
  <1>10. CASE Exit(c)
    BY <1>0, <1>10 DEF Exit, CloseClientEnds, Quiet, IsReady
  <1>11. CASE Breaks(c)
    BY <1>11 DEF Breaks, Break, clientVars, Quiet, IsReady
  <1>12. QED
    BY <1>1, <1>2, <1>3, <1>4, <1>5, <1>6, <1>7, <1>8, <1>9, <1>10, <1>11
    DEF ClientStep, ClientTick

\* Steps of the server on other connections, or none.
LEMMA SameQuiet ==
  ASSUME NEW c \in Conns, Quiet(c), UNCHANGED clientVars,
         toServer'[c] = toServer[c], toClient'[c] = toClient[c]
  PROVE  Quiet(c)'
  BY DEF Quiet, IsReady, clientVars

\* The steps of the server that receive or send nothing, and queue nothing: they
\* leave every message where it is, and no handshake goes on.
LEMMA PhasesMoveNothing ==
  ASSUME NoQueueWithoutEntity, Typed, ServerInv,
         \/ Start \/ Stop \/ DisconnectSystem \/ PendingDisconnectSystem \/ ForgetNewConnections
         \/ AcceptedSocketFails \/ AcceptDone \/ ReceiveDone
         \/ CreateNetworkEntity \/ (\E n \in Spawns!NetworkIds : DestroyNetworkEntity(n))
         \/ EndUpdate \/ ReportDone \/ ReadyDone \/ InitializeDone \/ SendDone
         \/ \E e \in Entities : DisconnectedClient(e)
  PROVE  /\ UNCHANGED <<toServer, toClient, clientEnd>>
         /\ \A c \in Conns : serverEnd'[c] = "none" => serverEnd[c] = "none"
         /\ live' \subseteq live
         /\ \A e \in live' :
              conn'[e] = conn[e] /\ toSend'[e] = toSend[e] /\ received'[e] = received[e]
         /\ \A e \in live' : Begun(e)' <=> Begun(e)
         /\ \A e \in live' : "ClientIsReady" \in tags'[e] <=> "ClientIsReady" \in tags[e]
         /\ \A e \in Entities \ live' : toSend'[e] = <<>> /\ received'[e] = <<>>
  <1>0. /\ tags \in [Entities -> SUBSET Tags] /\ live \subseteq Entities
        /\ serverEnd \in [Conns -> {"none", "open", "closed"}]
        /\ backlog \in Seq(Conns)
        /\ \A e \in live : conn[e] \in Conns
    BY ServerAssumption
    DEF Typed, LinkTyped, ServerTyped, ServerInv, TablesTyped, ServerAssumption
  <1>1. CASE \/ Start \/ AcceptDone \/ ReceiveDone
             \/ CreateNetworkEntity \/ (\E n \in Spawns!NetworkIds : DestroyNetworkEntity(n))
             \/ EndUpdate \/ ReportDone \/ ReadyDone \/ InitializeDone \/ SendDone
             \/ \E e \in Entities : DisconnectedClient(e)
    <2>1. UNCHANGED <<ecs, link>>
      BY <1>1 DEF Start, AcceptDone, ReceiveDone, CreateNetworkEntity, DestroyNetworkEntity,
           EndUpdate, ReportDone, ReadyDone, InitializeDone, SendDone, DisconnectedClient
    <2>2. QED
      BY <2>1 DEF ecs, link, NoQueueWithoutEntity, Begun
  <1>2. CASE PendingDisconnectSystem
    <2>1. /\ UNCHANGED <<live, conn, toSend, received, link>>
          /\ tags' = [e \in Entities |->
               IF e \in With("PendingDisconnect") \cap With("Connected")
               THEN (tags[e] \ {"PendingDisconnect", "Connected"}) \cup {"Disconnected"}
               ELSE tags[e]]
      BY <1>2 DEF PendingDisconnectSystem
    <2>2. QED
      BY <1>0, <2>1 DEF link, NoQueueWithoutEntity, Begun
  <1>3. CASE ForgetNewConnections
    <2>1. /\ UNCHANGED <<live, conn, toSend, received, link>>
          /\ tags' = [e \in Entities |-> tags[e] \ {"NewConnection"}]
      BY <1>3 DEF ForgetNewConnections, NoLongerNew
    <2>2. QED
      BY <1>0, <2>1 DEF link, NoQueueWithoutEntity, Begun
  <1>4. CASE AcceptedSocketFails
    <2>1. /\ UNCHANGED <<ecs, toServer, toClient, clientEnd>>
          /\ serverEnd' = [serverEnd EXCEPT ![Head(backlog)] = "closed"]
      BY <1>4 DEF AcceptedSocketFails, AcceptAndClose
    <2>2. QED
      BY <1>0, <2>1 DEF ecs, NoQueueWithoutEntity, Begun
  <1>5. CASE Stop \/ DisconnectSystem
    <2>1. PICK es : DestroyEntities(es) /\ (CloseListener({}) \/ CloseServerEnds({}))
      BY <1>5 DEF Stop, DisconnectSystem, Destroyed, HasDestroyFunc
    <2>2. /\ UNCHANGED <<toServer, toClient, clientEnd>>
          /\ \A c \in Conns : serverEnd'[c] = "none" => serverEnd[c] = "none"
      BY <1>0, <2>1 DEF CloseListener, CloseServerEnds
    <2>3. /\ live' = live \ es
          /\ tags' = [e \in Entities |-> IF e \in es THEN {} ELSE tags[e]]
          /\ conn' = [e \in Entities |-> IF e \in es THEN NoConn ELSE conn[e]]
          /\ toSend' = [e \in Entities |-> IF e \in es THEN <<>> ELSE toSend[e]]
          /\ received' = [e \in Entities |-> IF e \in es THEN <<>> ELSE received[e]]
      BY <2>1 DEF DestroyEntities
    <2>4. QED
      BY <1>0, <2>2, <2>3 DEF NoQueueWithoutEntity, Begun
  <1>6. QED
    BY <1>1, <1>2, <1>3, <1>4, <1>5

\* The steps of the server that neither receive, queue nor send.
LEMMA PhasesKeepQuiet ==
  ASSUME QuietInv, Typed, ServerInv, TagInv, UNCHANGED clientVars,
         \/ Start \/ Stop \/ DisconnectSystem \/ PendingDisconnectSystem \/ ForgetNewConnections
         \/ AcceptedSocketFails \/ AcceptDone \/ ReceiveDone
         \/ CreateNetworkEntity \/ (\E n \in Spawns!NetworkIds : DestroyNetworkEntity(n))
         \/ EndUpdate \/ ReportDone \/ ReadyDone \/ InitializeDone \/ SendDone
         \/ \E e \in Entities : DisconnectedClient(e)
  PROVE  QuietInv'
  <1>0. /\ tags \in [Entities -> SUBSET Tags] /\ live \subseteq Entities
        /\ serverEnd \in [Conns -> {"none", "open", "closed"}]
        /\ backlog \in Seq(Conns)
        /\ \A e \in live : conn[e] \in Conns
    BY ServerAssumption
    DEF Typed, LinkTyped, ServerTyped, ServerInv, TablesTyped, ServerAssumption
  <1>1. /\ UNCHANGED <<toServer, toClient>>
        /\ \A c \in Conns : serverEnd'[c] = "none" => serverEnd[c] = "none"
        /\ live' \subseteq live
        /\ \A e \in live' :
             conn'[e] = conn[e] /\ toSend'[e] = toSend[e] /\ received'[e] = received[e]
        /\ \A e \in live' : Begun(e)' <=> Begun(e)
        /\ \A e \in Entities \ live' : toSend'[e] = <<>> /\ received'[e] = <<>>
    BY PhasesMoveNothing DEF QuietInv
  <1>2. NotAcceptedIsQuiet'
    BY <1>1, SameQuiet DEF QuietInv, NotAcceptedIsQuiet
  <1>3. NotBegunIsQuiet'
    <2> SUFFICES ASSUME NEW e \in live', ~Begun(e)'
                 PROVE  Quiet(conn[e])' /\ toSend'[e] = <<>> /\ received'[e] = <<>>
      BY DEF NotBegunIsQuiet
    <2>1. e \in live /\ ~Begun(e) /\ conn'[e] = conn[e] /\ toSend'[e] = toSend[e]
            /\ received'[e] = received[e]
      BY <1>1
    <2>2. Quiet(conn[e]) /\ toSend[e] = <<>> /\ received[e] = <<>> /\ conn[e] \in Conns
      BY <1>0, <2>1 DEF QuietInv, NotBegunIsQuiet
    <2> DEFINE c == conn[e]
    <2>3. c' = c
      BY <2>1
    <2>4. Quiet(c) /\ c \in Conns
      BY <2>2
    <2> HIDE DEF c
    <2>5. /\ clientReceived'[c] = <<>> /\ clientToSend'[c] = <<>> /\ toServer'[c] = <<>>
          /\ toClient'[c] = <<>> /\ "ClientIsReady" \notin clientTags'[c]
      BY <1>1, <2>4 DEF Quiet, IsReady, clientVars
    <2>6. Quiet(conn[e])'
      BY <2>3, <2>5 DEF Quiet, IsReady, c
    <2>7. QED
      BY <2>1, <2>2, <2>6
  <1>4. NoQueueWithoutEntity'
    BY <1>1 DEF NoQueueWithoutEntity
  <1>5. QED
    BY <1>2, <1>3, <1>4 DEF QuietInv

\* A new entity has a quiet connection.
LEMMA AcceptKeepsQuiet ==
  ASSUME QuietInv, ConnInv, Typed, ServerInv, TagInv, UNCHANGED clientVars,
         NEW e \in Entities, AcceptConnection(e)
  PROVE  QuietInv'
  <1> DEFINE c == Head(backlog)
  <1>0. /\ tags \in [Entities -> SUBSET Tags] /\ live \subseteq Entities
        /\ serverEnd \in [Conns -> {"none", "open", "closed"}]
        /\ backlog \in Seq(Conns) /\ conn \in [Entities -> Conns \cup {NoConn}]
        /\ \A d \in live : conn[d] \in Conns
    BY ServerAssumption
    DEF Typed, LinkTyped, ServerTyped, ServerInv, TablesTyped, ServerAssumption
  <1>1. /\ e \notin live /\ live' = live \cup {e}
        /\ tags' = [tags EXCEPT ![e] = {"NewConnection", "Connected"}]
        /\ conn' = [conn EXCEPT ![e] = c]
        /\ backlog # <<>>
        /\ serverEnd' = [serverEnd EXCEPT ![c] = "open"]
        /\ UNCHANGED <<toSend, received, toServer, toClient>>
    BY DEF AcceptConnection, Accept
  <1>2. c \in Conns /\ c = backlog[1] /\ 1 \in 1..Len(backlog)
    BY <1>0, <1>1
  <1>3. Quiet(c) /\ serverEnd[c] = "none"
    BY <1>2 DEF QuietInv, NotAcceptedIsQuiet, ConnInv, BacklogInv
  <1> HIDE DEF c
  <1>4. \A b \in Conns : Quiet(b) => Quiet(b)'
    BY <1>1, SameQuiet
  <1>5. NotAcceptedIsQuiet'
    BY <1>0, <1>1, <1>4 DEF QuietInv, NotAcceptedIsQuiet
  <1>6. NoQueueWithoutEntity'
    BY <1>1 DEF QuietInv, NoQueueWithoutEntity
  <1>7. NotBegunIsQuiet'
    <2> SUFFICES ASSUME NEW d \in live', ~Begun(d)'
                 PROVE  Quiet(conn[d])' /\ toSend'[d] = <<>> /\ received'[d] = <<>>
      BY DEF NotBegunIsQuiet
    <2> DEFINE b == conn'[d]
    <2>1. b \in Conns /\ Quiet(b) /\ toSend'[d] = <<>> /\ received'[d] = <<>>
      <3>1. CASE d = e
        BY <1>0, <1>1, <1>2, <1>3, <3>1 DEF QuietInv, NoQueueWithoutEntity
      <3>2. CASE d # e
        BY <1>0, <1>1, <3>2 DEF QuietInv, NotBegunIsQuiet, Begun
      <3>3. QED
        BY <3>1, <3>2
    <2> HIDE DEF b
    <2>2. /\ clientReceived'[b] = <<>> /\ clientToSend'[b] = <<>> /\ toServer'[b] = <<>>
          /\ toClient'[b] = <<>> /\ "ClientIsReady" \notin clientTags'[b]
      BY <1>1, <2>1 DEF Quiet, IsReady, clientVars
    <2>3. QED
      BY <2>1, <2>2 DEF Quiet, IsReady, b
  <1>8. QED
    BY <1>5, <1>6, <1>7 DEF QuietInv

\* What is received, queued and sent is for connections whose handshake began.
LEMMA TransfersKeepQuiet ==
  ASSUME QuietInv, ConnInv, Typed, ServerInv, TagInv, UNCHANGED clientVars,
         \/ \E id \in Registry!ClientIds : SendTcpMessage(id)
         \/ SendNewSpawnDespawn \/ SendSnapshots
         \/ \E e \in Entities : \/ ReceiveTcpMessages(e) \/ ReceiveFails(e) \/ SetClientReady(e)
                                 \/ InitializeNewClient(e) \/ SendTcpMessages(e)
  PROVE  QuietInv'
  <1>0. /\ tags \in [Entities -> SUBSET Tags] /\ live \subseteq Entities /\ todo \subseteq live
        /\ toServer \in [Conns -> Seq(Messages)] /\ toClient \in [Conns -> Seq(Messages)]
        /\ toSend \in [Entities -> Seq(Messages)] /\ received \in [Entities -> Seq(Messages)]
        /\ \A d \in live : conn[d] \in Conns
    BY ServerAssumption
    DEF Typed, LinkTyped, ServerTyped, ServerInv, TablesTyped, ServerAssumption
  <1> DEFINE
        Stays(d) == /\ toSend'[d] = toSend[d] /\ received'[d] = received[d]
                    /\ Begun(d)' <=> Begun(d)
                    /\ toServer'[conn[d]] = toServer[conn[d]]
                    /\ toClient'[conn[d]] = toClient[conn[d]]
        Kept == /\ UNCHANGED <<live, conn, serverEnd>>
                /\ \A d \in Entities \ live : toSend'[d] = toSend[d] /\ received'[d] = received[d]
                /\ \A c \in Conns : serverEnd[c] = "none" =>
                     toServer'[c] = toServer[c] /\ toClient'[c] = toClient[c]
                /\ \A d \in live : Begun(d)' \/ (~Begun(d) /\ Stays(d))
  <1>1. Kept
    <2>1. ASSUME NEW id \in Registry!ClientIds, SendTcpMessage(id) PROVE Kept
      <3> DEFINE e == Registry!GetEntity(id)
      <3>1. /\ toSend' = [toSend EXCEPT ![e] = Append(@, AppMessage)]
            /\ "ClientIsReady" \in tags[e] /\ e \in Entities
            /\ UNCHANGED <<live, conn, tags, received, link>>
        BY <2>1, RegistryLookups DEF SendTcpMessage, Registry!GetEntity
      <3> HIDE DEF e
      <3>2. e \in live
        BY <1>0, <3>1 DEF TagInv, NoTagsWithoutEntity
      <3>3. QED
        BY <1>0, <3>1, <3>2 DEF link, Begun
    <2>2. CASE SendNewSpawnDespawn \/ SendSnapshots
      <3>1. /\ phase \in {"broadcast", "snapshot"}
            /\ UNCHANGED <<live, conn, tags, received, link>>
            /\ \A d \in Entities \ live : toSend'[d] = toSend[d]
        BY <1>0, <2>2 DEF SendNewSpawnDespawn, SendSnapshots, Audience, TagInv,
           NoTagsWithoutEntity
      <3>2. \A d \in live : Begun(d)
        BY <3>1 DEF TagInv, NotBegunIsNew
      <3>3. QED
        BY <3>1, <3>2 DEF link, Begun
    <2>3. ASSUME NEW e \in Entities, ReceiveTcpMessages(e) PROVE Kept
      <3> DEFINE c == conn[e]
      <3>1. PICK k \in 0..Len(toServer[c]) :
              /\ received' = [received EXCEPT ![e] = Take(toServer[c], k)]
              /\ toServer' = [toServer EXCEPT ![c] = Drop(@, k)]
              /\ UNCHANGED <<toClient, serverEnd>>
        BY <2>3 DEF ReceiveTcpMessages, ServerReceives
      <3>2. UNCHANGED <<live, conn, tags, toSend>> /\ e \in live
        BY <1>0, <2>3 DEF ReceiveTcpMessages
      <3>3. c \in Conns /\ serverEnd[c] # "none" /\ \A d \in live \ {e} : conn[d] # c
        BY <1>0, <3>2 DEF ConnInv, EntitiesHoldConns
      <3>4. ~Begun(e) => Stays(e)
        <4> SUFFICES ASSUME ~Begun(e) PROVE Stays(e)
          OBVIOUS
        <4>1. toServer[c] = <<>> /\ received[e] = <<>>
          BY <3>2 DEF QuietInv, NotBegunIsQuiet, Quiet
        <4>2. k = 0
          BY <4>1
        <4>3. toServer'[c] = <<>> /\ received'[e] = <<>>
          BY <1>0, <3>1, <3>3, <4>1, <4>2, TakeNothing
        <4>4. QED
          BY <3>1, <3>2, <4>1, <4>3 DEF Begun
      <3>5. \A d \in live \ {e} : Stays(d)
        BY <1>0, <3>1, <3>2, <3>3 DEF Begun
      <3>6. QED
        BY <1>0, <3>1, <3>2, <3>3, <3>4, <3>5 DEF Begun
    <2>4. ASSUME NEW e \in Entities, ReceiveFails(e) PROVE Kept
      <3>1. /\ received' = [received EXCEPT ![e] = <<>>] /\ e \in live
            /\ tags' = [tags EXCEPT ![e] = tags[e] \cup {"PendingDisconnect"}]
            /\ UNCHANGED <<live, conn, toSend, link>>
        BY <1>0, <2>4 DEF ReceiveFails, Failed
      <3>2. \A d \in live : ~Begun(d) => received'[d] = received[d]
        BY <1>0, <3>1 DEF QuietInv, NotBegunIsQuiet
      <3>3. \A d \in live : Begun(d)' <=> Begun(d)
        BY <1>0, <3>1 DEF Begun
      <3>4. QED
        BY <1>0, <3>1, <3>2, <3>3 DEF link
    <2>5. ASSUME NEW e \in Entities, SetClientReady(e) PROVE Kept
      <3>1. /\ phase = "ready" /\ e \in todo /\ UNCHANGED <<live, conn, received, link>>
            /\ \A d \in Entities \ {e} : tags'[d] = tags[d] /\ toSend'[d] = toSend[d]
        BY <1>0, <2>5 DEF SetClientReady
      <3>2. Begun(e) /\ e \in live
        BY <1>0, <3>1 DEF TagInv, LoopsOverTags, Begun
      <3>3. Begun(e)'
        BY <1>0, <2>5, <3>2 DEF SetClientReady, Begun
      <3>4. QED
        BY <1>0, <3>1, <3>2, <3>3 DEF Begun, link
    <2>6. ASSUME NEW e \in Entities, InitializeNewClient(e) PROVE Kept
      <3>1. /\ e \in live /\ UNCHANGED <<live, conn, received, link>>
            /\ \A d \in Entities \ {e} : tags'[d] = tags[d] /\ toSend'[d] = toSend[d]
            /\ "WaitingClientIsReady" \in tags'[e]
        BY <1>0, <2>6 DEF InitializeNewClient
      <3>2. QED
        BY <1>0, <3>1 DEF Begun, link
    <2>7. ASSUME NEW e \in Entities, SendTcpMessages(e) PROVE Kept
      <3> DEFINE c == conn[e]
      <3>1. /\ e \in live /\ phase = "send"
            /\ UNCHANGED <<live, conn, received, toServer, serverEnd>>
            /\ \A d \in Entities \ {e} : toSend'[d] = toSend[d]
            /\ \A b \in Conns \ {c} : toClient'[b] = toClient[b]
        BY <1>0, <2>7 DEF SendTcpMessages, ServerSends
      <3>2. c \in Conns /\ serverEnd[c] # "none"
        BY <1>0, <3>1 DEF ConnInv, EntitiesHoldConns
      <3>3. \A d \in live : Begun(d)
        BY <3>1 DEF TagInv, NotBegunIsNew
      <3>4. \A d \in live : tags[d] \subseteq tags'[d]
        BY <1>0, <2>7 DEF SendTcpMessages
      <3>5. QED
        BY <1>0, <3>1, <3>2, <3>3, <3>4 DEF Begun
    <2>8. QED
      BY <2>1, <2>2, <2>3, <2>4, <2>5, <2>6, <2>7
  <1>2. NotAcceptedIsQuiet'
    BY <1>1, SameQuiet DEF QuietInv, NotAcceptedIsQuiet
  <1>3. NoQueueWithoutEntity'
    BY <1>1 DEF QuietInv, NoQueueWithoutEntity
  <1>4. NotBegunIsQuiet'
    <2> SUFFICES ASSUME NEW d \in live', ~Begun(d)'
                 PROVE  Quiet(conn[d])' /\ toSend'[d] = <<>> /\ received'[d] = <<>>
      BY DEF NotBegunIsQuiet
    <2>1. d \in live /\ conn' = conn /\ ~Begun(d) /\ Stays(d)
      BY <1>1
    <2>2. Quiet(conn[d]) /\ toSend[d] = <<>> /\ received[d] = <<>>
      BY <2>1 DEF QuietInv, NotBegunIsQuiet
    <2>3. QED
      BY <2>1, <2>2 DEF Quiet, IsReady, clientVars
  <1>5. QED
    BY <1>2, <1>3, <1>4 DEF QuietInv

\* Every step keeps clients that are not known silent.
LEMMA NextQuietInv == QuietInv /\ ConnInv /\ TagInv /\ Typed /\ ServerInv /\ [Next]_vars =>
  QuietInv'
  <1> SUFFICES ASSUME QuietInv, ConnInv, TagInv, Typed, ServerInv, [Next]_vars PROVE QuietInv'
    OBVIOUS
  <1>1. CASE ServerStep
    BY <1>1, PhasesKeepQuiet, AcceptKeepsQuiet, TransfersKeepQuiet
    DEF ServerStep, ServerNext, ServerTick, ServerApp
  <1>2. ASSUME NEW c \in Conns, ClientStep(c) \/ Breaks(c) PROVE QuietInv'
    <2>1. UNCHANGED <<live, conn, tags, toSend, received>>
      BY <1>2 DEF ClientStep, Breaks, serverVars, ecs
    <2>2. \A b \in Conns : Quiet(b) => Quiet(b)'
      BY <1>2, ClientsKeepQuiet
    <2>3. \A b \in Conns : serverEnd'[b] = "none" => serverEnd[b] = "none"
      <3>1. CASE Breaks(c)
        BY <3>1 DEF Breaks, Break, Typed, LinkTyped
      <3>2. CASE ClientStep(c)
        <4>1. UNCHANGED serverEnd
          BY <3>2 DEF ClientStep, ClientTick, ConnectTo, ConnectAgain, Connect, ConnectAgainFails,
               BeginUpdate, BeginUpdateDisconnects, ClientReceives, Application,
               EndUpdateInitializes, EndUpdateSends, ClientSends, Disconnect, Exit,
                 CloseClientEnds,
               link
        <4>2. QED
          BY <4>1
      <3>3. QED
        BY <1>2, <3>1, <3>2
    <2>4. \A e \in live : conn[e] \in Conns
      BY ServerAssumption DEF Typed, ServerTyped, ServerInv, TablesTyped, ServerAssumption
    <2>5. NotAcceptedIsQuiet' /\ NoQueueWithoutEntity'
      BY <2>1, <2>2, <2>3 DEF QuietInv, NotAcceptedIsQuiet, NoQueueWithoutEntity
    <2>6. NotBegunIsQuiet'
      <3> SUFFICES ASSUME NEW e \in live, ~Begun(e)
                   PROVE  Quiet(conn[e])' /\ toSend[e] = <<>> /\ received[e] = <<>>
        BY <2>1 DEF NotBegunIsQuiet, Begun
      <3> DEFINE b == conn[e]
      <3>1. b' = b /\ b \in Conns /\ Quiet(b) /\ toSend[e] = <<>> /\ received[e] = <<>>
        BY <2>1, <2>4 DEF QuietInv, NotBegunIsQuiet
      <3> HIDE DEF b
      <3>2. /\ clientReceived'[b] = <<>> /\ clientToSend'[b] = <<>> /\ toServer'[b] = <<>>
            /\ toClient'[b] = <<>> /\ "ClientIsReady" \notin clientTags'[b]
        BY <2>2, <3>1 DEF Quiet, IsReady
      <3>3. QED
        BY <3>1, <3>2 DEF Quiet, IsReady, b
    <2>7. QED
      BY <2>5, <2>6 DEF QuietInv
  <1>3. CASE UNCHANGED vars
    BY <1>3 DEF vars, serverVars, ecs, link, clientVars, QuietInv, NotAcceptedIsQuiet,
                NoQueueWithoutEntity, NotBegunIsQuiet, Quiet, IsReady, Begun
  <1>4. QED
    BY <1>1, <1>2, <1>3 DEF Next, Finished

-----------------------------------------------------------------------------
(* Sequences of messages, by their types.                                  *)

\* What a client that is not ready may hear: nothing, or first of all its
\* InitializeClientMessage, then snapshots.
Begins(s) ==
  s # <<>> =>
    /\ s[1].type = "InitializeClient"
    /\ \A i \in 2..Len(s) : s[i].type = "Snapshot"

\* It is the types that count, and what is heard first.
LEMMA BeginsLike ==
  ASSUME NEW s \in Seq(Messages), NEW t \in Seq(Messages), Begins(s), Len(t) <= Len(s),
         \A i \in 1..Len(t) : t[i].type = s[i].type
  PROVE  Begins(t)
  <1> SUFFICES ASSUME t # <<>>
               PROVE  /\ t[1].type = "InitializeClient"
                      /\ \A i \in 2..Len(t) : t[i].type = "Snapshot"
    BY DEF Begins
  <1>1. Len(t) \in Nat /\ Len(s) \in Nat /\ Len(t) > 0 /\ s # <<>>
    OBVIOUS
  <1>2. QED
    BY <1>1 DEF Begins

\* The elements of two sequences one after the other.
LEMMA Concatenation ==
  ASSUME NEW S, NEW s \in Seq(S), NEW t \in Seq(S)
  PROVE  /\ s \o t \in Seq(S) /\ Len(s \o t) = Len(s) + Len(t)
         /\ \A i \in 1..Len(s) : (s \o t)[i] = s[i]
         /\ \A i \in 1..Len(t) : (s \o t)[Len(s) + i] = t[i]
  OBVIOUS

\* A sequence falls into its first elements and the rest.
LEMMA TakeAndDrop ==
  ASSUME NEW S, NEW s \in Seq(S), NEW k \in 0..Len(s)
  PROVE  Take(s, k) \o Drop(s, k) = s
  <1>1. SubSeq(s, 1, k) \o SubSeq(s, k + 1, Len(s)) = SubSeq(s, 1, Len(s))
    <2>1. /\ 1 \in 1..(Len(s) + 1) /\ k \in (1 - 1)..Len(s) /\ Len(s) \in k..Len(s)
      OBVIOUS
    <2>2. QED
      BY <2>1, ConcatAdjacentSubSeq
  <1>2. SubSeq(s, 1, Len(s)) = s
    OBVIOUS
  <1>3. QED
    BY <1>1, <1>2 DEF Take, Drop

\* Whether a message of a type is there.
LEMMA HasMessageConcat ==
  ASSUME NEW s \in Seq(Messages), NEW t \in Seq(Messages), NEW type
  PROVE  HasMessage(s \o t, type) <=> HasMessage(s, type) \/ HasMessage(t, type)
  <1>1. /\ Len(s) \in Nat /\ Len(t) \in Nat
        /\ Len(s \o t) = Len(s) + Len(t)
        /\ \A i \in 1..Len(s) : (s \o t)[i] = s[i]
        /\ \A i \in 1..Len(t) : (s \o t)[Len(s) + i] = t[i]
    OBVIOUS
  <1>2. ASSUME HasMessage(s \o t, type) PROVE HasMessage(s, type) \/ HasMessage(t, type)
    <2>1. PICK i \in 1..(Len(s) + Len(t)) : (s \o t)[i].type = type
      BY <1>1, <1>2 DEF HasMessage
    <2>2. CASE i \in 1..Len(s)
      BY <1>1, <2>1, <2>2 DEF HasMessage
    <2>3. CASE i \notin 1..Len(s)
      <3>1. i - Len(s) \in 1..Len(t) /\ Len(s) + (i - Len(s)) = i
        BY <1>1, <2>3
      <3>2. t[i - Len(s)].type = type
        BY <1>1, <2>1, <3>1
      <3>3. QED
        BY <3>1, <3>2 DEF HasMessage
    <2>4. QED
      BY <2>2, <2>3
  <1>3. ASSUME HasMessage(s, type) PROVE HasMessage(s \o t, type)
    <2>1. PICK i \in 1..Len(s) : s[i].type = type
      BY <1>3 DEF HasMessage
    <2>2. i \in 1..Len(s \o t) /\ (s \o t)[i] = s[i]
      BY <1>1
    <2>3. QED
      BY <2>1, <2>2 DEF HasMessage
  <1>4. ASSUME HasMessage(t, type) PROVE HasMessage(s \o t, type)
    <2>1. PICK i \in 1..Len(t) : t[i].type = type
      BY <1>4 DEF HasMessage
    <2>2. Len(s) + i \in 1..Len(s \o t) /\ (s \o t)[Len(s) + i] = t[i]
      BY <1>1
    <2>3. QED
      BY <2>1, <2>2 DEF HasMessage
  <1>5. QED
    BY <1>2, <1>3, <1>4

\* A message is in a longer list if it was there or is the last one.
LEMMA HasMessageAppend ==
  ASSUME NEW s \in Seq(Messages), NEW m \in Messages, NEW type
  PROVE  HasMessage(Append(s, m), type) <=> HasMessage(s, type) \/ m.type = type
  <1>1. /\ Len(s) \in Nat /\ Len(Append(s, m)) = Len(s) + 1
        /\ \A i \in 1..Len(s) : Append(s, m)[i] = s[i]
        /\ Append(s, m)[Len(s) + 1] = m
    OBVIOUS
  <1>2. \A i \in 1..(Len(s) + 1) : i \in 1..Len(s) \/ i = Len(s) + 1
    BY <1>1
  <1>3. QED
    BY <1>1, <1>2 DEF HasMessage

\* What is not in a list is in no part of it.
LEMMA HasMessageParts ==
  ASSUME NEW s \in Seq(Messages), NEW k \in 0..Len(s), NEW type, ~HasMessage(s, type)
  PROVE  ~HasMessage(Take(s, k), type) /\ ~HasMessage(Drop(s, k), type)
  <1>1. /\ Take(s, k) \in Seq(Messages) /\ Drop(s, k) \in Seq(Messages)
        /\ Take(s, k) \o Drop(s, k) = s
    BY TakeDrop, TakeAndDrop
  <1> DEFINE a == Take(s, k)
             b == Drop(s, k)
  <1>2. a \in Seq(Messages) /\ b \in Seq(Messages) /\ ~HasMessage(a \o b, type)
    BY <1>1
  <1> HIDE DEF a, b
  <1>3. ~HasMessage(a, type) /\ ~HasMessage(b, type)
    BY <1>2, HasMessageConcat
  <1>4. QED
    BY <1>3 DEF a, b

\* Serialization keeps the types of the messages.
LEMMA HasMessageSerialized ==
  ASSUME NEW s \in Seq(Messages), NEW type, initMessage \in 0..MaxClientId
  PROVE  HasMessage(Serialized(s), type) <=> HasMessage(s, type)
  BY SerializedType DEF HasMessage

\* After the first, what begins a session holds no InitializeClientMessage.
LEMMA BeginsOnce ==
  ASSUME NEW s \in Seq(Messages), NEW t \in Seq(Messages), s # <<>>, Begins(s \o t)
  PROVE  /\ \A i \in 1..Len(t) : t[i].type = "Snapshot"
         /\ ~HasMessage(t, "InitializeClient")
         /\ HasMessage(s, "InitializeClient")
  <1>1. /\ Len(s) \in Nat /\ Len(s) >= 1 /\ Len(t) \in Nat
        /\ Len(s \o t) = Len(s) + Len(t)
        /\ \A i \in 1..Len(s) : (s \o t)[i] = s[i]
        /\ \A i \in 1..Len(t) : (s \o t)[Len(s) + i] = t[i]
    OBVIOUS
  <1>2. s \o t # <<>>
    BY <1>1
  <1>3. ASSUME NEW i \in 1..Len(t) PROVE t[i].type = "Snapshot"
    <2>1. Len(s) + i \in 2..Len(s \o t)
      BY <1>1
    <2>2. QED
      BY <1>1, <1>2, <2>1 DEF Begins
  <1>4. HasMessage(s, "InitializeClient")
    BY <1>1, <1>2 DEF Begins, HasMessage
  <1>5. QED
    BY <1>3, <1>4 DEF HasMessage

\* A snapshot may be added to what has begun.
LEMMA BeginsThenSnapshot ==
  ASSUME NEW s \in Seq(Messages), s # <<>>, Begins(s)
  PROVE  Begins(Append(s, Snapshot))
  <1>1. /\ Len(s) \in Nat /\ Len(s) >= 1 /\ Len(Append(s, Snapshot)) = Len(s) + 1
        /\ \A i \in 1..Len(s) : Append(s, Snapshot)[i] = s[i]
        /\ Append(s, Snapshot)[Len(s) + 1] = Snapshot
    OBVIOUS
  <1>2. Snapshot.type = "Snapshot"
    BY DEF Snapshot
  <1>3. \A i \in 2..(Len(s) + 1) : i \in 2..Len(s) \/ i = Len(s) + 1
    BY <1>1
  <1>4. QED
    BY <1>1, <1>2, <1>3 DEF Begins

-----------------------------------------------------------------------------
(* The handshake.                                                          *)

Heard(c) == clientReceived[c] \o toClient[c]

\* A client process that is in its loop, before and after its handshake.
Waits(c) == clientPhase[c] \in {"idle", "app", "end"} /\ ~IsReady(c)
Joined(c) == clientPhase[c] \in {"idle", "app", "end"} /\ IsReady(c)

\* Who is not ready has said nothing, and hears at most the beginning.
WaitingHears ==
  \A c \in Conns : Waits(c) =>
    /\ Begins(Heard(c))
    /\ clientPhase[c] = "idle" => clientReceived[c] = <<>>
    /\ toServer[c] = <<>> /\ clientToSend[c] = <<>>

\* The server has heard nothing of it either; as long as its messages arrive,
\* what it has queued goes on with what the client hears.
WaitingIsTold ==
  \A c \in Conns : \A e \in live : Waits(c) /\ conn[e] = c =>
    /\ received[e] = <<>> /\ "ClientIsReady" \notin tags[e]
    /\ clientEnd[c] = "open" =>
         /\ Begins(Heard(c) \o toSend[e])
         /\ Begun(e) => Heard(c) \o toSend[e] # <<>>

\* Who is ready hears no InitializeClientMessage any more, ...
JoinedHears ==
  \A c \in Conns : Joined(c) =>
    /\ ~HasMessage(toClient[c], "InitializeClient")
    /\ clientPhase[c] \in {"app", "end"} /\ IsConnected(c) =>
         ~HasMessage(clientReceived[c], "InitializeClient")

\* ... and none is queued for it.
JoinedIsTold ==
  \A c \in Conns : \A e \in live : Joined(c) /\ conn[e] = c /\ clientEnd[c] = "open" =>
    ~HasMessage(toSend[e], "InitializeClient")

HandshakeInv ==
  /\ WaitingHears
  /\ WaitingIsTold
  /\ JoinedHears
  /\ JoinedIsTold

\* No handshake has begun in the initial state.
LEMMA InitHandshakeInv == Init => HandshakeInv
  BY DEF Init, ServerInit, ClientInit, HandshakeInv, WaitingHears, WaitingIsTold, JoinedHears,
         JoinedIsTold, Waits, Joined

\* Types of what is put together here.
LEMMA HeardTyped ==
  ASSUME Typed
  PROVE  /\ \A c \in Conns : /\ clientReceived[c] \in Seq(Messages)
                             /\ toClient[c] \in Seq(Messages)
                             /\ Heard(c) \in Seq(Messages) /\ toServer[c] \in Seq(Messages)
                             /\ clientToSend[c] \in Seq(Messages)
         /\ \A e \in Entities : toSend[e] \in Seq(Messages) /\ received[e] \in Seq(Messages)
  <1>1. /\ \A c \in Conns : /\ clientReceived[c] \in Seq(Messages)
                            /\ toClient[c] \in Seq(Messages)
                            /\ toServer[c] \in Seq(Messages) /\ clientToSend[c] \in Seq(Messages)
        /\ \A e \in Entities : toSend[e] \in Seq(Messages) /\ received[e] \in Seq(Messages)
    BY DEF Typed, LinkTyped, ServerTyped, ClientTyped
  <1>2. ASSUME NEW c \in Conns PROVE Heard(c) \in Seq(Messages)
    BY <1>1 DEF Heard
  <1>3. QED
    BY <1>1, <1>2

\* The phases of the server that move no message, and what leaves all messages
\* in their places.
LEMMA SameHandshake ==
  ASSUME HandshakeInv, UNCHANGED <<clientVars, toServer, toClient, clientEnd>>,
         live' \subseteq live,
         \A e \in live' :
           conn'[e] = conn[e] /\ toSend'[e] = toSend[e] /\ received'[e] = received[e],
         \A e \in live' : Begun(e)' <=> Begun(e),
         \A e \in live' : "ClientIsReady" \in tags'[e] <=> "ClientIsReady" \in tags[e]
  PROVE  HandshakeInv'
  <1>1. ASSUME NEW c \in Conns
        PROVE  (Waits(c)' <=> Waits(c)) /\ (Joined(c)' <=> Joined(c)) /\ Heard(c)' = Heard(c)
               /\ (IsConnected(c)' <=> IsConnected(c))
    BY DEF Waits, Joined, Heard, IsReady, IsConnected, clientVars
  <1>2. WaitingHears' /\ JoinedHears'
    BY <1>1 DEF HandshakeInv, WaitingHears, JoinedHears, clientVars
  <1>3. WaitingIsTold' /\ JoinedIsTold'
    BY <1>1 DEF HandshakeInv, WaitingIsTold, JoinedIsTold
  <1>4. QED
    BY <1>2, <1>3 DEF HandshakeInv

\* A connection is accepted before anything was said on it.
LEMMA AcceptKeepsHandshake ==
  ASSUME HandshakeInv, QuietInv, ConnInv, Typed, ServerInv, UNCHANGED clientVars,
         NEW e \in Entities, AcceptConnection(e)
  PROVE  HandshakeInv'
  <1> DEFINE b == Head(backlog)
  <1>0. /\ tags \in [Entities -> SUBSET Tags] /\ live \subseteq Entities
        /\ serverEnd \in [Conns -> {"none", "open", "closed"}]
        /\ backlog \in Seq(Conns) /\ conn \in [Entities -> Conns \cup {NoConn}]
        /\ \A d \in live : conn[d] \in Conns
    BY ServerAssumption
    DEF Typed, LinkTyped, ServerTyped, ServerInv, TablesTyped, ServerAssumption
  <1>1. /\ e \notin live /\ live' = live \cup {e}
        /\ tags' = [tags EXCEPT ![e] = {"NewConnection", "Connected"}]
        /\ conn' = [conn EXCEPT ![e] = b]
        /\ backlog # <<>>
        /\ UNCHANGED <<toSend, received, toServer, toClient, clientEnd>>
    BY DEF AcceptConnection, Accept
  <1>2. b \in Conns /\ b = backlog[1] /\ 1 \in 1..Len(backlog)
    BY <1>0, <1>1
  <1>3. Quiet(b) /\ toSend[e] = <<>> /\ received[e] = <<>>
    BY <1>1, <1>2 DEF QuietInv, NotAcceptedIsQuiet, NoQueueWithoutEntity, ConnInv, BacklogInv
  <1> HIDE DEF b
  <1>4. Heard(b) = <<>> /\ Heard(b) \o toSend[e] = <<>>
    BY <1>3 DEF Heard, Quiet
  <1>5. ASSUME NEW c \in Conns
        PROVE  (Waits(c)' <=> Waits(c)) /\ (Joined(c)' <=> Joined(c)) /\ Heard(c)' = Heard(c)
               /\ (IsConnected(c)' <=> IsConnected(c))
    BY <1>1 DEF Waits, Joined, Heard, IsReady, IsConnected, clientVars
  <1>6. WaitingHears' /\ JoinedHears'
    BY <1>1, <1>5 DEF HandshakeInv, WaitingHears, JoinedHears, clientVars
  <1>7. /\ conn'[e] = b /\ "ClientIsReady" \notin tags'[e] /\ ~Begun(e)'
        /\ \A d \in live : /\ conn'[d] = conn[d] /\ tags'[d] = tags[d] /\ toSend'[d] = toSend[d]
                           /\ Begun(d)' <=> Begun(d)
    BY <1>0, <1>1 DEF Begun
  <1>8. WaitingIsTold'
    <2> SUFFICES ASSUME NEW c \in Conns, NEW d \in live', Waits(c)', conn'[d] = c
                 PROVE  /\ received'[d] = <<>> /\ "ClientIsReady" \notin tags'[d]
                        /\ clientEnd'[c] = "open" =>
                             /\ Begins((Heard(c) \o toSend[d])')
                             /\ Begun(d)' => (Heard(c) \o toSend[d])' # <<>>
      BY DEF WaitingIsTold
    <2>1. CASE d = e
      <3>1. c = b /\ (Heard(c) \o toSend[d])' = <<>>
        BY <1>1, <1>2, <1>4, <1>5, <1>7, <2>1
      <3>2. QED
        BY <1>1, <1>3, <1>7, <2>1, <3>1 DEF Begins
    <2>2. CASE d # e
      BY <1>1, <1>5, <1>7, <2>2 DEF HandshakeInv, WaitingIsTold
    <2>3. QED
      BY <2>1, <2>2
  <1>9. JoinedIsTold'
    BY <1>1, <1>3, <1>5, <1>7 DEF HandshakeInv, JoinedIsTold, HasMessage
  <1>10. QED
    BY <1>6, <1>8, <1>9 DEF HandshakeInv

\* Nothing arrives from a client that is not ready.
LEMMA ReceiveKeepsHandshake ==
  ASSUME HandshakeInv, ConnInv, Typed, ServerInv, UNCHANGED clientVars,
         NEW e \in Entities, ReceiveTcpMessages(e) \/ ReceiveFails(e)
  PROVE  HandshakeInv'
  <1> DEFINE b == conn[e]
  <1>0. /\ tags \in [Entities -> SUBSET Tags] /\ live \subseteq Entities /\ e \in live
        /\ received \in [Entities -> Seq(Messages)]
        /\ toServer \in [Conns -> Seq(Messages)] /\ b \in Conns
    BY ServerAssumption
    DEF Typed, LinkTyped, ServerTyped, ServerInv, TablesTyped, ServerAssumption,
       ReceiveTcpMessages, ReceiveFails
  <1>1. \A d \in live \ {e} : conn[d] # b
    BY <1>0 DEF ConnInv, EntitiesHoldConns
  <1>2. /\ UNCHANGED <<live, conn, toSend, toClient, clientEnd>>
        /\ \A d \in Entities \ {e} : received'[d] = received[d]
        /\ \A c \in Conns \ {b} : toServer'[c] = toServer[c]
        /\ \A d \in live : /\ "ClientIsReady" \in tags'[d] <=> "ClientIsReady" \in tags[d]
                           /\ Begun(d)' <=> Begun(d)
    <2>1. CASE ReceiveTcpMessages(e)
      BY <1>0, <2>1 DEF ReceiveTcpMessages, ServerReceives, Begun
    <2>2. CASE ReceiveFails(e)
      <3>1. /\ UNCHANGED <<live, conn, toSend, link>>
            /\ received' = [received EXCEPT ![e] = <<>>]
            /\ tags' = [tags EXCEPT ![e] = tags[e] \cup {"PendingDisconnect"}]
        BY <2>2 DEF ReceiveFails, Failed
      <3>2. QED
        BY <1>0, <3>1 DEF link, Begun
    <2>3. QED
      BY <2>1, <2>2
  <1>3. toServer[b] = <<>> => received'[e] = <<>> /\ toServer'[b] = <<>>
    <2> SUFFICES ASSUME toServer[b] = <<>> PROVE received'[e] = <<>> /\ toServer'[b] = <<>>
      OBVIOUS
    <2>1. CASE ReceiveTcpMessages(e)
      <3>1. PICK k \in 0..Len(toServer[b]) :
              /\ received' = [received EXCEPT ![e] = Take(toServer[b], k)]
              /\ toServer' = [toServer EXCEPT ![b] = Drop(@, k)]
        BY <2>1 DEF ReceiveTcpMessages, ServerReceives
      <3>2. k = 0
        OBVIOUS
      <3>3. QED
        BY <1>0, <3>1, <3>2, TakeNothing
    <2>2. CASE ReceiveFails(e)
      BY <1>0, <2>2 DEF ReceiveFails, link
    <2>3. QED
      BY <2>1, <2>2
  <1> HIDE DEF b
  <1>4. ASSUME NEW c \in Conns
        PROVE  (Waits(c)' <=> Waits(c)) /\ (Joined(c)' <=> Joined(c)) /\ Heard(c)' = Heard(c)
               /\ (IsConnected(c)' <=> IsConnected(c))
    BY <1>2 DEF Waits, Joined, Heard, IsReady, IsConnected, clientVars
  <1>5. WaitingHears' /\ JoinedHears'
    BY <1>2, <1>3, <1>4 DEF HandshakeInv, WaitingHears, JoinedHears, clientVars
  <1>6. \A d \in live : Waits(conn[d]) => received'[d] = <<>>
    BY <1>0, <1>2, <1>3 DEF HandshakeInv, WaitingHears, WaitingIsTold, Typed, ServerTyped, b
  <1>7. WaitingIsTold' /\ JoinedIsTold'
    BY <1>2, <1>4, <1>6 DEF HandshakeInv, WaitingIsTold, JoinedIsTold
  <1>8. QED
    BY <1>5, <1>7 DEF HandshakeInv

\* What clients do not see of the steps by which the server queues messages.
LEMMA SameHeard ==
  ASSUME UNCHANGED <<clientVars, toServer, toClient, clientEnd>>
  PROVE  \A c \in Conns :
           /\ Waits(c)' <=> Waits(c)
           /\ Joined(c)' <=> Joined(c)
           /\ Heard(c)' = Heard(c)
           /\ IsConnected(c)' <=> IsConnected(c)
  BY DEF Waits, Joined, Heard, IsReady, IsConnected, clientVars

\* A message that is no InitializeClientMessage goes to entities whose client
\* is not waiting.
LEMMA QueueingKeepsHandshake ==
  ASSUME HandshakeInv, UNCHANGED <<clientVars, toServer, toClient, clientEnd, live, conn,
         received>>,
         \A d \in live : \/ /\ toSend'[d] = toSend[d]
                            /\ Begun(d)' => Begun(d)
                            /\ "ClientIsReady" \in tags'[d] <=> "ClientIsReady" \in tags[d]
                         \/ /\ ~Waits(conn[d])
                            /\ ~HasMessage(toSend[d], "InitializeClient") =>
                                 ~HasMessage(toSend'[d], "InitializeClient")
  PROVE  HandshakeInv'
  <1>1. WaitingHears' /\ JoinedHears'
    BY SameHeard DEF HandshakeInv, WaitingHears, JoinedHears, clientVars
  <1>2. WaitingIsTold'
    BY SameHeard DEF HandshakeInv, WaitingIsTold
  <1>3. JoinedIsTold'
    BY SameHeard DEF HandshakeInv, JoinedIsTold
  <1>4. QED
    BY <1>1, <1>2, <1>3 DEF HandshakeInv

\* An entity with ClientIsReady has no waiting client.
LEMMA ReadyIsNotWaiting ==
  ASSUME HandshakeInv, Typed, ServerInv, NEW e \in live,
         "ClientIsReady" \in tags[e] \/ received[e] # <<>>
  PROVE  ~Waits(conn[e])
  <1>1. conn[e] \in Conns
    BY ServerAssumption DEF Typed, ServerTyped, ServerInv, TablesTyped, ServerAssumption
  <1>2. QED
    BY <1>1 DEF HandshakeInv, WaitingIsTold

\* The types of the messages the server queues.
LEMMA MessageTypeNames ==
  /\ AppMessage.type = "App" /\ Snapshot.type = "Snapshot" /\ ClientIsReady.type = "ClientIsReady"
  /\ \A new, gone : SpawnDespawn(new, gone).type = "SpawnDespawn"
  /\ \A id : InitializeClient(id).type = "InitializeClient"
  BY DEF AppMessage, Snapshot, ClientIsReady, SpawnDespawn, InitializeClient

\* A message of the application goes to ready clients only.
LEMMA AppKeepsHandshake ==
  ASSUME HandshakeInv, Typed, ServerInv, TagInv, UNCHANGED clientVars,
         NEW id \in Registry!ClientIds, SendTcpMessage(id)
  PROVE  HandshakeInv'
  <1> DEFINE e == Registry!GetEntity(id)
  <1>1. /\ toSend' = [toSend EXCEPT ![e] = Append(@, AppMessage)]
        /\ "ClientIsReady" \in tags[e] /\ e \in Entities
        /\ UNCHANGED <<live, conn, tags, received, link>>
    BY RegistryLookups DEF SendTcpMessage, Registry!GetEntity
  <1> HIDE DEF e
  <1>2. e \in live /\ live \subseteq Entities
    BY <1>1 DEF TagInv, NoTagsWithoutEntity, ServerInv, TablesTyped
  <1>3. ~Waits(conn[e])
    BY <1>1, <1>2, ReadyIsNotWaiting
  <1>4. toSend \in [Entities -> Seq(Messages)] /\ toSend[e] \in Seq(Messages)
    BY <1>1 DEF Typed, ServerTyped
  <1>5. toSend'[e] = Append(toSend[e], AppMessage) /\ \A d \in live \ {e} : toSend'[d] = toSend[d]
    BY <1>1, <1>2, <1>4
  <1>6. AppMessage \in Messages /\ AppMessage.type # "InitializeClient"
    BY MessageTypes, MessageTypeNames
  <1>7. ~HasMessage(toSend[e], "InitializeClient") => ~HasMessage(toSend'[e], "InitializeClient")
    BY <1>4, <1>5, <1>6, HasMessageAppend
  <1>8. QED
    BY <1>1, <1>3, <1>5, <1>7, QueueingKeepsHandshake DEF link, Begun

\* So does the broadcast of spawns and despawns.
LEMMA BroadcastKeepsHandshake ==
  ASSUME HandshakeInv, Typed, ServerInv, Spawns!SpawnInv, UNCHANGED clientVars,
         SendNewSpawnDespawn
  PROVE  HandshakeInv'
  <1> DEFINE m == SpawnDespawn(newSpawns, newDespawns)
  <1>1. /\ toSend' = [e \in Entities |->
             IF HasNews /\ e \in Audience THEN Append(toSend[e], m) ELSE toSend[e]]
        /\ UNCHANGED <<live, conn, tags, received, link>>
    BY DEF SendNewSpawnDespawn
  <1>2. m \in Messages /\ m.type # "InitializeClient"
    BY MessageTypes, MessageTypeNames DEF Spawns!SpawnInv, Spawns!TypeOK
  <1> HIDE DEF m
  <1>3. live \subseteq Entities /\ \A e \in Entities : toSend[e] \in Seq(Messages)
    BY DEF Typed, ServerTyped, ServerInv, TablesTyped
  <1>4. ASSUME NEW d \in live
        PROVE  \/ toSend'[d] = toSend[d]
               \/ /\ ~Waits(conn[d])
                  /\ ~HasMessage(toSend[d], "InitializeClient") =>
                       ~HasMessage(toSend'[d], "InitializeClient")
    <2>1. CASE d \in Audience
      <3>1. "ClientIsReady" \in tags[d]
        BY <2>1 DEF Audience
      <3>2. ~Waits(conn[d])
        BY <3>1, ReadyIsNotWaiting
      <3>3. ~HasMessage(toSend[d], "InitializeClient") =>
                       ~HasMessage(Append(toSend[d], m), "InitializeClient")
        BY <1>2, <1>3, HasMessageAppend
      <3>4. QED
        BY <1>1, <1>3, <3>2, <3>3
    <2>2. CASE d \notin Audience
      BY <1>1, <1>3, <2>2
    <2>3. QED
      BY <2>1, <2>2
  <1>5. QED
    BY <1>1, <1>4, QueueingKeepsHandshake DEF link, Begun

\* A client that becomes ready has said so.
LEMMA ReadyKeepsHandshake ==
  ASSUME HandshakeInv, Typed, ServerInv, Spawns!SpawnInv, UNCHANGED clientVars,
         NEW e \in Entities, SetClientReady(e)
  PROVE  HandshakeInv'
  <1>0. /\ live \subseteq Entities /\ e \in live /\ toSend \in [Entities -> Seq(Messages)]
        /\ tags \in [Entities -> SUBSET Tags]
        /\ toSend[e] \in Seq(Messages)
    BY DEF Typed, ServerTyped, ServerInv, TablesTyped, SetClientReady
  <1>1. UNCHANGED <<live, conn, received, link>>
    BY DEF SetClientReady
  <1>2. CASE ~SaidReady(e)
    <2>1. UNCHANGED <<tags, toSend>>
      BY <1>2 DEF SetClientReady
    <2>2. QED
      BY <1>1, <2>1, SameHandshake DEF link, Begun
  <1>3. CASE SaidReady(e)
    <2>1. /\ tags' = [tags EXCEPT ![e] = (@ \ {"WaitingClientIsReady"}) \cup {"ClientIsReady"}]
          /\ toSend' = [toSend EXCEPT ![e] = @ \o AllSpawns]
      BY <1>3 DEF SetClientReady
    <2>2. received[e] # <<>>
      BY <1>3 DEF SaidReady, HasMessage
    <2>3. ~Waits(conn[e])
      BY <1>0, <2>2, ReadyIsNotWaiting
    <2>4. AllSpawns \in Seq(Messages) /\ ~HasMessage(AllSpawns, "InitializeClient")
      <3>1. SpawnDespawn(spawns, <<>>) \in Messages
        <4>1. spawns \in Seq(Spawns!NetworkIds) /\ <<>> \in Seq(Spawns!NetworkIds)
          BY DEF Spawns!SpawnInv, Spawns!TypeOK
        <4>2. QED
          BY <4>1, MessageTypes
      <3>2. SpawnDespawn(spawns, <<>>).type = "SpawnDespawn"
        BY MessageTypeNames
      <3>3. QED
        BY <3>1, <3>2 DEF AllSpawns, HasMessage
    <2>5. ~HasMessage(toSend[e], "InitializeClient") =>
            ~HasMessage(toSend[e] \o AllSpawns, "InitializeClient")
      BY <1>0, <2>4, HasMessageConcat
    <2>6. /\ toSend'[e] = toSend[e] \o AllSpawns
          /\ \A d \in live \ {e} : toSend'[d] = toSend[d] /\ tags'[d] = tags[d]
      BY <1>0, <2>1
    <2>7. QED
      BY <1>1, <2>3, <2>5, <2>6, QueueingKeepsHandshake DEF link, Begun
  <1>4. QED
    BY <1>2, <1>3

\* The first message for a client.
LEMMA InitializeKeepsHandshake ==
  ASSUME HandshakeInv, QuietInv, ConnInv, TagInv, Typed, ServerInv, UNCHANGED clientVars,
         NEW e \in Entities, InitializeNewClient(e)
  PROVE  HandshakeInv'
  <1> DEFINE m == InitializeClient(0)
             b == conn[e]
  <1>0. /\ live \subseteq Entities /\ e \in live /\ toSend \in [Entities -> Seq(Messages)]
        /\ tags \in [Entities -> SUBSET Tags] /\ b \in Conns
    BY ServerAssumption
    DEF Typed, ServerTyped, ServerInv, TablesTyped, InitializeNewClient, ServerAssumption
  <1>1. /\ phase = "initialize" /\ e \in todo
        /\ toSend' = [toSend EXCEPT ![e] = Append(@, m)]
        /\ tags' = [tags EXCEPT ![e] = @ \cup {"WaitingClientIsReady"}]
        /\ UNCHANGED <<live, conn, received, link>>
    BY DEF InitializeNewClient
  <1>2. ~Begun(e)
    BY <1>1 DEF TagInv, LoopsOverTags
  <1>3. Quiet(b) /\ toSend[e] = <<>> /\ received[e] = <<>>
    BY <1>0, <1>2 DEF QuietInv, NotBegunIsQuiet
  <1>4. /\ toSend'[e] = <<m>> /\ "ClientIsReady" \notin tags'[e]
        /\ \A d \in live \ {e} : toSend'[d] = toSend[d] /\ tags'[d] = tags[d]
    BY <1>0, <1>1, <1>2, <1>3 DEF Begun
  <1>5. Heard(b) \o <<m>> = <<m>> /\ ~Joined(b)
    BY <1>3 DEF Heard, Quiet, Joined
  <1>6. m.type = "InitializeClient"
    BY MessageTypeNames
  <1> HIDE DEF m, b
  <1>7. \A d \in live \ {e} : conn[d] # b
    BY <1>0 DEF ConnInv, EntitiesHoldConns, b
  <1>8. WaitingHears' /\ JoinedHears'
    BY <1>1, SameHeard DEF HandshakeInv, WaitingHears, JoinedHears, clientVars, link
  <1>9. WaitingIsTold'
    <2> SUFFICES ASSUME NEW c \in Conns, NEW d \in live, Waits(c)', conn[d] = c
                 PROVE  /\ received[d] = <<>> /\ "ClientIsReady" \notin tags'[d]
                        /\ clientEnd[c] = "open" =>
                             /\ Begins((Heard(c) \o toSend[d])')
                             /\ Begun(d)' => (Heard(c) \o toSend[d])' # <<>>
      BY <1>1 DEF WaitingIsTold, link
    <2>0. Waits(c) /\ Heard(c)' = Heard(c)
      BY <1>1, SameHeard DEF link
    <2>1. CASE d = e
      <3>1. (Heard(c) \o toSend[d])' = <<m>>
        BY <1>4, <1>5, <2>0, <2>1 DEF b
      <3>2. Begins(<<m>>) /\ <<m>> # <<>>
        BY <1>6 DEF Begins
      <3>3. Begins((Heard(c) \o toSend[d])') /\ (Heard(c) \o toSend[d])' # <<>>
        BY <3>1, <3>2
      <3>4. received[d] = <<>> /\ "ClientIsReady" \notin tags'[d]
        BY <1>3, <1>4, <2>1
      <3>5. QED
        BY <3>3, <3>4
    <2>2. CASE d # e
      BY <1>4, <2>0, <2>2 DEF HandshakeInv, WaitingIsTold, Begun
    <2>3. QED
      BY <2>1, <2>2
  <1>10. JoinedIsTold'
    BY <1>1, <1>4, <1>5, <1>7, SameHeard DEF HandshakeInv, JoinedIsTold, link, b
  <1>11. QED
    BY <1>8, <1>9, <1>10 DEF HandshakeInv

\* Snapshots follow what has begun.
LEMMA SnapshotsKeepHandshake ==
  ASSUME HandshakeInv, TagInv, Typed, ServerInv, UNCHANGED clientVars, SendSnapshots
  PROVE  HandshakeInv'
  <1>0. /\ live \subseteq Entities /\ toSend \in [Entities -> Seq(Messages)]
        /\ \A d \in live : toSend[d] \in Seq(Messages)
        /\ \A c \in Conns : Heard(c) \in Seq(Messages)
    BY HeardTyped DEF Typed, ServerTyped, ServerInv, TablesTyped
  <1>1. /\ phase = "snapshot"
        /\ \A d \in live : toSend'[d] = toSend[d] \/ toSend'[d] = Append(toSend[d], Snapshot)
        /\ UNCHANGED <<live, conn, tags, received, link>>
    BY <1>0 DEF SendSnapshots
  <1>2. \A d \in live : Begun(d) /\ (Begun(d)' <=> Begun(d))
    BY <1>1 DEF TagInv, NotBegunIsNew, Begun
  <1>3. Snapshot \in Messages /\ Snapshot.type # "InitializeClient"
    BY MessageTypes, MessageTypeNames
  <1>4. WaitingHears' /\ JoinedHears'
    BY <1>1, SameHeard DEF HandshakeInv, WaitingHears, JoinedHears, clientVars, link
  <1>5. WaitingIsTold'
    <2> SUFFICES ASSUME NEW c \in Conns, NEW d \in live, Waits(c)', conn[d] = c
                 PROVE  /\ received[d] = <<>> /\ "ClientIsReady" \notin tags[d]
                        /\ clientEnd[c] = "open" =>
                             /\ Begins((Heard(c) \o toSend[d])')
                             /\ Begun(d)' => (Heard(c) \o toSend[d])' # <<>>
      BY <1>1 DEF WaitingIsTold, link
    <2>0. Waits(c) /\ Heard(c)' = Heard(c)
      BY <1>1, SameHeard DEF link
    <2>1. /\ received[d] = <<>> /\ "ClientIsReady" \notin tags[d]
          /\ clientEnd[c] = "open" =>
               Begins(Heard(c) \o toSend[d]) /\ Heard(c) \o toSend[d] # <<>>
      BY <1>2, <2>0 DEF HandshakeInv, WaitingIsTold
    <2> DEFINE s == Heard(c) \o toSend[d]
    <2>2. /\ s \in Seq(Messages) /\ Heard(c) \o Append(toSend[d], Snapshot) = Append(s, Snapshot)
      BY <1>0, <1>3
    <2>3. (Heard(c) \o toSend[d])' = s \/ (Heard(c) \o toSend[d])' = Append(s, Snapshot)
      BY <1>1, <2>0, <2>2
    <2>4. clientEnd[c] = "open" => Begins(s) /\ s # <<>>
      BY <2>1
    <2> HIDE DEF s
    <2>5. clientEnd[c] = "open" => Begins(Append(s, Snapshot)) /\ Append(s, Snapshot) # <<>>
      <3>1. Append(s, Snapshot) # <<>>
        BY <1>3, <2>2
      <3>2. QED
        BY <2>2, <2>4, <3>1, BeginsThenSnapshot
    <2>6. QED
      BY <2>1, <2>3, <2>4, <2>5
  <1>6. JoinedIsTold'
    <2>1. \A d \in live : ~HasMessage(toSend[d], "InitializeClient") =>
                       ~HasMessage(Append(toSend[d], Snapshot), "InitializeClient")
      BY <1>0, <1>3, HasMessageAppend
    <2>2. QED
      BY <1>1, <2>1, SameHeard DEF HandshakeInv, JoinedIsTold, link
  <1>7. QED
    BY <1>4, <1>5, <1>6 DEF HandshakeInv

\* What a client hears, and what is queued for it, after a send: nothing else
\* than before, as far as the types of messages go.
LEMMA SendingMovesMessages ==
  ASSUME NEW heard \in Seq(Messages), NEW queue \in Seq(Messages), NEW k \in 0..Len(queue),
         initMessage \in 0..MaxClientId, Begins(heard \o queue)
  PROVE  /\ Begins(heard \o Serialized(Take(queue, k)))
         /\ Begins((heard \o Serialized(Take(queue, k))) \o Drop(queue, k))
         /\ heard \o queue # <<>> =>
              (heard \o Serialized(Take(queue, k))) \o Drop(queue, k) # <<>>
  <1> DEFINE a == Serialized(Take(queue, k))
             b == Drop(queue, k)
             s == heard \o queue
             p == heard \o a
             t == p \o b
  <1>1. /\ Take(queue, k) \in Seq(Messages) /\ Len(Take(queue, k)) = k
        /\ \A i \in 1..k : Take(queue, k)[i] = queue[i]
        /\ b \in Seq(Messages) /\ Len(b) = Len(queue) - k
        /\ \A i \in 1..(Len(queue) - k) : b[i] = queue[k + i]
    BY TakeDrop
  <1>2. a \in Seq(Messages) /\ Len(a) = k /\ \A i \in 1..k : a[i].type = queue[i].type
    <2> DEFINE q == Take(queue, k)
    <2>1. q \in Seq(Messages) /\ Len(q) = k /\ \A i \in 1..k : q[i] = queue[i]
      BY <1>1
    <2> HIDE DEF q
    <2>2. /\ Serialized(q) \in Seq(Messages) /\ Len(Serialized(q)) = Len(q)
          /\ \A i \in 1..Len(q) : Serialized(q)[i].type = q[i].type
      BY <2>1, SerializedType
    <2>3. Serialized(q) = a
      BY DEF q
    <2> HIDE DEF a
    <2>4. /\ a \in Seq(Messages) /\ Len(a) = k /\ \A i \in 1..k : a[i].type = q[i].type
      BY <2>1, <2>2, <2>3
    <2>5. QED
      BY <2>1, <2>4
  <1>3. /\ Len(heard) \in Nat /\ Len(queue) \in Nat /\ k \in Nat /\ k <= Len(queue)
        /\ s \in Seq(Messages) /\ Len(s) = Len(heard) + Len(queue)
        /\ \A i \in 1..Len(heard) : s[i] = heard[i]
        /\ \A i \in 1..Len(queue) : s[Len(heard) + i] = queue[i]
    BY Concatenation
  <1> HIDE DEF a, b, s
  <1>4. /\ p \in Seq(Messages) /\ Len(p) = Len(heard) + k
        /\ \A i \in 1..Len(heard) : p[i] = heard[i]
        /\ \A i \in 1..k : p[Len(heard) + i] = a[i]
    <2>1. /\ heard \o a \in Seq(Messages) /\ Len(heard \o a) = Len(heard) + Len(a)
          /\ \A i \in 1..Len(heard) : (heard \o a)[i] = heard[i]
          /\ \A i \in 1..Len(a) : (heard \o a)[Len(heard) + i] = a[i]
      <3>1. heard \in Seq(Messages) /\ a \in Seq(Messages)
        BY <1>2
      <3>2. QED
        BY <3>1
    <2>2. QED
      BY <1>2, <2>1
  <1> HIDE DEF p
  <1>5. /\ t \in Seq(Messages) /\ Len(t) = Len(heard) + Len(queue)
        /\ \A i \in 1..Len(p) : t[i] = p[i]
        /\ \A i \in 1..Len(b) : t[Len(p) + i] = b[i]
    <2>1. /\ p \o b \in Seq(Messages) /\ Len(p \o b) = Len(p) + Len(b)
          /\ \A i \in 1..Len(p) : (p \o b)[i] = p[i]
          /\ \A i \in 1..Len(b) : (p \o b)[Len(p) + i] = b[i]
      <3>1. p \in Seq(Messages) /\ b \in Seq(Messages)
        BY <1>1, <1>4
      <3>2. QED
        BY <3>1
    <2>2. Len(p) + Len(b) = Len(heard) + Len(queue)
      BY <1>1, <1>3, <1>4
    <2>3. QED
      BY <2>1, <2>2
  <1> HIDE DEF t
  <1>6. \A i \in 1..(Len(heard) + k) : p[i].type = s[i].type
    <2> SUFFICES ASSUME NEW i \in 1..(Len(heard) + k) PROVE p[i].type = s[i].type
      OBVIOUS
    <2>1. CASE i \in 1..Len(heard)
      BY <1>3, <1>4, <2>1
    <2>2. CASE i \notin 1..Len(heard)
      <3>1. i - Len(heard) \in 1..k /\ i - Len(heard) \in 1..Len(queue)
              /\ Len(heard) + (i - Len(heard)) = i
        BY <1>3, <2>2
      <3>2. p[i] = a[i - Len(heard)] /\ s[i] = queue[i - Len(heard)]
        BY <1>3, <1>4, <3>1
      <3>3. QED
        BY <1>2, <3>1, <3>2
    <2>3. QED
      BY <2>1, <2>2
  <1>7. \A i \in 1..(Len(heard) + Len(queue)) : t[i].type = s[i].type
    <2> SUFFICES ASSUME NEW i \in 1..(Len(heard) + Len(queue)) PROVE t[i].type = s[i].type
      OBVIOUS
    <2>1. CASE i <= Len(heard) + k
      <3>1. i \in 1..(Len(heard) + k)
        BY <1>3, <2>1
      <3>2. QED
        BY <1>4, <1>5, <1>6, <3>1
    <2>2. CASE i > Len(heard) + k
      <3> DEFINE j == i - Len(heard) - k
      <3>1. /\ j \in 1..(Len(queue) - k) /\ k + j \in 1..Len(queue)
            /\ Len(heard) + (k + j) = i /\ (Len(heard) + k) + j = i
        BY <1>3, <2>2
      <3> HIDE DEF j
      <3>2. t[i] = b[j] /\ b[j] = queue[k + j] /\ s[i] = queue[k + j]
        BY <1>1, <1>3, <1>4, <1>5, <3>1
      <3>3. QED
        BY <3>2
    <2>3. QED
      BY <1>3, <2>1, <2>2
  <1>8. Begins(s)
    BY DEF s
  <1>9. Begins(p)
    <2>1. Len(p) <= Len(s)
      BY <1>3, <1>4
    <2>2. QED
      BY <1>3, <1>4, <1>6, <1>8, <2>1, BeginsLike
  <1>10. Begins(t)
    <2>1. Len(t) <= Len(s)
      BY <1>3, <1>5
    <2>2. QED
      BY <1>3, <1>5, <1>7, <1>8, <2>1, BeginsLike
  <1>11. s # <<>> => t # <<>>
    BY <1>3, <1>5
  <1>12. QED
    BY <1>9, <1>10, <1>11 DEF t, p, a, b, s

\* Each prefix of its queue the server may send keeps the handshake.
LEMMA SendKeepsHandshake ==
  ASSUME HandshakeInv, ConnInv, Typed, ServerInv, UNCHANGED clientVars,
         NEW e \in Entities, SendTcpMessages(e)
  PROVE  HandshakeInv'
  <1> DEFINE b == conn[e]
             open == clientEnd[b] = "open"
  <1>0. /\ tags \in [Entities -> SUBSET Tags] /\ live \subseteq Entities /\ e \in live
        /\ toSend \in [Entities -> Seq(Messages)] /\ toSend[e] \in Seq(Messages)
        /\ toClient \in [Conns -> Seq(Messages)] /\ b \in Conns
        /\ initMessage \in 0..MaxClientId
    BY ServerAssumption
    DEF Typed, LinkTyped, ServerTyped, ServerInv, TablesTyped, ServerAssumption,
       SendTcpMessages
  <1>1. \A d \in live \ {e} : conn[d] # b
    BY <1>0 DEF ConnInv, EntitiesHoldConns
  <1>2. PICK k \in SentCounts(toClient[b], open, toSend[e]) :
          /\ ServerSends(b, Serialized(Take(toSend[e], k)))
          /\ toSend' = [toSend EXCEPT ![e] = Drop(@, k)]
          /\ tags' = [tags EXCEPT ![e] = IF k < Len(toSend[e]) THEN @
               \cup {"PendingDisconnect"} ELSE @]
    BY DEF SendTcpMessages
  <1> DEFINE sent == Serialized(Take(toSend[e], k))
             left == Drop(toSend[e], k)
  <1>3. /\ UNCHANGED <<live, conn, received, toServer, clientEnd>>
        /\ \A d \in Entities \ {e} : toSend'[d] = toSend[d]
        /\ toSend'[e] = left
        /\ \A c \in Conns \ {b} : toClient'[c] = toClient[c]
        /\ toClient'[b] = IF open THEN toClient[b] \o sent ELSE toClient[b]
        /\ \A d \in live : /\ "ClientIsReady" \in tags'[d] <=> "ClientIsReady" \in tags[d]
                           /\ Begun(d)' <=> Begun(d)
    <2>1. UNCHANGED <<live, conn, received>>
      BY DEF SendTcpMessages
    <2>2. QED
      BY <1>0, <1>2, <2>1 DEF ServerSends, Begun
  <1>4. k \in 0..Len(toSend[e])
    <2>1. toClient[b] \in Seq(Messages) /\ Len(toClient[b]) <= Capacity
      BY <1>0 DEF Typed, LinkTyped
    <2>2. QED
      BY <1>0, <1>2, <2>1, SentCountsBound
  <1>5. sent \in Seq(Messages) /\ left \in Seq(Messages)
    BY <1>0, <1>4, TakeDrop, SerializedType
  <1> HIDE DEF b, open, sent, left
  <1>6. ASSUME NEW c \in Conns
        PROVE  /\ Waits(c)' <=> Waits(c)
               /\ Joined(c)' <=> Joined(c)
               /\ IsConnected(c)' <=> IsConnected(c)
               /\ c # b \/ ~open => Heard(c)' = Heard(c)
    BY <1>3 DEF Waits, Joined, Heard, IsReady, IsConnected, clientVars
  <1>7. open => Heard(b)' = Heard(b) \o sent
    <2>1. clientReceived[b] \in Seq(Messages) /\ toClient[b] \in Seq(Messages)
      BY <1>0, HeardTyped
    <2>2. (clientReceived[b] \o toClient[b]) \o sent = clientReceived[b] \o (toClient[b] \o sent)
      <3> DEFINE x == clientReceived[b]
                 y == toClient[b]
      <3>1. x \in Seq(Messages) /\ y \in Seq(Messages)
        BY <2>1
      <3> HIDE DEF x, y
      <3>2. (x \o y) \o sent = x \o (y \o sent)
        BY <1>5, <3>1, ConcatAssociative
      <3>3. QED
        BY <3>2 DEF x, y
    <2>3. b' = b /\ clientReceived' = clientReceived
      BY <1>3 DEF b, clientVars
    <2>4. open => (clientReceived[b] \o toClient[b])' = clientReceived[b] \o (toClient[b] \o sent)
      BY <1>3, <2>3
    <2>5. QED
      BY <2>2, <2>4 DEF Heard
  <1>8. CASE ~(open /\ Waits(b))
    <2>1. ASSUME NEW c \in Conns, Waits(c) PROVE Heard(c)' = Heard(c)
      BY <1>6, <1>8, <2>1
    <2>2. WaitingHears'
      BY <1>3, <1>6, <2>1 DEF HandshakeInv, WaitingHears, clientVars
    <2>3. WaitingIsTold'
      <3> SUFFICES ASSUME NEW c \in Conns, NEW d \in live, Waits(c), conn[d] = c
                   PROVE  /\ received[d] = <<>> /\ "ClientIsReady" \notin tags[d]
                          /\ clientEnd[c] = "open" =>
                               /\ Begins(Heard(c)' \o toSend'[d])
                               /\ Begun(d) => Heard(c)' \o toSend'[d] # <<>>
        BY <1>3, <1>6 DEF WaitingIsTold
      <3>1. Heard(c)' = Heard(c)
        BY <2>1
      <3>2. CASE d = e
        <4>1. c = b
          BY <3>2 DEF b
        <4>2. clientEnd[c] # "open"
          BY <1>8, <4>1 DEF open
        <4>3. QED
          BY <4>2 DEF HandshakeInv, WaitingIsTold
      <3>3. CASE d # e
        <4>1. toSend'[d] = toSend[d]
          BY <1>0, <1>3, <3>3
        <4>2. QED
          BY <3>1, <4>1 DEF HandshakeInv, WaitingIsTold
      <3>4. QED
        BY <3>2, <3>3
    <2>4. QED
      <3>1. JoinedHears' /\ JoinedIsTold'
        <4>1. open /\ Joined(b) => /\ ~HasMessage(toSend[e], "InitializeClient")
                                   /\ ~HasMessage(toClient[b], "InitializeClient")
          BY <1>0 DEF HandshakeInv, JoinedIsTold, JoinedHears, open, b
        <4>2. ~HasMessage(toSend[e], "InitializeClient") =>
                ~HasMessage(sent, "InitializeClient") /\ ~HasMessage(left, "InitializeClient")
          <5>1. Take(toSend[e], k) \in Seq(Messages)
            BY <1>0, <1>4, TakeDrop
          <5>2. QED
            BY <1>0, <1>4, <5>1, HasMessageParts, HasMessageSerialized DEF sent, left
        <4>3. ~HasMessage(toClient[b], "InitializeClient")
                /\ ~HasMessage(sent, "InitializeClient") =>
                ~HasMessage(toClient[b] \o sent, "InitializeClient")
          BY <1>0, <1>5, HasMessageConcat
        <4>4. JoinedHears'
          <5> SUFFICES ASSUME NEW c \in Conns, Joined(c)
                       PROVE  /\ ~HasMessage(toClient'[c], "InitializeClient")
                              /\ clientPhase[c] \in {"app", "end"} /\ IsConnected(c) =>
                                   ~HasMessage(clientReceived[c], "InitializeClient")
            BY <1>6 DEF JoinedHears, clientVars
          <5>1. ~HasMessage(toClient[c], "InitializeClient")
            BY DEF HandshakeInv, JoinedHears
          <5>2. ~HasMessage(toClient'[c], "InitializeClient")
            BY <1>3, <4>1, <4>2, <4>3, <5>1
          <5>3. QED
            BY <5>2 DEF HandshakeInv, JoinedHears
        <4>5. JoinedIsTold'
          <5> SUFFICES ASSUME NEW c \in Conns, NEW d \in live, Joined(c), conn[d] = c,
                              clientEnd[c] = "open"
                       PROVE  ~HasMessage(toSend'[d], "InitializeClient")
            BY <1>3, <1>6 DEF JoinedIsTold
          <5>1. ~HasMessage(toSend[d], "InitializeClient")
            BY DEF HandshakeInv, JoinedIsTold
          <5>2. QED
            BY <1>0, <1>3, <4>2, <5>1
        <4>6. QED
          BY <4>4, <4>5
      <3>2. QED
        BY <2>2, <2>3, <3>1 DEF HandshakeInv
  <1>9. CASE open /\ Waits(b)
    <2>1. Heard(b) \in Seq(Messages) /\ b' = b
      BY <1>0, <1>3, HeardTyped DEF b
    <2>2. /\ Begins(Heard(b) \o toSend[e])
          /\ Heard(b) \o toSend[e] # <<>> \/ ~Begun(e)
      BY <1>0, <1>9 DEF HandshakeInv, WaitingIsTold, open, b
    <2>3. /\ Begins(Heard(b) \o sent) /\ Begins((Heard(b) \o sent) \o left)
          /\ Heard(b) \o toSend[e] # <<>> => (Heard(b) \o sent) \o left # <<>>
      BY <1>0, <1>4, <2>1, <2>2, SendingMovesMessages DEF sent, left
    <2>h. ASSUME NEW c \in Conns, c = b PROVE Heard(c)' = Heard(b) \o sent
      <3>1. clientReceived'[c] \o toClient'[c] = clientReceived'[b] \o toClient'[b]
        BY <2>h
      <3>2. (clientReceived[b] \o toClient[b])' = clientReceived'[b] \o toClient'[b]
        BY <2>1
      <3>3. QED
        BY <1>7, <1>9, <3>1, <3>2 DEF Heard
    <2>4. WaitingHears'
      <3> SUFFICES ASSUME NEW c \in Conns, Waits(c)
                   PROVE  /\ Begins(Heard(c)')
                          /\ clientPhase[c] = "idle" => clientReceived[c] = <<>>
                          /\ toServer[c] = <<>> /\ clientToSend[c] = <<>>
        BY <1>3, <1>6 DEF WaitingHears, clientVars
      <3>1. CASE c = b
        <4>1. Begins(Heard(c)')
          <5>1. Heard(c)' = Heard(b) \o sent
            BY <2>h, <3>1
          <5>2. QED
            BY <2>3, <5>1
        <4>2. QED
          BY <4>1 DEF HandshakeInv, WaitingHears
      <3>2. CASE c # b
        BY <1>6, <3>2 DEF HandshakeInv, WaitingHears
      <3>3. QED
        BY <3>1, <3>2
    <2>5. WaitingIsTold'
      <3> SUFFICES ASSUME NEW c \in Conns, NEW d \in live, Waits(c), conn[d] = c
                   PROVE  /\ received[d] = <<>> /\ "ClientIsReady" \notin tags[d]
                          /\ clientEnd[c] = "open" =>
                               /\ Begins(Heard(c)' \o toSend'[d])
                               /\ Begun(d) => Heard(c)' \o toSend'[d] # <<>>
        BY <1>3, <1>6 DEF WaitingIsTold
      <3>1. CASE d = e
        <4>1. c = b
          BY <3>1 DEF b
        <4>2. Heard(c)' \o toSend'[d] = (Heard(b) \o sent) \o left
          <5>1. Heard(c)' = Heard(b) \o sent
            BY <2>h, <4>1
          <5>2. toSend'[d] = left
            BY <1>3, <3>1
          <5>3. QED
            BY <5>1, <5>2
        <4>3. Begins(Heard(c)' \o toSend'[d])
          BY <2>3, <4>2
        <4>4. Begun(d) => Heard(c)' \o toSend'[d] # <<>>
          BY <2>2, <2>3, <3>1, <4>2
        <4>5. received[d] = <<>> /\ "ClientIsReady" \notin tags[d]
          BY DEF HandshakeInv, WaitingIsTold
        <4>6. QED
          BY <4>3, <4>4, <4>5
      <3>2. CASE d # e
        <4>1. c # b /\ toSend'[d] = toSend[d]
          BY <1>0, <1>1, <1>3, <3>2
        <4>2. Heard(c)' = Heard(c)
          BY <1>6, <4>1
        <4>3. QED
          BY <4>1, <4>2 DEF HandshakeInv, WaitingIsTold
      <3>3. QED
        BY <3>1, <3>2
    <2>6. ASSUME NEW c \in Conns, Joined(c) PROVE c # b
      BY <1>9, <2>6 DEF Waits, Joined
    <2>7. JoinedHears'
      BY <1>3, <1>6, <2>6 DEF HandshakeInv, JoinedHears, clientVars
    <2>8. JoinedIsTold'
      <3> SUFFICES ASSUME NEW c \in Conns, NEW d \in live, Joined(c), conn[d] = c,
                          clientEnd[c] = "open"
                   PROVE  ~HasMessage(toSend'[d], "InitializeClient")
        BY <1>3, <1>6 DEF JoinedIsTold
      <3>1. d # e
        BY <2>6 DEF b
      <3>2. toSend'[d] = toSend[d]
        BY <1>0, <1>3, <3>1
      <3>3. QED
        BY <3>2 DEF HandshakeInv, JoinedIsTold
    <2>9. QED
      BY <2>4, <2>5, <2>7, <2>8 DEF HandshakeInv
  <1>10. QED
    BY <1>8, <1>9

\* The handshake of one connection.
HandshakeAt(b) ==
  /\ Waits(b) =>
       /\ Begins(Heard(b))
       /\ clientPhase[b] = "idle" => clientReceived[b] = <<>>
       /\ toServer[b] = <<>> /\ clientToSend[b] = <<>>
       /\ \A e \in live : conn[e] = b =>
            /\ received[e] = <<>> /\ "ClientIsReady" \notin tags[e]
            /\ clientEnd[b] = "open" =>
                 /\ Begins(Heard(b) \o toSend[e])
                 /\ Begun(e) => Heard(b) \o toSend[e] # <<>>
  /\ Joined(b) =>
       /\ ~HasMessage(toClient[b], "InitializeClient")
       /\ clientPhase[b] \in {"app", "end"} /\ IsConnected(b) =>
            ~HasMessage(clientReceived[b], "InitializeClient")
       /\ clientEnd[b] = "open" =>
            \A e \in live : conn[e] = b => ~HasMessage(toSend[e], "InitializeClient")

\* HandshakeInv is a statement about each connection by itself.
LEMMA HandshakeParts ==
  HandshakeInv <=> \A b \in Conns : HandshakeAt(b)
  BY DEF HandshakeInv, WaitingHears, WaitingIsTold, JoinedHears, JoinedIsTold, HandshakeAt

handshakeVars == <<live, conn, tags, toSend, received>>

\* A connection on which nothing happens, or that is closed at the client's end.
LEMMA OthersKeepHandshake ==
  ASSUME NEW b \in Conns, HandshakeAt(b), Typed, UNCHANGED handshakeVars,
         clientPhase'[b] = clientPhase[b], clientTags'[b] = clientTags[b],
         clientReceived'[b] = clientReceived[b], clientToSend'[b] = clientToSend[b],
         toServer'[b] = toServer[b],
         \/ toClient'[b] = toClient[b] /\ (clientEnd'[b] = "open" => clientEnd[b] = "open")
         \/ toClient'[b] = <<>> /\ clientEnd'[b] = "closed"
  PROVE  HandshakeAt(b)'
  <1>1. /\ Waits(b)' <=> Waits(b)
        /\ Joined(b)' <=> Joined(b)
        /\ IsConnected(b)' <=> IsConnected(b)
        /\ UNCHANGED <<live, conn, tags, toSend, received>>
        /\ \A e \in live : Begun(e)' <=> Begun(e)
    BY DEF Waits, Joined, IsConnected, IsReady, Begun, handshakeVars
  <1>2. CASE toClient'[b] = toClient[b] /\ (clientEnd'[b] = "open" => clientEnd[b] = "open")
    <2>1. Heard(b)' = Heard(b)
      BY <1>2 DEF Heard
    <2>2. QED
      BY <1>1, <1>2, <2>1 DEF HandshakeAt
  <1>3. CASE toClient'[b] = <<>> /\ clientEnd'[b] = "closed"
    <2>1. clientReceived[b] \in Seq(Messages) /\ toClient[b] \in Seq(Messages)
      BY DEF Typed, LinkTyped, ClientTyped
    <2>2. Heard(b)' = clientReceived[b]
      BY <1>3, <2>1 DEF Heard
    <2>3. Begins(Heard(b)) => Begins(clientReceived[b])
      <3> DEFINE x == clientReceived[b]
                 y == toClient[b]
      <3>1. x \in Seq(Messages) /\ y \in Seq(Messages)
        BY <2>1
      <3> HIDE DEF x, y
      <3>2. /\ x \o y \in Seq(Messages) /\ Len(x) <= Len(x \o y)
            /\ \A i \in 1..Len(x) : x[i].type = (x \o y)[i].type
        BY <3>1
      <3>3. Begins(x \o y) => Begins(x)
        BY <3>1, <3>2, BeginsLike
      <3>4. QED
        BY <3>3 DEF x, y, Heard
    <2>4. ~HasMessage(toClient'[b], "InitializeClient")
      BY <1>3 DEF HasMessage
    <2>5. QED
      BY <1>1, <1>3, <2>2, <2>3, <2>4 DEF HandshakeAt
  <1>4. QED
    BY <1>2, <1>3

\* A client that left its loop.
LEMMA GoneKeepsHandshake ==
  ASSUME NEW b \in Conns, clientPhase'[b] \notin {"idle", "app", "end"}
  PROVE  HandshakeAt(b)'
  BY DEF HandshakeAt, Waits, Joined

\* A new connection.
LEMMA ConnectingBeginsHandshake ==
  ASSUME QuietInv, ConnInv, Typed, ServerInv, NEW d \in Conns, clientPhase[d] = "off",
         UNCHANGED <<serverVars, toServer, toClient>>,
         clientTags'[d] = {"Connected"},
         clientReceived'[d] = clientReceived[d], clientToSend'[d] = clientToSend[d]
  PROVE  HandshakeAt(d)'
  <1>1. serverEnd[d] = "none"
    BY DEF ConnInv, UnusedConnections
  <1>2. Quiet(d)
    BY <1>1 DEF QuietInv, NotAcceptedIsQuiet
  <1>3. \A e \in live : conn[e] # d
    BY <1>1 DEF ConnInv, EntitiesHoldConns
  <1>4. UNCHANGED <<live, conn>>
    BY DEF serverVars, ecs
  <1>5. /\ Heard(d)' = <<>> /\ ~Joined(d)'
        /\ toServer'[d] = <<>> /\ clientToSend'[d] = <<>> /\ clientReceived'[d] = <<>>
    BY <1>2 DEF Heard, Quiet, Joined, IsReady
  <1>6. QED
    BY <1>3, <1>4, <1>5 DEF HandshakeAt, Begins

\* What the client receives moves from the stream to its messages.
LEMMA BeginUpdateKeepsHandshake ==
  ASSUME NEW c \in Conns, HandshakeAt(c), Typed, UNCHANGED serverVars,
         BeginUpdate(c) \/ BeginUpdateDisconnects(c)
  PROVE  HandshakeAt(c)'
  <1>0. /\ clientTags \in [Conns -> SUBSET Tags] /\ clientReceived \in [Conns -> Seq(Messages)]
        /\ clientPhase \in
             [Conns -> {"off", "idle", "app", "end", "disconnected", "left", "exited"}]
        /\ toClient \in [Conns -> Seq(Messages)]
        /\ clientReceived[c] \in Seq(Messages) /\ toClient[c] \in Seq(Messages)
    BY DEF Typed, LinkTyped, ClientTyped
  <1>1. /\ clientPhase[c] = "idle" /\ clientPhase'[c] = "app"
        /\ UNCHANGED <<clientToSend, toServer, clientEnd, handshakeVars>>
        /\ IsReady(c)' <=> IsReady(c)
    <2>1. UNCHANGED handshakeVars
      BY DEF serverVars, ecs, handshakeVars
    <2>2. CASE BeginUpdateDisconnects(c)
      BY <1>0, <2>1, <2>2 DEF BeginUpdateDisconnects, link, IsReady, LostTags
    <2>3. CASE BeginUpdate(c)
      <3>1. /\ clientPhase[c] = "idle" /\ clientPhase' = [clientPhase EXCEPT ![c] = "app"]
            /\ UNCHANGED <<clientToSend, toServer, clientEnd>>
            /\ \/ UNCHANGED clientTags
               \/ clientTags' = [clientTags EXCEPT ![c] = @ \cup {"PendingDisconnect"}]
        BY <2>3 DEF BeginUpdate, link, ClientReceives
      <3>2. QED
        BY <1>0, <2>1, <3>1 DEF IsReady
    <2>4. QED
      BY <2>2, <2>3
  <1>2. /\ UNCHANGED <<live, conn, tags, toSend, received>>
        /\ \A e \in live : Begun(e)' <=> Begun(e)
        /\ Waits(c)' <=> Waits(c)
        /\ Joined(c)' <=> Joined(c)
    BY <1>1 DEF handshakeVars, Begun, Waits, Joined
  <1>3. ASSUME Waits(c) => Heard(c)' = Heard(c),
               Joined(c) => /\ ~HasMessage(toClient'[c], "InitializeClient")
                            /\ IsConnected(c)' =>
                                 ~HasMessage(clientReceived'[c], "InitializeClient")
        PROVE  HandshakeAt(c)'
    BY <1>1, <1>2, <1>3 DEF HandshakeAt
  <1>4. ASSUME Waits(c) PROVE Heard(c) = toClient[c]
    BY <1>0, <1>1, <1>4 DEF HandshakeAt, Heard
  <1>5. Joined(c) => ~HasMessage(toClient[c], "InitializeClient")
    BY DEF HandshakeAt
  <1>6. CASE BeginUpdateDisconnects(c)
    <2>1. UNCHANGED <<clientReceived, toClient>> /\ ~IsConnected(c)'
      BY <1>0, <1>6 DEF BeginUpdateDisconnects, link, IsConnected, LostTags
    <2>2. QED
      BY <1>3, <1>5, <2>1 DEF Heard
  <1>7. ASSUME NEW k \in 0..Len(toClient[c]),
               clientReceived' = [clientReceived EXCEPT ![c] = Take(toClient[c], k)],
               ClientReceives(c, k)
        PROVE  HandshakeAt(c)'
    <2>1. clientReceived'[c] = Take(toClient[c], k) /\ toClient'[c] = Drop(toClient[c], k)
      BY <1>0, <1>7 DEF ClientReceives
    <2>2. Waits(c) => Heard(c)' = Heard(c)
      <3>1. Take(toClient[c], k) \o Drop(toClient[c], k) = toClient[c]
        BY <1>0, TakeAndDrop
      <3>2. QED
        BY <1>4, <2>1, <3>1 DEF Heard
    <2>3. Joined(c) => /\ ~HasMessage(toClient'[c], "InitializeClient")
                       /\ ~HasMessage(clientReceived'[c], "InitializeClient")
      BY <1>0, <1>5, <2>1, HasMessageParts
    <2>4. QED
      BY <1>3, <2>2, <2>3
  <1>8. CASE clientReceived' = [clientReceived EXCEPT ![c] = <<>>] /\ UNCHANGED link
    <2>1. clientReceived'[c] = <<>> /\ toClient' = toClient
      BY <1>0, <1>8 DEF link
    <2>2. Waits(c) => Heard(c)' = Heard(c)
      BY <1>0, <1>4, <2>1 DEF Heard
    <2>3. ~HasMessage(clientReceived'[c], "InitializeClient")
      BY <2>1 DEF HasMessage
    <2>4. QED
      BY <1>3, <1>5, <2>1, <2>2, <2>3
  <1>9. QED
    BY <1>6, <1>7, <1>8 DEF BeginUpdate

\* The application of the client takes news, and sends only when ready.
LEMMA ApplicationKeepsHandshake ==
  ASSUME NEW c \in Conns, HandshakeAt(c), Typed, UNCHANGED serverVars, Application(c)
  PROVE  HandshakeAt(c)'
  <1>0. /\ clientPhase \in
             [Conns -> {"off", "idle", "app", "end", "disconnected", "left", "exited"}]
    BY DEF Typed, ClientTyped
  <1>1. /\ clientPhase[c] = "app" /\ clientPhase'[c] = "end"
        /\ UNCHANGED <<clientTags, clientReceived, toServer, toClient, clientEnd, handshakeVars>>
        /\ ~IsReady(c) => UNCHANGED clientToSend
    BY <1>0 DEF Application, serverVars, ecs, handshakeVars, link
  <1>2. /\ UNCHANGED <<live, conn, tags, toSend, received>>
        /\ \A e \in live : Begun(e)' <=> Begun(e)
        /\ Waits(c)' <=> Waits(c)
        /\ Joined(c)' <=> Joined(c)
        /\ Heard(c)' = Heard(c)
        /\ IsConnected(c)' <=> IsConnected(c)
        /\ Waits(c) => ~IsReady(c)
    BY <1>1 DEF handshakeVars, Begun, Waits, Joined, Heard, IsReady, IsConnected
  <1>3. QED
    BY <1>1, <1>2 DEF HandshakeAt

\* The client becomes ready: the message was the first, and the only one.
LEMMA AnsweringEndsHandshake ==
  ASSUME NEW c \in Conns, HandshakeAt(c), Typed, ServerInv, UNCHANGED serverVars,
         EndUpdateInitializes(c)
  PROVE  HandshakeAt(c)'
  <1>0. /\ clientTags \in [Conns -> SUBSET Tags]
        /\ clientPhase \in
             [Conns -> {"off", "idle", "app", "end", "disconnected", "left", "exited"}]
        /\ clientReceived[c] \in Seq(Messages) /\ toClient[c] \in Seq(Messages)
        /\ live \subseteq Entities /\ \A e \in live : toSend[e] \in Seq(Messages)
    BY DEF Typed, LinkTyped, ClientTyped, ServerTyped, ServerInv, TablesTyped
  <1>1. /\ clientPhase[c] = "end" /\ IsConnected(c)
        /\ HasMessage(clientReceived[c], "InitializeClient")
    BY DEF EndUpdateInitializes, IsFirst, HasMessage
  <1>2. /\ clientPhase'[c] = "idle" /\ IsReady(c)'
        /\ UNCHANGED <<clientReceived, toClient, clientEnd, live, conn, toSend>>
    BY <1>0 DEF EndUpdateInitializes, serverVars, ecs, link, IsReady
  <1>3. Waits(c)
    BY <1>1 DEF HandshakeAt, Waits, Joined
  <1>4. clientReceived[c] # <<>>
    BY <1>1 DEF HasMessage
  <1>5. ~HasMessage(toClient[c], "InitializeClient")
    BY <1>0, <1>3, <1>4, BeginsOnce DEF HandshakeAt, Heard
  <1>6. ASSUME NEW e \in live, conn[e] = c, clientEnd[c] = "open"
        PROVE  ~HasMessage(toSend[e], "InitializeClient")
    <2> DEFINE x == clientReceived[c]
               y == toClient[c]
               z == toSend[e]
    <2>1. Begins((x \o y) \o z)
      BY <1>3, <1>6 DEF HandshakeAt, Heard
    <2>2. x \in Seq(Messages) /\ y \in Seq(Messages) /\ z \in Seq(Messages) /\ x # <<>>
      BY <1>0, <1>4
    <2>3. (z = toSend[e]) /\ TRUE
      OBVIOUS
    <2> HIDE DEF x, y, z
    <2>4. (x \o y) \o z = x \o (y \o z)
      BY <2>2, ConcatAssociative
    <2>5. y \o z \in Seq(Messages)
      BY <2>2
    <2>6. ~HasMessage(y \o z, "InitializeClient")
      BY <2>1, <2>2, <2>4, <2>5, BeginsOnce
    <2>7. ~HasMessage(z, "InitializeClient")
      BY <2>2, <2>6, HasMessageConcat
    <2>8. QED
      BY <2>3, <2>7
  <1>7. QED
    BY <1>2, <1>5, <1>6 DEF HandshakeAt, Waits, Joined

\* A client that waits has nothing to send.
LEMMA EndUpdateKeepsHandshake ==
  ASSUME NEW c \in Conns, HandshakeAt(c), Typed, ServerInv, UNCHANGED serverVars,
         EndUpdateSends(c)
  PROVE  HandshakeAt(c)'
  <1>0. /\ clientTags \in [Conns -> SUBSET Tags]
        /\ clientPhase \in
             [Conns -> {"off", "idle", "app", "end", "disconnected", "left", "exited"}]
        /\ clientToSend \in [Conns -> Seq(Messages)] /\ toServer \in [Conns -> Seq(Messages)]
        /\ clientReceived[c] \in Seq(Messages) /\ toClient[c] \in Seq(Messages)
        /\ clientToSend[c] \in Seq(Messages) /\ toServer[c] \in Seq(Messages)
        /\ Len(toServer[c]) <= Capacity
    BY DEF Typed, LinkTyped, ClientTyped
  <1>1. /\ clientPhase[c] = "end" /\ clientPhase'[c] = "idle"
        /\ ~HasMessage(clientReceived[c], "InitializeClient")
        /\ UNCHANGED <<clientReceived, toClient, clientEnd, handshakeVars>>
        /\ IsReady(c)' <=> IsReady(c)
    BY <1>0 DEF EndUpdateSends, serverVars, ecs, handshakeVars, link, ClientSends, IsReady
  <1>2. /\ UNCHANGED <<live, conn, tags, toSend, received>>
        /\ \A e \in live : Begun(e)' <=> Begun(e)
        /\ Waits(c)' <=> Waits(c)
        /\ Joined(c)' <=> Joined(c)
        /\ Heard(c)' = Heard(c)
    BY <1>1 DEF handshakeVars, Begun, Waits, Joined, Heard
  <1>3. ASSUME Waits(c)
        PROVE  clientReceived[c] = <<>> /\ clientToSend'[c] = <<>> /\ toServer'[c] = <<>>
    <2>1. /\ toServer[c] = <<>> /\ clientToSend[c] = <<>> /\ Begins(Heard(c))
      BY <1>3 DEF HandshakeAt
    <2>2. clientReceived[c] = <<>>
      BY <1>0, <1>1, <2>1, BeginsOnce DEF Heard
    <2>3. CASE UNCHANGED <<clientToSend, link>>
      BY <2>1, <2>2, <2>3 DEF link
    <2>4. ASSUME NEW k \in SentCounts(toServer[c], serverEnd[c] # "closed", clientToSend[c]),
                 ClientSends(c, Take(clientToSend[c], k)),
                 clientToSend' = [clientToSend EXCEPT ![c] = Drop(@, k)]
          PROVE  clientToSend'[c] = <<>> /\ toServer'[c] = <<>>
      <3>1. k \in 0..Len(clientToSend[c])
        BY <1>0, <2>4, SentCountsBound
      <3>2. k = 0
        BY <2>1, <3>1
      <3>3. QED
        BY <1>0, <2>1, <2>4, <3>2, TakeNothing DEF ClientSends
    <2>5. QED
      BY <2>2, <2>3, <2>4 DEF EndUpdateSends
  <1>4. QED
    BY <1>1, <1>2, <1>3 DEF HandshakeAt

\* A process that ends closes its sockets, and its client leaves the loop.
LEMMA ExitKeepsHandshake ==
  ASSUME HandshakeInv, Typed, NEW c \in Conns, UNCHANGED serverVars, Exit(c), NEW b \in Conns
  PROVE  HandshakeAt(b)'
  <1>0. /\ clientPhase \in
             [Conns -> {"off", "idle", "app", "end", "disconnected", "left", "exited"}]
        /\ clientTags \in [Conns -> SUBSET Tags] /\ clientReceived \in [Conns -> Seq(Messages)]
        /\ clientToSend \in [Conns -> Seq(Messages)] /\ toClient \in [Conns -> Seq(Messages)]
        /\ HandshakeAt(b)
    BY HandshakeParts DEF Typed, LinkTyped, ClientTyped
  <1>1. UNCHANGED handshakeVars
    BY DEF serverVars, ecs, handshakeVars
  <1>2. CASE b = c
    <2>1. clientPhase'[c] = "exited"
      BY <1>0 DEF Exit
    <2>2. QED
      BY <1>2, <2>1, GoneKeepsHandshake
  <1>3. CASE b # c
    <2>1. /\ clientPhase'[b] = clientPhase[b] /\ clientTags'[b] = clientTags[b]
          /\ clientReceived'[b] = clientReceived[b] /\ clientToSend'[b] = clientToSend[b]
          /\ toServer'[b] = toServer[b]
      BY <1>0, <1>3 DEF Exit, CloseClientEnds
    <2>2. \/ toClient'[b] = toClient[b] /\ clientEnd'[b] = clientEnd[b]
          \/ toClient'[b] = <<>> /\ clientEnd'[b] = "closed"
      BY <1>0, <1>3 DEF Exit, CloseClientEnds
    <2>3. QED
      BY <1>0, <1>1, <2>1, <2>2, OthersKeepHandshake
  <1>4. QED
    BY <1>2, <1>3

\* The steps of client c on its own connection.
LEMMA ClientKeepsHandshake ==
  ASSUME HandshakeInv, QuietInv, ConnInv, Typed, ServerInv, UNCHANGED serverVars,
         NEW c \in Conns, NEW b \in Conns,
         \/ ConnectTo(c) \/ (\E d \in Conns : ConnectAgain(c, d)) \/ ConnectAgainFails(c)
         \/ ClientTick(c) \/ Disconnect(c)
  PROVE  HandshakeAt(b)'
  <1>0. /\ clientPhase \in
             [Conns -> {"off", "idle", "app", "end", "disconnected", "left", "exited"}]
        /\ clientTags \in [Conns -> SUBSET Tags] /\ clientReceived \in [Conns -> Seq(Messages)]
        /\ clientToSend \in [Conns -> Seq(Messages)] /\ toClient \in [Conns -> Seq(Messages)]
        /\ toServer \in [Conns -> Seq(Messages)]
        /\ clientEnd \in [Conns -> {"none", "open", "closed"}]
        /\ HandshakeAt(b) /\ HandshakeAt(c)
    BY HandshakeParts DEF Typed, LinkTyped, ClientTyped
  <1>1. UNCHANGED handshakeVars
    BY DEF serverVars, ecs, handshakeVars
  <1>2. CASE ConnectTo(c)
    <2>1. /\ clientPhase[c] = "off"
          /\ UNCHANGED <<toServer, toClient, clientReceived, clientToSend>>
          /\ clientPhase' = [clientPhase EXCEPT ![c] = "idle"]
          /\ clientTags' = [clientTags EXCEPT ![c] = {"Connected"}]
          /\ clientEnd' = [clientEnd EXCEPT ![c] = "open"]
      BY <1>2 DEF ConnectTo, Connect
    <2>2. CASE b = c
      BY <1>0, <2>1, <2>2, ConnectingBeginsHandshake
    <2>3. CASE b # c
      BY <1>0, <1>1, <2>1, <2>3, OthersKeepHandshake
    <2>4. QED
      BY <2>2, <2>3
  <1>3. ASSUME NEW d \in Conns, ConnectAgain(c, d) PROVE HandshakeAt(b)'
    <2>1. /\ clientPhase[d] = "off" /\ clientPhase[c] # "off"
          /\ UNCHANGED <<toServer, toClient>>
          /\ clientPhase' = [clientPhase EXCEPT ![c] = "left", ![d] = "idle"]
          /\ clientTags' = [clientTags EXCEPT ![c] = {}, ![d] = {"Connected"}]
          /\ clientReceived' = [clientReceived EXCEPT ![c] = <<>>]
          /\ clientToSend' = [clientToSend EXCEPT ![c] = <<>>]
          /\ clientEnd' = [clientEnd EXCEPT ![d] = "open"]
      BY <1>0, <1>3 DEF ConnectAgain, Connect, MayReconnect, ConnInv, UnclaimedIsOff
    <2>2. c # d
      BY <2>1
    <2>3. CASE b = d
      BY <1>0, <2>1, <2>2, <2>3, ConnectingBeginsHandshake
    <2>4. CASE b = c
      <3>1. clientPhase'[b] = "left"
        BY <1>0, <2>1, <2>2, <2>4
      <3>2. QED
        BY <3>1, GoneKeepsHandshake
    <2>5. CASE b # c /\ b # d
      BY <1>0, <1>1, <2>1, <2>5, OthersKeepHandshake
    <2>6. QED
      BY <2>3, <2>4, <2>5
  <1>4. CASE ConnectAgainFails(c) \/ Disconnect(c)
    <2>1. /\ clientPhase' = [clientPhase EXCEPT ![c] = "disconnected"]
          /\ clientTags' = [clientTags EXCEPT ![c] = {}]
          /\ clientReceived' = [clientReceived EXCEPT ![c] = <<>>]
          /\ clientToSend' = [clientToSend EXCEPT ![c] = <<>>]
          /\ UNCHANGED link
      BY <1>4 DEF ConnectAgainFails, Disconnect, HasDestroyFunc
    <2>2. CASE b = c
      <3>1. clientPhase'[b] = "disconnected"
        BY <1>0, <2>1, <2>2
      <3>2. QED
        BY <3>1, GoneKeepsHandshake
    <2>3. CASE b # c
      BY <1>0, <1>1, <2>1, <2>3, OthersKeepHandshake DEF link
    <2>4. QED
      BY <2>2, <2>3
  <1>5. CASE ClientTick(c)
    <2>1. CASE b = c
      BY <1>0, <1>5, <2>1, BeginUpdateKeepsHandshake, ApplicationKeepsHandshake,
         AnsweringEndsHandshake, EndUpdateKeepsHandshake DEF ClientTick
    <2>2. CASE b # c
      <3>1. /\ clientPhase'[b] = clientPhase[b] /\ clientTags'[b] = clientTags[b]
            /\ clientReceived'[b] = clientReceived[b] /\ clientToSend'[b] = clientToSend[b]
            /\ toServer'[b] = toServer[b] /\ toClient'[b] = toClient[b]
            /\ UNCHANGED clientEnd
        <4>1. CASE BeginUpdate(c)
          BY <1>0, <2>2, <4>1 DEF BeginUpdate, ClientReceives, link
        <4>2. CASE BeginUpdateDisconnects(c) \/ Application(c) \/ EndUpdateInitializes(c)
          BY <1>0, <2>2, <4>2 DEF BeginUpdateDisconnects, Application, EndUpdateInitializes, link
        <4>3. CASE EndUpdateSends(c)
          BY <1>0, <2>2, <4>3 DEF EndUpdateSends, ClientSends, link
        <4>4. QED
          BY <1>5, <4>1, <4>2, <4>3 DEF ClientTick
      <3>2. QED
        BY <1>0, <1>1, <3>1, OthersKeepHandshake
    <2>3. QED
      BY <2>1, <2>2
  <1>6. QED
    BY <1>2, <1>3, <1>4, <1>5

\* The handshake goes on as it should in every step of the session.
LEMMA NextHandshakeInv ==
  /\ HandshakeInv /\ QuietInv /\ ConnInv /\ TagInv /\ Typed /\ ServerInv /\ Spawns!SpawnInv
  /\ [Next]_vars
  => HandshakeInv'
  <1> SUFFICES ASSUME HandshakeInv, QuietInv, ConnInv, TagInv, Typed, ServerInv, Spawns!SpawnInv,
                      [Next]_vars
               PROVE  HandshakeInv'
    OBVIOUS
  <1>1. CASE ServerStep
    <2>1. UNCHANGED clientVars
      BY <1>1 DEF ServerStep
    <2>2. ASSUME \/ Start \/ Stop \/ DisconnectSystem \/ PendingDisconnectSystem
                 \/ ForgetNewConnections \/ AcceptedSocketFails \/ AcceptDone \/ ReceiveDone
                 \/ CreateNetworkEntity \/ (\E n \in Spawns!NetworkIds : DestroyNetworkEntity(n))
                 \/ EndUpdate \/ ReportDone \/ ReadyDone \/ InitializeDone \/ SendDone
                 \/ \E e \in Entities : DisconnectedClient(e)
          PROVE  HandshakeInv'
      <3>1. NoQueueWithoutEntity
        BY DEF QuietInv
      <3>2. /\ UNCHANGED <<toServer, toClient, clientEnd>> /\ live' \subseteq live
            /\ \A e \in live' :
                 conn'[e] = conn[e] /\ toSend'[e] = toSend[e] /\ received'[e] = received[e]
            /\ \A e \in live' : Begun(e)' <=> Begun(e)
            /\ \A e \in live' : "ClientIsReady" \in tags'[e] <=> "ClientIsReady" \in tags[e]
        BY <2>2, <3>1, PhasesMoveNothing
      <3>3. QED
        BY <2>1, <3>2, SameHandshake
    <2>3. CASE SendNewSpawnDespawn \/ SendSnapshots \/ \E id \in Registry!ClientIds :
               SendTcpMessage(id)
      BY <2>1, <2>3, BroadcastKeepsHandshake, SnapshotsKeepHandshake, AppKeepsHandshake
    <2>4. ASSUME NEW e \in Entities,
                 \/ AcceptConnection(e) \/ ReceiveTcpMessages(e) \/ ReceiveFails(e)
                 \/ SetClientReady(e) \/ InitializeNewClient(e) \/ SendTcpMessages(e)
          PROVE  HandshakeInv'
      BY <2>1, <2>4, AcceptKeepsHandshake, ReceiveKeepsHandshake, ReadyKeepsHandshake,
         InitializeKeepsHandshake, SendKeepsHandshake
    <2>5. QED
      BY <1>1, <2>2, <2>3, <2>4 DEF ServerStep, ServerNext, ServerTick, ServerApp
  <1>2. ASSUME NEW c \in Conns, ClientStep(c) \/ Breaks(c) PROVE HandshakeInv'
    <2>1. UNCHANGED serverVars
      BY <1>2 DEF ClientStep, Breaks
    <2>2. ASSUME NEW b \in Conns PROVE HandshakeAt(b)'
      <3>1. CASE Exit(c)
        BY <2>1, <3>1, ExitKeepsHandshake
      <3>2. CASE \/ ConnectTo(c) \/ (\E d \in Conns : ConnectAgain(c, d)) \/ ConnectAgainFails(c)
                 \/ ClientTick(c) \/ Disconnect(c)
        BY <2>1, <3>2, ClientKeepsHandshake
      <3>3. CASE Breaks(c)
        <4>1. HandshakeAt(b)
          BY HandshakeParts
        <4>2. /\ UNCHANGED <<clientVars, toServer, toClient>>
              /\ clientEnd'[b] = "open" => clientEnd[b] = "open"
          BY <3>3 DEF Breaks, Break, Typed, LinkTyped
        <4>3. QED
          BY <2>1, <4>1, <4>2, OthersKeepHandshake DEF clientVars, serverVars, ecs, handshakeVars
      <3>4. QED
        BY <1>2, <3>1, <3>2, <3>3 DEF ClientStep
    <2>3. QED
      BY <2>2 DEF HandshakeInv, WaitingHears, WaitingIsTold, JoinedHears, JoinedIsTold,
         HandshakeAt
  <1>3. CASE UNCHANGED vars
    BY <1>3, SameHandshake DEF vars, serverVars, ecs, link, Begun
  <1>4. QED
    BY <1>1, <1>2, <1>3 DEF Next, Finished

-----------------------------------------------------------------------------
(* What the application of a client has still to take.                     *)

\* The application of a client that is ready takes everything in its turn, unless
\* it connects again, or tries to, instead.
QueuesTaken ==
  \A c \in Conns \ inherited :
    ~(clientPhase[c] = "app" /\ IsReady(c)) /\ clientPhase[c] # "disconnected" =>
      spawnQueue[c] = <<>> /\ despawnQueue[c] = <<>>

\* No client has news in the initial state.
LEMMA InitQueuesTaken == Init => QueuesTaken
  BY DEF Init, ClientInit, QueuesTaken

\* Who hears the beginning of a session hears no spawns.
LEMMA BeginningHasNoNews ==
  ASSUME NEW s \in Seq(Messages), NEW t \in Seq(Messages), Begins(s \o t)
  PROVE  AllSpawned(s) = <<>> /\ AllDespawned(s) = <<>>
  <1>1. /\ s \o t \in Seq(Messages) /\ Len(s \o t) = Len(s) + Len(t)
        /\ \A i \in 1..Len(s) : (s \o t)[i] = s[i]
        /\ Len(s) \in Nat /\ Len(t) \in Nat
    OBVIOUS
  <1>2. \A i \in 1..Len(s) : SpawnsOf(s[i]) = <<>> /\ DespawnsOf(s[i]) = <<>>
    <2> SUFFICES ASSUME NEW i \in 1..Len(s) PROVE s[i].type # "SpawnDespawn"
      BY DEF SpawnsOf, DespawnsOf
    <2>1. s \o t # <<>>
      BY <1>1
    <2>2. (s \o t)[i].type \in {"InitializeClient", "Snapshot"}
      <3>1. CASE i = 1
        BY <2>1, <3>1 DEF Begins
      <3>2. CASE i # 1
        <4>1. i \in 2..Len(s \o t)
          BY <1>1, <3>2
        <4>2. QED
          BY <2>1, <4>1 DEF Begins
      <3>3. QED
        BY <3>1, <3>2
    <2>3. QED
      BY <1>1, <2>2
  <1>3. Spawns!Members(<<>>) = {}
    BY DEF Spawns!Members
  <1>4. UNION {Spawns!Members(SpawnsOf(s[k])) : k \in 1..Len(s)} = {}
    BY <1>2, <1>3
  <1>5. UNION {Spawns!Members(DespawnsOf(s[k])) : k \in 1..Len(s)} = {}
    BY <1>2, <1>3
  <1>6. \A q \in Seq(Spawns!NetworkIds) : Spawns!Members(q) = {} => q = <<>>
    <2> SUFFICES ASSUME NEW q \in Seq(Spawns!NetworkIds), q # <<>> PROVE Spawns!Members(q) # {}
      OBVIOUS
    <2>1. 1 \in 1..Len(q)
      OBVIOUS
    <2>2. q[1] \in Spawns!Members(q)
      BY <2>1 DEF Spawns!Members
    <2>3. QED
      BY <2>2
  <1>7. QED
    BY <1>4, <1>5, <1>6, AllSpawnedMembers, AllDespawnedMembers

\* Every step keeps the queues empty wherever the application is not next.
LEMMA NextQueuesTaken ==
  QueuesTaken /\ HandshakeInv' /\ Typed /\ Typed' /\ ConnInv /\ [Next]_vars => QueuesTaken'
  <1> SUFFICES ASSUME QueuesTaken, HandshakeInv', Typed, Typed', ConnInv, [Next]_vars
               PROVE  QueuesTaken'
    OBVIOUS
  <1>0. /\ clientPhase \in
             [Conns -> {"off", "idle", "app", "end", "disconnected", "left", "exited"}]
        /\ clientTags \in [Conns -> SUBSET Tags]
        /\ spawnQueue \in [Conns -> Seq(Spawns!NetworkIds)]
        /\ despawnQueue \in [Conns -> Seq(Spawns!NetworkIds)]
    BY DEF Typed, ClientTyped
  <1>1. CASE UNCHANGED clientVars
    BY <1>1 DEF clientVars, QueuesTaken, IsReady
  <1>2. ASSUME NEW c \in Conns, BeginUpdate(c) \/ BeginUpdateDisconnects(c) PROVE QueuesTaken'
    <2>1. /\ clientPhase[c] = "idle" /\ clientPhase' = [clientPhase EXCEPT ![c] = "app"]
          /\ spawnQueue' = [spawnQueue EXCEPT ![c] = @ \o AllSpawned(clientReceived'[c])]
          /\ despawnQueue' = [despawnQueue EXCEPT ![c] = @ \o AllDespawned(clientReceived'[c])]
          /\ inherited' = inherited
      BY <1>2 DEF BeginUpdate, BeginUpdateDisconnects, ReceiveSpawnDespawn
    <2>2. \A b \in Conns \ {c} : clientTags'[b] = clientTags[b]
      BY <1>0, <1>2 DEF BeginUpdate, BeginUpdateDisconnects
    <2>3. /\ clientPhase'[c] = "app"
          /\ c \notin inherited => spawnQueue[c] = <<>> /\ despawnQueue[c] = <<>>
      BY <1>0, <2>1 DEF QueuesTaken
    <2>4. ~IsReady(c)' =>
            AllSpawned(clientReceived'[c]) = <<>> /\ AllDespawned(clientReceived'[c]) = <<>>
      <3> SUFFICES ASSUME ~IsReady(c)'
                   PROVE  AllSpawned(clientReceived'[c]) = <<>>
                            /\ AllDespawned(clientReceived'[c]) = <<>>
        OBVIOUS
      <3>1. Begins(clientReceived'[c] \o toClient'[c])
        BY <2>3 DEF HandshakeInv, WaitingHears, Waits, Heard
      <3>2. clientReceived'[c] \in Seq(Messages) /\ toClient'[c] \in Seq(Messages)
        BY DEF Typed, LinkTyped, ClientTyped
      <3>3. QED
        BY <3>1, <3>2, BeginningHasNoNews
    <2>5. ASSUME NEW b \in Conns \ inherited', ~(clientPhase'[b] = "app" /\ IsReady(b)'),
                 clientPhase'[b] # "disconnected"
          PROVE  spawnQueue'[b] = <<>> /\ despawnQueue'[b] = <<>>
      <3>1. CASE b = c
        <4>1. ~IsReady(c)' /\ c \notin inherited
          BY <2>1, <2>3, <2>5, <3>1 DEF IsReady
        <4>2. spawnQueue'[c] = <<>> /\ despawnQueue'[c] = <<>>
          BY <1>0, <2>1, <2>3, <2>4, <4>1
        <4>3. QED
          BY <3>1, <4>2
      <3>2. CASE b # c
        BY <1>0, <2>1, <2>2, <2>5, <3>2 DEF QueuesTaken, IsReady
      <3>3. QED
        BY <3>1, <3>2
    <2>6. QED
      BY <2>5 DEF QueuesTaken
  <1>3. ASSUME NEW c \in Conns, Application(c) PROVE QueuesTaken'
    <2>1. /\ clientPhase[c] = "app" /\ clientPhase' = [clientPhase EXCEPT ![c] = "end"]
          /\ UNCHANGED <<clientTags, inherited>>
          /\ IF IsReady(c)
             THEN /\ spawnQueue' = [spawnQueue EXCEPT ![c] = <<>>]
                  /\ despawnQueue' = [despawnQueue EXCEPT ![c] = <<>>]
             ELSE UNCHANGED <<spawnQueue, despawnQueue>>
      BY <1>3 DEF Application
    <2>2. QED
      BY <1>0, <2>1 DEF QueuesTaken, IsReady
  <1>4. ASSUME NEW c \in Conns, EndUpdateInitializes(c) \/ EndUpdateSends(c) PROVE QueuesTaken'
    <2>1. /\ clientPhase[c] = "end" /\ clientPhase' = [clientPhase EXCEPT ![c] = "idle"]
          /\ \A b \in Conns \ {c} : clientTags'[b] = clientTags[b]
          /\ UNCHANGED <<spawnQueue, despawnQueue, inherited>>
      BY <1>0, <1>4 DEF EndUpdateInitializes, EndUpdateSends
    <2>2. QED
      BY <1>0, <2>1 DEF QueuesTaken, IsReady
  <1>5. ASSUME NEW c \in Conns, ConnectTo(c) \/ ConnectAgainFails(c) PROVE QueuesTaken'
    <2>1. /\ clientPhase[c] = "off" \/ clientPhase'[c] = "disconnected"
          /\ UNCHANGED <<spawnQueue, despawnQueue, inherited>>
          /\ \A b \in Conns \ {c} :
               clientTags'[b] = clientTags[b] /\ clientPhase'[b] = clientPhase[b]
      BY <1>0, <1>5 DEF ConnectTo, ConnectAgainFails, MayReconnect
    <2>2. QED
      BY <1>0, <2>1 DEF QueuesTaken, IsReady
  <1>6. ASSUME NEW c \in Conns, NEW d \in Conns, ConnectAgain(c, d) PROVE QueuesTaken'
    <2>1. /\ spawnQueue' = [spawnQueue EXCEPT ![c] = <<>>, ![d] = spawnQueue[c]]
          /\ despawnQueue' = [despawnQueue EXCEPT ![c] = <<>>, ![d] = despawnQueue[c]]
          /\ clientPhase' = [clientPhase EXCEPT ![c] = "left", ![d] = "idle"]
          /\ clientTags' = [clientTags EXCEPT ![c] = {}, ![d] = {"Connected"}]
          /\ inherited' = inherited \cup {b \in {d} : HoldsNews(c)}
      BY <1>6 DEF ConnectAgain
    <2>2. /\ inherited \subseteq inherited'
          /\ d \notin inherited' => spawnQueue[c] = <<>> /\ despawnQueue[c] = <<>>
      BY <2>1 DEF HoldsNews
    <2>3. \A b \in Conns \ inherited' :
            \/ spawnQueue'[b] = <<>> /\ despawnQueue'[b] = <<>>
            \/ /\ b # c /\ b # d
               /\ spawnQueue'[b] = spawnQueue[b]
               /\ despawnQueue'[b] = despawnQueue[b]
      BY <1>0, <2>1, <2>2
    <2>4. \A b \in Conns : b # c /\ b # d =>
            clientPhase'[b] = clientPhase[b] /\ clientTags'[b] = clientTags[b]
      BY <1>0, <2>1
    <2>5. QED
      BY <2>2, <2>3, <2>4 DEF QueuesTaken, IsReady
  <1>7. ASSUME NEW c \in Conns, Disconnect(c) \/ Exit(c) PROVE QueuesTaken'
    <2>1. /\ spawnQueue' = [spawnQueue EXCEPT ![c] = <<>>]
          /\ despawnQueue' = [despawnQueue EXCEPT ![c] = <<>>]
          /\ \A b \in Conns \ {c} :
               clientTags'[b] = clientTags[b] /\ clientPhase'[b] = clientPhase[b]
          /\ inherited' = inherited
      BY <1>0, <1>7 DEF Disconnect, Exit
    <2>2. QED
      BY <1>0, <2>1 DEF QueuesTaken, IsReady
  <1>8. QED
    BY <1>1, <1>2, <1>3, <1>4, <1>5, <1>6, <1>7
    DEF Next, ServerStep, ClientStep, ClientTick, Breaks, Finished, vars

-----------------------------------------------------------------------------
(* What clients and server hold of each other.                             *)

\* All that is known of connections and of what is on its way.
SessionInv == Typed /\ ServerInv /\ Spawns!SpawnInv /\ TagInv /\ ConnInv /\ QuietInv
  /\ HandshakeInv /\ QueuesTaken

\* SessionInv holds in every session.
THEOREM SpecSessionInv == Spec => []SessionInv
  <1>1. Init => SessionInv
    BY InitTyped, InitServerInv, InitSpawnInv, InitTagInv, InitConnInv, InitQuietInv,
       InitHandshakeInv,
       InitQueuesTaken DEF SessionInv
  <1>2. SessionInv /\ [Next]_vars => SessionInv'
    BY NextTyped, NextServerInv, NextSpawnInv, NextTagInv, NextConnInv, NextQuietInv,
       NextHandshakeInv,
       NextQueuesTaken DEF SessionInv
  <1>3. QED
    BY <1>1, <1>2, PTL DEF Spec

\* What HandshakeInv says of a stream, said of all that a client hears.
LEMMA InvInitializedFirst == SessionInv => InitializedFirst
  BY DEF SessionInv, HandshakeInv, WaitingHears, JoinedHears, InitializedFirst, Waits, Joined,
     Begins, Heard

\* A client held for ready has answered, which only a ready client does.
LEMMA InvReadyAgreement == SessionInv => ReadyAgreement
  <1> SUFFICES ASSUME SessionInv, NEW c \in Conns, NEW e \in Peers(c),
                      "ClientIsReady" \in tags[e], ~IsReady(c)
               PROVE  clientPhase[c] \in {"disconnected", "left", "exited"}
    BY DEF ReadyAgreement
  <1>1. e \in live /\ conn[e] = c
    BY DEF Peers
  <1>2. clientPhase[c] # "off"
    BY <1>1 DEF SessionInv, ConnInv, EntitiesHoldConns, UnusedConnections
  <1>3. clientPhase[c] \notin {"idle", "app", "end"}
    BY <1>1 DEF SessionInv, HandshakeInv, WaitingIsTold, Waits
  <1>4. QED
    BY <1>2, <1>3 DEF SessionInv, Typed, ClientTyped

\* Only a ready client between beginUpdate and its application has news, or one
\* that did not get to its application.
LEMMA InvNewsAreTaken == SessionInv => NewsAreTaken
  BY DEF SessionInv, QueuesTaken, NewsAreTaken, HoldsNews

\* In every session a client hears nothing before its
\* InitializeClientMessage, and hears that once: initializeNewClient, the
\* broadcast and the sends never reorder or repeat it.
THEOREM SpecInitializedFirst == Spec => []InitializedFirst
  BY SpecSessionInv, InvInitializedFirst, PTL

\* In every session the server holds a client for ready only if the client
\* does so too, or is gone: setClientReady never runs ahead of the client.
THEOREM SpecReadyAgreement == Spec => []ReadyAgreement
  BY SpecSessionInv, InvReadyAgreement, PTL

\* In every session the queues of a SpawnDespawnManager hold something only from
\* the receive of a ready client to its application, unless connectTo is called
\* between the two.
THEOREM SpecNewsAreTaken == Spec => []NewsAreTaken
  BY SpecSessionInv, InvNewsAreTaken, PTL

-----------------------------------------------------------------------------
(* Clients as the server counts them.                                      *)

\* The answer of a client is handled in the tick it arrives, and its entity
\* was not disconnected.
AnswersAreHandled ==
  \A e \in live : "WaitingClientIsReady" \in tags[e] /\ SaidReady(e) =>
    /\ "Disconnected" \notin tags[e]
    /\ phase \in {"receive", "app", "report", "ready"}
    /\ phase = "ready" => e \in todo

\* An entity is registered from the beginning of its handshake until its
\* disconnection is reported.
BegunIsRegistered ==
  phase # "stopped" => \A e \in live :
    /\ e \in registered => Begun(e)
    /\ Begun(e) /\ "Disconnected" \notin tags[e] => e \in registered

AnswerInv == AnswersAreHandled /\ BegunIsRegistered

\* No client has answered in the initial state.
LEMMA InitAnswerInv == Init => AnswerInv
  BY DEF Init, ServerInit, AnswerInv, AnswersAreHandled, BegunIsRegistered

\* The two lookups lead to each other.
InverseLookups ==
  /\ \A e \in registered :
       /\ Registry!GetClientId(e) \in DOMAIN clientEntityLookup
       /\ Registry!GetEntity(Registry!GetClientId(e)) = e
  /\ \A id \in DOMAIN clientEntityLookup :
       /\ Registry!GetEntity(id) \in registered
       /\ Registry!GetClientId(Registry!GetEntity(id)) = id

\* In the registry of a server the lookups are inverse.
LEMMA LookupsAreInverse == ServerInv => InverseLookups
  BY RegistryLookups DEF InverseLookups

\* What removeClientId and addClientId do to the way from an id to its entity.
LEMMA UnregisterLookups ==
  ASSUME ServerInv, ServerInv', NEW e \in Entities, e \in registered,
         Registry!RemoveClientId(Registry!GetClientId(e)), UNCHANGED nextClientId
  PROVE  /\ registered' = registered \ {e}
         /\ Registry!GetClientId(e) \in DOMAIN clientEntityLookup
         /\ DOMAIN clientEntityLookup' = DOMAIN clientEntityLookup \ {Registry!GetClientId(e)}
         /\ \A id \in DOMAIN clientEntityLookup' :
              Registry!GetEntity(id)' = Registry!GetEntity(id)
  <1> DEFINE gone == entityClientLookup[e]
  <1>1. Registry!GetClientId(e) = gone /\ gone \in DOMAIN clientEntityLookup
    BY RegistryLookups DEF Registry!GetClientId, registered
  <1>2. registered' = registered \ {e}
    BY UnregisterEffect
  <1>3. \A d \in registered' : entityClientLookup'[d] = entityClientLookup[d]
    <2>1. entityClientLookup' = Registry!ForgetOwner(clientEntityLookup[gone])
      BY <1>1 DEF Registry!RemoveClientId
    <2>2. QED
      BY <1>2, <2>1 DEF Registry!ForgetOwner, Registry!Erase, registered
  <1>4. \A id \in DOMAIN clientEntityLookup' :
          /\ Registry!GetEntity(id)' \in registered'
          /\ Registry!GetClientId(Registry!GetEntity(id))' = id
    <2>1. InverseLookups'
      BY LookupsAreInverse, PTL
    <2>2. QED
      BY <2>1 DEF InverseLookups
  <1>5. ASSUME NEW id \in DOMAIN clientEntityLookup'
        PROVE  /\ id \in DOMAIN clientEntityLookup /\ id # gone
               /\ Registry!GetEntity(id)' = Registry!GetEntity(id)
    <2> DEFINE d == Registry!GetEntity(id)'
    <2>1. d \in registered' /\ d \in registered /\ d # e /\ entityClientLookup'[d] = id
      BY <1>2, <1>4 DEF Registry!GetClientId, registered
    <2> HIDE DEF d
    <2>2. Registry!GetClientId(d) = id
      BY <1>3, <2>1 DEF Registry!GetClientId, registered
    <2>3. id \in DOMAIN clientEntityLookup /\ Registry!GetEntity(id) = d
      BY <2>1, <2>2, RegistryLookups
    <2>4. id # gone
      BY <1>1, <2>1, <2>3, RegistryLookups
    <2>5. QED
      BY <2>3, <2>4 DEF d
  <1>6. ASSUME NEW id \in DOMAIN clientEntityLookup, id # gone
        PROVE  id \in DOMAIN clientEntityLookup'
    <2> DEFINE d == Registry!GetEntity(id)
    <2>1. d \in registered /\ Registry!GetClientId(d) = id
      BY RegistryLookups
    <2> HIDE DEF d
    <2>2. d # e
      BY <1>1, <1>6, <2>1
    <2>3. entityClientLookup'[d] = id /\ d \in registered'
      BY <1>2, <1>3, <2>1, <2>2 DEF Registry!GetClientId, registered
    <2>4. \A f \in registered' : Registry!GetClientId(f)' \in DOMAIN clientEntityLookup'
      <3>1. InverseLookups'
        BY LookupsAreInverse, PTL
      <3>2. QED
        BY <3>1 DEF InverseLookups
    <2>5. \A f \in registered' : entityClientLookup'[f] \in DOMAIN clientEntityLookup'
      BY <2>4 DEF Registry!GetClientId, registered
    <2>6. QED
      BY <2>3, <2>5
  <1>7. QED
    BY <1>1, <1>2, <1>5, <1>6

\* A registered entity gets an id nobody has, and everyone keeps theirs.
LEMMA RegisterLookups ==
  ASSUME ServerInv, ServerInv', NEW e \in Entities, e \notin registered,
         nextClientId \in Registry!ClientIds, Registry!AddClientId(nextClientId, e),
         nextClientId' = nextClientId + 1
  PROVE  /\ registered' = registered \cup {e}
         /\ nextClientId \notin DOMAIN clientEntityLookup
         /\ DOMAIN clientEntityLookup' = DOMAIN clientEntityLookup \cup {nextClientId}
         /\ \A id \in DOMAIN clientEntityLookup : Registry!GetEntity(id)' = Registry!GetEntity(id)
         /\ \A id : id = nextClientId => Registry!GetEntity(id)' = e
  <1>1. registered' = registered \cup {e}
    BY RegisterEffect
  <1>2. nextClientId \in Nat /\ \A id \in DOMAIN clientEntityLookup :
          id < nextClientId /\ id \in Nat
    BY RegistryLookups, ServerAssumption DEF Registry!ClientIds, ServerAssumption
  <1>3. nextClientId \notin DOMAIN clientEntityLookup
    BY <1>2
  <1>4. /\ clientEntityLookup' =
             Registry!InsertOrAssign(clientEntityLookup, nextClientId, Len(entities) + 1)
        /\ entities' = Append(entities, e)
        /\ entities \in Seq(Entities)
        /\ \A id \in DOMAIN clientEntityLookup : clientEntityLookup[id] \in 1..Len(entities)
    BY DEF Registry!AddClientId, ServerInv, Facts!RegistryInv, Facts!TypeOK, Facts!IsMap
  <1>5. DOMAIN clientEntityLookup' = DOMAIN clientEntityLookup \cup {nextClientId}
    BY <1>4 DEF Registry!InsertOrAssign
  <1>6. \A id \in DOMAIN clientEntityLookup : clientEntityLookup'[id] = clientEntityLookup[id]
    BY <1>2, <1>3, <1>4 DEF Registry!InsertOrAssign
  <1>7. clientEntityLookup'[nextClientId] = Len(entities) + 1
    BY <1>4 DEF Registry!InsertOrAssign
  <1>8. \A id \in DOMAIN clientEntityLookup : Registry!GetEntity(id)' = Registry!GetEntity(id)
    <2> SUFFICES ASSUME NEW id \in DOMAIN clientEntityLookup
                 PROVE  entities'[clientEntityLookup'[id]] = entities[clientEntityLookup[id]]
      BY <1>5 DEF Registry!GetEntity
    <2>1. clientEntityLookup[id] \in 1..Len(entities)
      BY <1>4
    <2>2. QED
      BY <1>4, <1>6, <2>1
  <1>9. ASSUME NEW id, id = nextClientId PROVE Registry!GetEntity(id)' = e
    <2>1. entities'[Len(entities) + 1] = e
      BY <1>4
    <2>2. QED
      BY <1>5, <1>7, <1>9, <2>1 DEF Registry!GetEntity
  <1>10. QED
    BY <1>1, <1>3, <1>5, <1>8, <1>9

\* Steps that change neither tags nor messages of the entities that stay, nor the
\* registry, where no answer is pending or none of its conditions changes.
LEMMA StayingKeepsAnswers ==
  ASSUME AnswerInv, ServerInv, UNCHANGED <<registryVars, live, tags, received>>,
         \/ UNCHANGED <<phase, todo>>
         \/ phase \notin {"stopped", "receive", "app", "report", "ready"} /\ phase' # "stopped"
         \/ phase \in {"receive", "app"} /\ phase' \in {"app", "report"}
         \/ phase = "report" /\ phase' = "ready" /\ todo' = With("WaitingClientIsReady")
         \/ phase = "ready" /\ todo = {} /\ phase' # "stopped"
  PROVE  AnswerInv'
  <1>1. /\ registered' = registered
        /\ \A e \in live : (Begun(e)' <=> Begun(e)) /\ (SaidReady(e)' <=> SaidReady(e))
    BY SameRegistry DEF Begun, SaidReady
  <1>2. AnswersAreHandled'
    BY <1>1 DEF AnswerInv, AnswersAreHandled, With
  <1>3. BegunIsRegistered'
    BY <1>1 DEF AnswerInv, BegunIsRegistered
  <1>4. QED
    BY <1>2, <1>3 DEF AnswerInv

\* The steps of the server that visit no entity.
LEMMA PhasesKeepAnswers ==
  ASSUME AnswerInv, TagInv, ServerInv,
         \/ Start \/ AcceptedSocketFails \/ AcceptDone \/ ReceiveDone \/ ServerApp \/ EndUpdate
         \/ ReportDone \/ ReadyDone \/ InitializeDone \/ SendNewSpawnDespawn \/ SendSnapshots
         \/ SendDone
  PROVE  AnswerInv'
  <1>1. CASE Start
    <2>1. live' = {}
      BY <1>1 DEF Start, ecs, TagInv, StoppedIsEmpty
    <2>2. QED
      BY <2>1 DEF AnswerInv, AnswersAreHandled, BegunIsRegistered
  <1>2. CASE AcceptedSocketFails \/ ServerApp
    <2>1. UNCHANGED <<registryVars, live, tags, received, phase, todo>>
      BY <1>2 DEF AcceptedSocketFails, ServerApp, CreateNetworkEntity, DestroyNetworkEntity,
                  SendTcpMessage, ecs
    <2>2. QED
      BY <2>1, StayingKeepsAnswers
  <1>3. CASE \/ AcceptDone \/ ReceiveDone \/ EndUpdate \/ ReportDone \/ ReadyDone
             \/ InitializeDone \/ SendNewSpawnDespawn \/ SendSnapshots \/ SendDone
    <2>1. UNCHANGED <<registryVars, live, tags, received>>
      BY <1>3 DEF AcceptDone, ReceiveDone, EndUpdate, ReportDone, ReadyDone, InitializeDone,
                  SendNewSpawnDespawn, SendSnapshots, SendDone, ecs
    <2>2. CASE AcceptDone \/ InitializeDone \/ SendNewSpawnDespawn \/ SendSnapshots \/ SendDone
      <3>1. phase \notin {"stopped", "receive", "app", "report", "ready"} /\ phase' # "stopped"
        BY <2>2 DEF AcceptDone, InitializeDone, SendNewSpawnDespawn, SendSnapshots, SendDone,
           Enter
      <3>2. QED
        BY <2>1, <3>1, StayingKeepsAnswers
    <2>3. CASE ReceiveDone \/ EndUpdate
      <3>1. phase \in {"receive", "app"} /\ phase' \in {"app", "report"}
        BY <2>3 DEF ReceiveDone, EndUpdate, Enter
      <3>2. QED
        BY <2>1, <3>1, StayingKeepsAnswers
    <2>4. CASE ReportDone
      <3>1. phase = "report" /\ phase' = "ready" /\ todo' = With("WaitingClientIsReady")
        BY <2>4 DEF ReportDone, Enter
      <3>2. QED
        BY <2>1, <3>1, StayingKeepsAnswers
    <2>5. CASE ReadyDone
      <3>1. phase = "ready" /\ todo = {} /\ phase' # "stopped"
        BY <2>5 DEF ReadyDone, Enter
      <3>2. QED
        BY <2>1, <3>1, StayingKeepsAnswers
    <2>6. QED
      BY <1>3, <2>2, <2>3, <2>4, <2>5
  <1>4. QED
    BY <1>1, <1>2, <1>3

\* Connections that begin and end.
LEMMA ConnectionsKeepAnswers ==
  ASSUME AnswerInv, TagInv, ServerInv,
         \/ Stop \/ DisconnectSystem \/ PendingDisconnectSystem \/ ForgetNewConnections
         \/ \E e \in Entities : AcceptConnection(e)
  PROVE  AnswerInv'
  <1>0. live \subseteq Entities /\ tags \in [Entities -> SUBSET Tags]
    BY DEF ServerInv, TablesTyped
  <1>1. CASE Stop
    <2>1. live' = {}
      BY <1>1 DEF Stop, DestroyEntities
    <2>2. QED
      BY <2>1 DEF AnswerInv, AnswersAreHandled, BegunIsRegistered
  <1>2. CASE DisconnectSystem
    <2>1. PICK es : DestroyEntities(es) /\ phase = "idle" /\ phase' = "pending"
                 /\ UNCHANGED registryVars
      BY <1>2 DEF DisconnectSystem, Enter
    <2>2. /\ live' = live \ es
          /\ \A e \in live' : tags'[e] = tags[e] /\ received'[e] = received[e]
      BY <1>0, <2>1 DEF DestroyEntities
    <2>3. /\ registered' = registered
          /\ \A e \in live' : (Begun(e)' <=> Begun(e)) /\ (SaidReady(e)' <=> SaidReady(e))
      BY <2>1, <2>2, SameRegistry DEF Begun, SaidReady
    <2>4. QED
      BY <2>1, <2>2, <2>3 DEF AnswerInv, AnswersAreHandled, BegunIsRegistered
  <1>3. CASE PendingDisconnectSystem
    <2>1. /\ phase = "pending" /\ phase' = "forget" /\ UNCHANGED <<live, received, registryVars>>
          /\ tags' = [e \in Entities |->
               IF e \in With("PendingDisconnect") \cap With("Connected")
               THEN (tags[e] \ {"PendingDisconnect", "Connected"}) \cup {"Disconnected"}
               ELSE tags[e]]
      BY <1>3 DEF PendingDisconnectSystem, Enter
    <2>2. \A e \in live :
            /\ "WaitingClientIsReady" \in tags'[e] <=> "WaitingClientIsReady" \in tags[e]
            /\ "ClientIsReady" \in tags'[e] <=> "ClientIsReady" \in tags[e]
            /\ "Disconnected" \in tags[e] => "Disconnected" \in tags'[e]
      BY <1>0, <2>1
    <2>3. /\ registered' = registered
          /\ \A e \in live : (Begun(e)' <=> Begun(e)) /\ (SaidReady(e)' <=> SaidReady(e))
      BY <2>1, <2>2, SameRegistry DEF Begun, SaidReady
    <2>4. QED
      BY <2>1, <2>2, <2>3 DEF AnswerInv, AnswersAreHandled, BegunIsRegistered
  <1>4. CASE ForgetNewConnections
    <2>1. /\ phase = "forget" /\ phase' = "accept" /\ UNCHANGED <<live, received, registryVars>>
          /\ tags' = [e \in Entities |-> tags[e] \ {"NewConnection"}]
      BY <1>4 DEF ForgetNewConnections, NoLongerNew, Enter
    <2>2. \A e \in live :
            /\ "WaitingClientIsReady" \in tags'[e] <=> "WaitingClientIsReady" \in tags[e]
            /\ "ClientIsReady" \in tags'[e] <=> "ClientIsReady" \in tags[e]
            /\ "Disconnected" \in tags[e] <=> "Disconnected" \in tags'[e]
      BY <1>0, <2>1
    <2>3. /\ registered' = registered
          /\ \A e \in live : (Begun(e)' <=> Begun(e)) /\ (SaidReady(e)' <=> SaidReady(e))
      BY <2>1, <2>2, SameRegistry DEF Begun, SaidReady
    <2>4. QED
      BY <2>1, <2>2, <2>3 DEF AnswerInv, AnswersAreHandled, BegunIsRegistered
  <1>5. ASSUME NEW e \in Entities, AcceptConnection(e) PROVE AnswerInv'
    <2>1. /\ phase = "accept" /\ e \notin live /\ live' = live \cup {e}
          /\ tags' = [tags EXCEPT ![e] = {"NewConnection", "Connected"}]
          /\ UNCHANGED <<phase, todo, received, registryVars>>
      BY <1>5 DEF AcceptConnection
    <2>2. e \notin registered
      BY <2>1 DEF ServerInv, RegisteredLive
    <2>3. /\ registered' = registered /\ ~Begun(e)' /\ "WaitingClientIsReady" \notin tags'[e]
          /\ \A d \in live : /\ tags'[d] = tags[d] /\ (Begun(d)' <=> Begun(d))
                             /\ SaidReady(d)' <=> SaidReady(d)
      BY <1>0, <2>1, SameRegistry DEF Begun, SaidReady
    <2>4. QED
      BY <2>1, <2>2, <2>3 DEF AnswerInv, AnswersAreHandled, BegunIsRegistered
  <1>6. QED
    BY <1>1, <1>2, <1>3, <1>4, <1>5

\* The visit of one entity by a loop of the server.
LEMMA VisitsKeepAnswers ==
  ASSUME AnswerInv, TagInv, QuietInv, Typed, ServerInv, ServerInv', NEW e \in Entities,
         \/ ReceiveTcpMessages(e) \/ ReceiveFails(e) \/ DisconnectedClient(e)
         \/ SetClientReady(e) \/ InitializeNewClient(e) \/ SendTcpMessages(e)
  PROVE  AnswerInv'
  <1>0. /\ live \subseteq Entities /\ tags \in [Entities -> SUBSET Tags]
        /\ received \in [Entities -> Seq(Messages)] /\ todo \subseteq live
    BY DEF ServerInv, TablesTyped, Typed, ServerTyped
  <1>1. /\ e \in todo /\ e \in live /\ todo' = todo \ {e} /\ UNCHANGED <<phase, live>>
    BY <1>0 DEF ReceiveTcpMessages, ReceiveFails, DisconnectedClient, SetClientReady,
                InitializeNewClient, SendTcpMessages, Visited, ecs
  <1>2. CASE ReceiveTcpMessages(e) \/ ReceiveFails(e)
    <2>1. /\ phase = "receive" /\ UNCHANGED registryVars
          /\ \A d \in live \ {e} : received'[d] = received[d]
          /\ \A d \in live, t \in Tags \ {"PendingDisconnect"} : t \in tags'[d] <=> t \in tags[d]
      <3>1. CASE ReceiveTcpMessages(e)
        BY <1>0, <3>1 DEF ReceiveTcpMessages
      <3>2. CASE ReceiveFails(e)
        BY <1>0, <3>2 DEF ReceiveFails, Failed
      <3>3. QED
        BY <1>2, <3>1, <3>2
    <2>2. "Disconnected" \notin tags[e]
      BY <1>1, <2>1 DEF TagInv, LoopsOverTags, TagsExclusive
    <2>3. /\ registered' = registered
          /\ \A d \in live : Begun(d)' <=> Begun(d)
          /\ \A d \in live \ {e} : SaidReady(d)' <=> SaidReady(d)
      BY <2>1, SameRegistry DEF Begun, SaidReady, Tags
    <2>4. AnswersAreHandled'
      BY <1>1, <2>1, <2>2, <2>3 DEF AnswerInv, AnswersAreHandled, Tags
    <2>5. BegunIsRegistered'
      BY <1>1, <2>1, <2>3 DEF AnswerInv, BegunIsRegistered, Tags
    <2>6. QED
      BY <2>4, <2>5 DEF AnswerInv
  <1>3. CASE DisconnectedClient(e)
    <2>1. phase = "report" /\ UNCHANGED <<tags, received>> /\ "Disconnected" \in tags[e]
      BY <1>1, <1>3 DEF DisconnectedClient, ecs, TagInv, LoopsOverTags
    <2>2. registered' = registered \/ registered' = registered \ {e}
      BY <1>3, RegisteredHasId, UnregisterEffect DEF DisconnectedClient, registry, registered
    <2>3. \A d \in live : (Begun(d)' <=> Begun(d)) /\ (SaidReady(d)' <=> SaidReady(d))
      BY <2>1 DEF Begun, SaidReady
    <2>4. QED
      BY <1>1, <2>1, <2>2, <2>3 DEF AnswerInv, AnswersAreHandled, BegunIsRegistered
  <1>4. CASE SetClientReady(e)
    <2>1. /\ phase = "ready" /\ UNCHANGED <<received, registryVars>>
          /\ IF SaidReady(e)
             THEN tags' = [tags EXCEPT ![e] = (@ \ {"WaitingClientIsReady"})
               \cup {"ClientIsReady"}]
             ELSE UNCHANGED tags
      BY <1>4 DEF SetClientReady
    <2>2. Begun(e)
      BY <1>1, <2>1 DEF TagInv, LoopsOverTags, Begun
    <2>3. /\ registered' = registered
          /\ \A d \in live : /\ Begun(d)' <=> Begun(d)
                             /\ SaidReady(d)' <=> SaidReady(d)
                             /\ "Disconnected" \in tags'[d] <=> "Disconnected" \in tags[d]
          /\ \A d \in live \ {e} : tags'[d] = tags[d]
          /\ SaidReady(e) => "WaitingClientIsReady" \notin tags'[e]
      BY <1>0, <1>1, <2>1, <2>2, SameRegistry DEF Begun, SaidReady
    <2>4. QED
      BY <1>1, <2>1, <2>3 DEF AnswerInv, AnswersAreHandled, BegunIsRegistered
  <1>5. CASE InitializeNewClient(e)
    <2>1. /\ phase = "initialize" /\ UNCHANGED received
          /\ tags' = [tags EXCEPT ![e] = @ \cup {"WaitingClientIsReady"}]
      BY <1>5 DEF InitializeNewClient
    <2>2. received[e] = <<>>
      BY <1>1, <2>1 DEF TagInv, LoopsOverTags, QuietInv, NotBegunIsQuiet
    <2>3. registered' = registered \cup {e}
      <3>1. Registry!AddClientId(nextClientId, e)
        BY <1>5 DEF InitializeNewClient
      <3>2. QED
        BY <3>1 DEF Registry!AddClientId, Registry!InsertOrAssign, registered
    <2>4. /\ Begun(e)' /\ ~SaidReady(e)'
          /\ \A d \in live \ {e} : /\ tags'[d] = tags[d]
                                   /\ Begun(d)' <=> Begun(d)
                                   /\ SaidReady(d)' <=> SaidReady(d)
      BY <1>0, <1>1, <2>1, <2>2 DEF Begun, SaidReady, HasMessage
    <2>5. QED
      BY <1>1, <2>1, <2>3, <2>4 DEF AnswerInv, AnswersAreHandled, BegunIsRegistered
  <1>6. CASE SendTcpMessages(e)
    <2>1. /\ phase = "send" /\ UNCHANGED <<received, registryVars>>
          /\ \A d \in live, t \in Tags \ {"PendingDisconnect"} : t \in tags'[d] <=> t \in tags[d]
      BY <1>0, <1>6 DEF SendTcpMessages
    <2>2. /\ registered' = registered
          /\ \A d \in live : (Begun(d)' <=> Begun(d)) /\ (SaidReady(d)' <=> SaidReady(d))
      BY <2>1, SameRegistry DEF Begun, SaidReady, Tags
    <2>3. QED
      BY <1>1, <2>1, <2>2 DEF AnswerInv, AnswersAreHandled, BegunIsRegistered, Tags
  <1>7. QED
    BY <1>2, <1>3, <1>4, <1>5, <1>6

\* An answer never waits for a second tick.
LEMMA NextAnswerInv ==
  AnswerInv /\ TagInv /\ QuietInv /\ Typed /\ ServerInv /\ ServerInv' /\ [Next]_vars => AnswerInv'
  <1> SUFFICES ASSUME AnswerInv, TagInv, QuietInv, Typed, ServerInv, ServerInv', [Next]_vars
               PROVE  AnswerInv'
    OBVIOUS
  <1>1. CASE ServerNext
    <2>1. CASE \/ Start \/ AcceptedSocketFails \/ AcceptDone \/ ReceiveDone \/ ServerApp
               \/ EndUpdate
               \/ ReportDone \/ ReadyDone \/ InitializeDone \/ SendNewSpawnDespawn
               \/ SendSnapshots
               \/ SendDone
      BY <2>1, PhasesKeepAnswers
    <2>2. CASE \/ Stop \/ DisconnectSystem \/ PendingDisconnectSystem \/ ForgetNewConnections
               \/ \E e \in Entities : AcceptConnection(e)
      BY <2>2, ConnectionsKeepAnswers
    <2>3. ASSUME NEW e \in Entities,
                 \/ ReceiveTcpMessages(e) \/ ReceiveFails(e) \/ DisconnectedClient(e)
                 \/ SetClientReady(e) \/ InitializeNewClient(e) \/ SendTcpMessages(e)
          PROVE  AnswerInv'
      BY <2>3, VisitsKeepAnswers
    <2>4. QED
      BY <1>1, <2>1, <2>2, <2>3 DEF ServerNext, ServerTick
  <1>2. CASE UNCHANGED serverVars
    BY <1>2, StayingKeepsAnswers DEF serverVars, ecs, registryVars
  <1>3. QED
    BY <1>1, <1>2 DEF Next, ServerStep, ClientStep, Breaks, Finished, vars

-----------------------------------------------------------------------------
(* The two lists for the application.                                      *)

NoneTwice(s) == \A i, j \in 1..Len(s) : s[i] = s[j] => i = j

\* An element put at the end of a list that does not have it.
LEMMA AppendOther ==
  ASSUME NEW S, NEW s \in Seq(S), NEW x \in S
  PROVE  /\ Spawns!Members(Append(s, x)) = Spawns!Members(s) \cup {x}
         /\ NoneTwice(s) /\ x \notin Spawns!Members(s) => NoneTwice(Append(s, x))
  <1>1. /\ Len(Append(s, x)) = Len(s) + 1 /\ Append(s, x)[Len(s) + 1] = x
        /\ \A i \in 1..Len(s) : Append(s, x)[i] = s[i]
        /\ Len(s) \in Nat
    OBVIOUS
  <1> DEFINE t == Append(s, x)
             n == Len(s)
  <1>2. /\ n \in Nat /\ Len(t) = n + 1 /\ t[n + 1] = x /\ \A i \in 1..n : t[i] = s[i]
    BY <1>1
  <1> HIDE DEF t
  <1>3. Spawns!Members(t) = Spawns!Members(s) \cup {x}
    BY <1>2 DEF Spawns!Members
  <1>4. ASSUME NoneTwice(s), x \notin Spawns!Members(s) PROVE NoneTwice(t)
    BY <1>2, <1>4 DEF NoneTwice, Spawns!Members
  <1>5. QED
    BY <1>3, <1>4 DEF t

\* What was reported gone in this tick has no entity, what was reported new has
\* one that is ready.
ReportedAreGone ==
  phase \in {"report", "ready"} =>
    \A id \in Spawns!Members(disconnectedClientIds) : id \notin DOMAIN clientEntityLookup

ReportedAreReady ==
  phase = "ready" => \A id \in Spawns!Members(newClientIds) :
    /\ id \in DOMAIN clientEntityLookup
    /\ "ClientIsReady" \in tags[Registry!GetEntity(id)]

ListsInv ==
  /\ newClientIds \in Seq(Registry!ClientIds)
  /\ NoneTwice(newClientIds) /\ NoneTwice(disconnectedClientIds)
  /\ phase # "report" =>
       Spawns!Members(newClientIds) \cap Spawns!Members(disconnectedClientIds) = {}
  /\ ReportedAreGone
  /\ ReportedAreReady

\* The lists for the application are empty in the initial state.
LEMMA InitListsInv == Init => ListsInv
  BY DEF Init, ServerInit, ListsInv, NoneTwice, Spawns!Members, ReportedAreGone, ReportedAreReady

\* Steps that report nothing.
LEMMA SilentStepsKeepLists ==
  ASSUME ListsInv, UNCHANGED events,
         \/ UNCHANGED <<phase, clientEntityLookup, entities, tags>>
         \/ phase # "report" /\ phase' \notin {"report", "ready"}
  PROVE  ListsInv'
  BY DEF ListsInv, events, ReportedAreGone, ReportedAreReady, NoneTwice, Registry!GetEntity

\* A client is reported disconnected while it is registered, for the last time.
LEMMA DisconnectionsKeepLists ==
  ASSUME ListsInv, Typed, ServerInv, ServerInv', NEW e \in Entities, DisconnectedClient(e)
  PROVE  ListsInv'
  <1>1. phase = "report" /\ UNCHANGED <<phase, newClientIds, tags, nextClientId>>
    BY DEF DisconnectedClient, Visited, ecs
  <1>2. disconnectedClientIds \in Seq(Registry!ClientIds)
    BY DEF Typed, ServerTyped
  <1>3. CASE e \in registered
    <2> DEFINE id == Registry!GetClientId(e)
    <2>1. /\ disconnectedClientIds' = Append(disconnectedClientIds, id)
          /\ Registry!RemoveClientId(id)
      BY <1>3, RegisteredHasId DEF DisconnectedClient
    <2>2. id \in DOMAIN clientEntityLookup /\ id \in Registry!ClientIds
      BY <1>3, RegistryLookups
    <2>3. DOMAIN clientEntityLookup' = DOMAIN clientEntityLookup \ {id}
      BY <1>1, <1>3, <2>1, UnregisterLookups
    <2> HIDE DEF id
    <2>4. id \notin Spawns!Members(disconnectedClientIds)
      BY <1>1, <2>2 DEF ListsInv, ReportedAreGone
    <2>5. /\ NoneTwice(disconnectedClientIds')
          /\ Spawns!Members(disconnectedClientIds') = Spawns!Members(disconnectedClientIds)
               \cup {id}
      BY <1>2, <2>1, <2>2, <2>4, AppendOther DEF ListsInv
    <2>6. ReportedAreGone' /\ ReportedAreReady'
      BY <1>1, <2>3, <2>5 DEF ListsInv, ReportedAreGone, ReportedAreReady
    <2>7. QED
      BY <1>1, <2>5, <2>6 DEF ListsInv, NoneTwice
  <1>4. CASE e \notin registered
    <2>1. UNCHANGED <<disconnectedClientIds, clientEntityLookup>>
      BY <1>4, RegisteredHasId DEF DisconnectedClient, registry
    <2>2. QED
      BY <1>1, <2>1 DEF ListsInv, ReportedAreGone, ReportedAreReady, NoneTwice
  <1>5. QED
    BY <1>3, <1>4

\* A client is reported new when its answer is handled: it was not before, and
\* its entity was not disconnected.
LEMMA AnswersKeepLists ==
  ASSUME ListsInv, AnswerInv, TagInv, ServerInv, NEW e \in Entities, SetClientReady(e)
  PROVE  ListsInv'
  <1>0. tags \in [Entities -> SUBSET Tags] /\ e \in live
    BY DEF ServerInv, TablesTyped, SetClientReady
  <1>1. /\ phase = "ready" /\ e \in todo
        /\ UNCHANGED <<phase, disconnectedClientIds, registryVars>>
    BY DEF SetClientReady, Visited
  <1>2. /\ UNCHANGED clientEntityLookup
        /\ \A i : Registry!GetEntity(i)' = Registry!GetEntity(i)
    BY <1>1 DEF registryVars, registry, Registry!GetEntity
  <1>3. CASE ~SaidReady(e)
    <2>1. UNCHANGED <<newClientIds, tags>>
      BY <1>3 DEF SetClientReady
    <2>2. QED
      BY <1>1, <1>2, <2>1 DEF ListsInv, ReportedAreGone, ReportedAreReady, NoneTwice
  <1>4. CASE SaidReady(e)
    <2> DEFINE id == Registry!GetClientId(e)
    <2>1. /\ newClientIds' = Append(newClientIds, id)
          /\ tags' = [tags EXCEPT ![e] = (@ \ {"WaitingClientIsReady"}) \cup {"ClientIsReady"}]
      BY <1>4 DEF SetClientReady
    <2>2. "WaitingClientIsReady" \in tags[e] /\ "ClientIsReady" \notin tags[e]
      BY <1>1 DEF TagInv, LoopsOverTags, TagsExclusive
    <2>3. e \in registered
      BY <1>0, <1>1, <1>4, <2>2 DEF AnswerInv, AnswersAreHandled, BegunIsRegistered, Begun
    <2>4. /\ id \in Registry!ClientIds /\ id \in DOMAIN clientEntityLookup
          /\ Registry!GetEntity(id) = e
      BY <2>3, RegistryLookups
    <2> HIDE DEF id
    <2>5. id \notin Spawns!Members(newClientIds)
      BY <1>1, <2>2, <2>4 DEF ListsInv, ReportedAreReady
    <2>6. id \notin Spawns!Members(disconnectedClientIds)
      BY <1>1, <2>4 DEF ListsInv, ReportedAreGone
    <2>7. /\ newClientIds' \in Seq(Registry!ClientIds)
          /\ NoneTwice(newClientIds')
          /\ Spawns!Members(newClientIds') = Spawns!Members(newClientIds) \cup {id}
      <3>1. newClientIds \in Seq(Registry!ClientIds) /\ NoneTwice(newClientIds)
        BY DEF ListsInv
      <3>2. Append(newClientIds, id) \in Seq(Registry!ClientIds)
        BY <2>4, <3>1
      <3>3. QED
        BY <2>1, <2>4, <2>5, <3>1, <3>2, AppendOther
    <2>8. "ClientIsReady" \in tags'[e] /\ \A d \in Entities \ {e} : tags'[d] = tags[d]
      BY <1>0, <2>1
    <2>9. ReportedAreReady'
      <3>1. ASSUME NEW i \in Spawns!Members(newClientIds')
            PROVE  i \in DOMAIN clientEntityLookup
                     /\ "ClientIsReady" \in tags'[Registry!GetEntity(i)]
        <4>1. CASE i = id
          BY <2>4, <2>8, <4>1
        <4>2. CASE i # id
          <5>1. i \in DOMAIN clientEntityLookup /\ "ClientIsReady" \in tags[Registry!GetEntity(i)]
            BY <1>1, <2>7, <3>1, <4>2 DEF ListsInv, ReportedAreReady
          <5>2. Registry!GetEntity(i) \in Entities
            BY <5>1, RegistryLookups
          <5>3. QED
            BY <2>8, <5>1, <5>2
        <4>3. QED
          BY <4>1, <4>2
      <3>2. QED
        BY <1>2, <3>1 DEF ReportedAreReady
    <2>10. ReportedAreGone'
      BY <1>1, <1>2 DEF ListsInv, ReportedAreGone
    <2>11. QED
      BY <1>1, <2>6, <2>7, <2>9, <2>10 DEF ListsInv, NoneTwice
  <1>5. QED
    BY <1>3, <1>4

\* Every step keeps the lists for the application apart.
LEMMA NextListsInv ==
  ListsInv /\ AnswerInv /\ TagInv /\ Typed /\ ServerInv /\ ServerInv' /\ [Next]_vars => ListsInv'
  <1> SUFFICES ASSUME ListsInv, AnswerInv, TagInv, Typed, ServerInv, ServerInv', [Next]_vars
               PROVE  ListsInv'
    OBVIOUS
  <1>1. CASE EndUpdate
    <2>1. /\ phase' = "report" /\ disconnectedClientIds' = <<>> /\ UNCHANGED newClientIds
      BY <1>1 DEF EndUpdate, Enter
    <2>2. QED
      BY <2>1 DEF ListsInv, NoneTwice, Spawns!Members, ReportedAreGone, ReportedAreReady
  <1>2. CASE ReportDone
    <2>1. /\ phase = "report" /\ phase' = "ready" /\ newClientIds' = <<>>
          /\ UNCHANGED <<disconnectedClientIds, clientEntityLookup>>
      BY <1>2 DEF ReportDone, ClearedNewClientIds, Enter, registryVars, registry
    <2>2. QED
      BY <2>1 DEF ListsInv, NoneTwice, Spawns!Members, ReportedAreGone, ReportedAreReady
  <1>3. ASSUME NEW e \in Entities, DisconnectedClient(e) \/ SetClientReady(e) PROVE ListsInv'
    BY <1>3, DisconnectionsKeepLists, AnswersKeepLists
  <1>4. CASE \/ Start \/ Stop \/ DisconnectSystem \/ PendingDisconnectSystem
             \/ ForgetNewConnections
             \/ AcceptDone \/ ReceiveDone \/ ReadyDone \/ InitializeDone \/ SendNewSpawnDespawn
             \/ SendSnapshots \/ SendDone
    <2>1. UNCHANGED events /\ phase # "report" /\ phase' \notin {"report", "ready"}
      BY <1>4 DEF Start, Stop, DisconnectSystem, PendingDisconnectSystem, ForgetNewConnections,
         AcceptDone, ReceiveDone, ReadyDone, InitializeDone, SendNewSpawnDespawn, SendSnapshots,
         SendDone, Enter
    <2>2. QED
      BY <2>1, SilentStepsKeepLists
  <1>5. CASE \/ AcceptedSocketFails \/ ServerApp
             \/ \E e \in Entities : \/ AcceptConnection(e)
                                    \/ ReceiveTcpMessages(e) \/ ReceiveFails(e)
                                    \/ InitializeNewClient(e) \/ SendTcpMessages(e)
    <2>1. /\ UNCHANGED events /\ UNCHANGED phase
          /\ phase \in {"accept", "receive", "app", "initialize", "send"}
      BY <1>5 DEF AcceptedSocketFails, ServerApp, CreateNetworkEntity, DestroyNetworkEntity,
         SendTcpMessage, AcceptConnection, ReceiveTcpMessages, ReceiveFails, InitializeNewClient,
         SendTcpMessages, Visited
    <2>2. QED
      BY <2>1, SilentStepsKeepLists
  <1>6. CASE UNCHANGED serverVars
    BY <1>6, SilentStepsKeepLists DEF serverVars, ecs, registryVars, registry, events
  <1>7. QED
    BY <1>1, <1>2, <1>3, <1>4, <1>5, <1>6
    DEF Next, ServerStep, ServerNext, ServerTick, ClientStep, Breaks, Finished, vars

\* Apart from the moment in which reports are being made.
LEMMA InvNeverNewAndGone == ListsInv => NeverNewAndGone
  BY DEF ListsInv, NeverNewAndGone, NoneTwice

-----------------------------------------------------------------------------
(* All invariants together.                                                *)

\* SessionInv with what concerns the application of the server.
FullInv ==
  SessionInv /\ AnswerInv /\ ListsInv

\* FullInv holds in every session.
LEMMA SpecFullInv == Spec => []FullInv
  <1>1. Init => FullInv
    <2>1. Init => SessionInv
      BY InitTyped, InitServerInv, InitSpawnInv, InitTagInv, InitConnInv, InitQuietInv,
         InitHandshakeInv,
       InitQueuesTaken DEF SessionInv
    <2>2. QED
      BY <2>1, InitAnswerInv, InitListsInv DEF FullInv
  <1>2. FullInv /\ [Next]_vars => FullInv'
    <2>1. SessionInv /\ [Next]_vars => SessionInv'
      BY NextTyped, NextServerInv, NextSpawnInv, NextTagInv, NextConnInv, NextQuietInv,
         NextHandshakeInv,
         NextQueuesTaken DEF SessionInv
    <2>2. QED
      BY <2>1, NextAnswerInv, NextListsInv DEF FullInv, SessionInv
  <1>3. QED
    BY <1>1, <1>2, PTL DEF Spec

\* TypeOK is what the parts of FullInv say of the variables.
LEMMA InvTypeOK == FullInv => TypeOK
  <1> SUFFICES ASSUME FullInv PROVE TypeOK
    OBVIOUS
  <1>1. Registry!TypeOK
    <2>1. Facts!TypeOK
      BY DEF FullInv, SessionInv, ServerInv, Facts!RegistryInv
    <2>2. QED
      BY <2>1 DEF Facts!TypeOK, Registry!TypeOK, Facts!IsMap, Registry!IsMap, Facts!ClientIds,
         Registry!ClientIds
  <1>2. Spawns!TypeOK
    BY DEF FullInv, SessionInv, Spawns!SpawnInv
  <1>3. Typed /\ TablesTyped /\ newClientIds \in Seq(Registry!ClientIds)
    BY DEF FullInv, SessionInv, ServerInv, ListsInv
  <1>4. \A d, e \in live : conn[d] = conn[e] => d = e
    BY DEF FullInv, SessionInv, ConnInv, EntitiesHoldConns
  <1>5. QED
    BY <1>1, <1>2, <1>3, <1>4 DEF TypeOK, Typed, TablesTyped, LinkTyped, ServerTyped, ClientTyped

\* In every session all variables have their types, an entity of the server
\* has a connection exactly as long as it exists, and no two share one.
THEOREM SpecTypeOK == Spec => []TypeOK
  BY SpecFullInv, InvTypeOK, PTL

\* In every session the application of the server is never told in one tick
\* that a client is new and gone, nor twice of one client.
THEOREM SpecNeverNewAndGone == Spec => []NeverNewAndGone
  <1>1. FullInv => NeverNewAndGone
    BY InvNeverNewAndGone DEF FullInv
  <1>2. QED
    BY <1>1, SpecFullInv, PTL

-----------------------------------------------------------------------------
(* The lifecycle of clients.                                               *)

\* What the status of an id is.
LEMMA StatusOf ==
  ASSUME NEW id \in Registry!ClientIds
  PROVE  /\ phase = "stopped" \/ id >= nextClientId => status[id] = "unused"
         /\ phase # "stopped" /\ ~(id >= nextClientId) =>
              /\ id \notin DOMAIN clientEntityLookup => status[id] = "gone"
              /\ id \in DOMAIN clientEntityLookup =>
                   status[id] = IF "ClientIsReady" \in tags[Registry!GetEntity(id)]
                                THEN "ready" ELSE "waiting"
  BY DEF status

\* A step that changes neither the registry nor who is ready.
LEMMA SameStatus ==
  ASSUME ServerInv, phase # "stopped", phase' # "stopped", UNCHANGED registryVars,
         \A e \in registered : "ClientIsReady" \in tags'[e] <=> "ClientIsReady" \in tags[e]
  PROVE  status' = status
  <1>1. /\ UNCHANGED <<nextClientId, clientEntityLookup>>
        /\ \A id : Registry!GetEntity(id)' = Registry!GetEntity(id)
    BY DEF registryVars, registry, Registry!GetEntity
  <1>2. \A id \in DOMAIN clientEntityLookup : Registry!GetEntity(id) \in registered
    BY RegistryLookups
  <1>3. \A id \in DOMAIN clientEntityLookup :
          "ClientIsReady" \in tags'[Registry!GetEntity(id)'] <=> "ClientIsReady" \in
            tags[Registry!GetEntity(id)]
    BY <1>1, <1>2
  <1>4. QED
    BY <1>1, <1>3 DEF status

\* A server that starts, or stops, forgets all its clients.
LEMMA StartAndStop ==
  ASSUME Start \/ Stop
  PROVE  Lifecycle!Stop
  <1>1. UNCHANGED <<newClientIds, disconnectedClientIds>>
    BY DEF Start, Stop, events
  <1>2. \A id \in Registry!ClientIds : phase' = "stopped" \/ id >= nextClientId'
    BY ServerAssumption
    DEF Start, Stop, Enter, Registry!Restart, Registry!ClientIds, ServerAssumption
  <1>3. status' = [id \in Registry!ClientIds |-> "unused"]
    BY <1>2 DEF status
  <1>4. QED
    BY <1>1, <1>3 DEF Lifecycle!Stop

\* Initialize, BecomeReady and Disconnect of the lifecycle are the turns of three
\* loops of the server.
LEMMA InitializesClient ==
  ASSUME ServerInv, ServerInv', TagInv, NEW e \in Entities, InitializeNewClient(e)
  PROVE  Lifecycle!Initialize(nextClientId)
  <1> DEFINE id == nextClientId
  <1>1. /\ phase = "initialize" /\ e \in todo /\ e \in live /\ UNCHANGED <<phase, events>>
        /\ tags \in [Entities -> SUBSET Tags]
        /\ tags' = [tags EXCEPT ![e] = @ \cup {"WaitingClientIsReady"}]
        /\ Registry!AddClientId(id, e) /\ id \in Registry!ClientIds /\ nextClientId' = id + 1
    BY DEF InitializeNewClient, Visited, ServerInv, TablesTyped
  <1>2. /\ ~Begun(e)
        /\ "ClientIsReady" \notin tags[e]
    BY <1>1 DEF TagInv, LoopsOverTags, Begun
  <1>3. e \notin registered
    BY <1>1 DEF ServerInv, NewIsRegisteredOnce, OnlyNewAreInitialized
  <1>4. /\ id \notin DOMAIN clientEntityLookup
        /\ DOMAIN clientEntityLookup' = DOMAIN clientEntityLookup \cup {id}
        /\ \A i \in DOMAIN clientEntityLookup : Registry!GetEntity(i)' = Registry!GetEntity(i)
        /\ \A i : i = id => Registry!GetEntity(i)' = e
    BY <1>1, <1>3, RegisterLookups
  <1>5. \A i \in DOMAIN clientEntityLookup : Registry!GetEntity(i) \in Entities
    BY RegistryLookups
  <1>6. Registry!ClientIds \subseteq Nat /\ id \in Nat
    BY <1>1, ServerAssumption DEF Registry!ClientIds, ServerAssumption
  <1> HIDE DEF id
  <1>7. status[id] = "unused" /\ \A i \in Registry!ClientIds : i < id => status[i] # "unused"
    <2>1. status[id] = "unused"
      BY <1>1, <1>6, StatusOf DEF id
    <2>2. ASSUME NEW i \in Registry!ClientIds, i < id PROVE status[i] # "unused"
      <3>1. ~(i >= nextClientId) /\ phase # "stopped"
        BY <1>1, <1>6, <2>2 DEF id
      <3>2. QED
        BY <3>1, StatusOf
    <2>3. QED
      BY <2>1, <2>2
  <1>8. status' = [status EXCEPT ![id] = "waiting"]
    <2>1. "ClientIsReady" \notin tags'[e] /\ \A d \in Entities :
            "ClientIsReady" \in tags'[d] <=> "ClientIsReady" \in tags[d]
      BY <1>1, <1>2
    <2>2. ASSUME NEW i \in Registry!ClientIds
          PROVE  status'[i] = IF i = id THEN "waiting" ELSE status[i]
      <3>1. status'[i] = IF phase' = "stopped" \/ i >= nextClientId' THEN "unused"
                         ELSE IF i \notin DOMAIN clientEntityLookup' THEN "gone"
                         ELSE IF "ClientIsReady" \in tags'[Registry!GetEntity(i)'] THEN "ready"
                         ELSE "waiting"
        BY DEF status
      <3>2. status[i] = IF phase = "stopped" \/ i >= nextClientId THEN "unused"
                         ELSE IF i \notin DOMAIN clientEntityLookup THEN "gone"
                         ELSE IF "ClientIsReady" \in tags[Registry!GetEntity(i)] THEN "ready"
                         ELSE "waiting"
        BY DEF status
      <3>3. CASE i = id
        BY <1>1, <1>4, <1>6, <2>1, <3>1, <3>3
      <3>4. CASE i # id
        <4>1. (i >= nextClientId' <=> i >= nextClientId)
          BY <1>1, <1>4, <1>6, <3>4 DEF id
        <4>2. i \in DOMAIN clientEntityLookup' <=> i \in DOMAIN clientEntityLookup
          BY <1>4, <3>4
        <4>3. i \in DOMAIN clientEntityLookup =>
                ("ClientIsReady" \in tags'[Registry!GetEntity(i)'] <=> "ClientIsReady" \in
                  tags[Registry!GetEntity(i)])
          BY <1>4, <1>5, <2>1
        <4>4. QED
          BY <1>1, <3>1, <3>2, <3>4, <4>1, <4>2, <4>3
      <3>5. QED
        BY <3>3, <3>4
    <2>3. QED
      BY <2>2 DEF status
  <1>9. QED
    BY <1>1, <1>7, <1>8 DEF Lifecycle!Initialize, Lifecycle!Moves, events, id

\* setClientReady takes the client from waiting to ready.
LEMMA AnswersClient ==
  ASSUME ServerInv, TagInv, AnswerInv, NEW e \in Entities, SetClientReady(e), SaidReady(e)
  PROVE  Lifecycle!BecomeReady(Registry!GetClientId(e))
  <1> DEFINE id == Registry!GetClientId(e)
  <1>1. /\ phase = "ready" /\ e \in todo /\ e \in live
        /\ UNCHANGED <<phase, disconnectedClientIds, registryVars>>
        /\ newClientIds' = Append(newClientIds, id)
        /\ tags \in [Entities -> SUBSET Tags]
        /\ tags' = [tags EXCEPT ![e] = (@ \ {"WaitingClientIsReady"}) \cup {"ClientIsReady"}]
    BY DEF SetClientReady, Visited, ServerInv, TablesTyped
  <1>2. "WaitingClientIsReady" \in tags[e] /\ "ClientIsReady" \notin tags[e]
    BY <1>1 DEF TagInv, LoopsOverTags, TagsExclusive
  <1>3. e \in registered
    BY <1>1, <1>2 DEF AnswerInv, AnswersAreHandled, BegunIsRegistered, Begun
  <1>4. /\ id \in Registry!ClientIds /\ id \in DOMAIN clientEntityLookup
        /\ Registry!GetEntity(id) = e
        /\ id < nextClientId
        /\ nextClientId \in Nat /\ Registry!ClientIds \subseteq Nat
    BY <1>3, RegistryLookups, ServerAssumption
    DEF ServerInv, Facts!RegistryInv, Facts!TypeOK, Registry!ClientIds, ServerAssumption
  <1>5. /\ UNCHANGED <<nextClientId, clientEntityLookup>>
        /\ \A i : Registry!GetEntity(i)' = Registry!GetEntity(i)
    BY <1>1 DEF registryVars, registry, Registry!GetEntity
  <1>6. \A i \in DOMAIN clientEntityLookup : i # id => Registry!GetEntity(i) \in Entities \ {e}
    BY RegistryLookups
  <1> HIDE DEF id
  <1>7. status[id] = "waiting"
    <2>1. ~(id >= nextClientId)
      BY <1>4
    <2>2. QED
      BY <1>1, <1>2, <1>4, <2>1, StatusOf
  <1>8. status' = [status EXCEPT ![id] = "ready"]
    <2>1. "ClientIsReady" \in tags'[e] /\ \A d \in Entities \ {e} : tags'[d] = tags[d]
      BY <1>1
    <2>2. ASSUME NEW i \in Registry!ClientIds
          PROVE  status'[i] = IF i = id THEN "ready" ELSE status[i]
      <3>1. status'[i] = IF phase = "stopped" \/ i >= nextClientId THEN "unused"
                         ELSE IF i \notin DOMAIN clientEntityLookup THEN "gone"
                         ELSE IF "ClientIsReady" \in tags'[Registry!GetEntity(i)] THEN "ready"
                         ELSE "waiting"
        BY <1>1, <1>5 DEF status
      <3>2. status[i] = IF phase = "stopped" \/ i >= nextClientId THEN "unused"
                         ELSE IF i \notin DOMAIN clientEntityLookup THEN "gone"
                         ELSE IF "ClientIsReady" \in tags[Registry!GetEntity(i)] THEN "ready"
                         ELSE "waiting"
        BY DEF status
      <3>3. CASE i = id
        <4>1. ~(i >= nextClientId)
          BY <1>4, <3>3
        <4>2. QED
          BY <1>1, <1>4, <2>1, <3>1, <3>3, <4>1
      <3>4. CASE i # id
        BY <1>6, <2>1, <3>1, <3>2, <3>4
      <3>5. QED
        BY <3>3, <3>4
    <2>3. QED
      BY <2>2 DEF status
  <1>9. QED
    BY <1>1, <1>7, <1>8 DEF Lifecycle!BecomeReady, Lifecycle!Moves, id

\* disconnectedClient takes the client from its state to gone.
LEMMA DisconnectsClient ==
  ASSUME ServerInv, ServerInv', NEW e \in Entities, DisconnectedClient(e), e \in registered
  PROVE  Lifecycle!Disconnect(Registry!GetClientId(e))
  <1> DEFINE id == Registry!GetClientId(e)
  <1>1. /\ phase = "report" /\ UNCHANGED <<phase, newClientIds, tags, nextClientId>>
        /\ disconnectedClientIds' = Append(disconnectedClientIds, id)
        /\ Registry!RemoveClientId(id)
    BY RegisteredHasId DEF DisconnectedClient, Visited, ecs
  <1>2. /\ id \in DOMAIN clientEntityLookup
        /\ DOMAIN clientEntityLookup' = DOMAIN clientEntityLookup \ {id}
        /\ \A i \in DOMAIN clientEntityLookup' : Registry!GetEntity(i)' = Registry!GetEntity(i)
    BY <1>1, UnregisterLookups
  <1>3. /\ id \in Registry!ClientIds /\ id < nextClientId
        /\ nextClientId \in Nat /\ Registry!ClientIds \subseteq Nat
    BY <1>2, RegistryLookups, ServerAssumption
    DEF ServerInv, Facts!RegistryInv, Facts!TypeOK, Registry!ClientIds, ServerAssumption
  <1> HIDE DEF id
  <1>4. status[id] \in {"waiting", "ready"}
    <2>1. ~(id >= nextClientId)
      BY <1>3
    <2>2. QED
      BY <1>1, <1>2, <1>3, <2>1, StatusOf
  <1>5. status' = [status EXCEPT ![id] = "gone"]
    <2>1. ASSUME NEW i \in Registry!ClientIds
          PROVE  status'[i] = IF i = id THEN "gone" ELSE status[i]
      <3>1. status'[i] = IF phase = "stopped" \/ i >= nextClientId THEN "unused"
                         ELSE IF i \notin DOMAIN clientEntityLookup' THEN "gone"
                         ELSE IF "ClientIsReady" \in tags[Registry!GetEntity(i)'] THEN "ready"
                         ELSE "waiting"
        BY <1>1 DEF status
      <3>2. status[i] = IF phase = "stopped" \/ i >= nextClientId THEN "unused"
                         ELSE IF i \notin DOMAIN clientEntityLookup THEN "gone"
                         ELSE IF "ClientIsReady" \in tags[Registry!GetEntity(i)] THEN "ready"
                         ELSE "waiting"
        BY DEF status
      <3>3. CASE i = id
        <4>1. ~(i >= nextClientId)
          BY <1>3, <3>3
        <4>2. QED
          BY <1>1, <1>2, <3>1, <3>3, <4>1
      <3>4. CASE i # id
        <4>1. i \in DOMAIN clientEntityLookup' <=> i \in DOMAIN clientEntityLookup
          BY <1>2, <3>4
        <4>2. QED
          BY <1>2, <3>1, <3>2, <3>4, <4>1
      <3>5. QED
        BY <3>3, <3>4
    <2>2. QED
      BY <2>1 DEF status
  <1>6. QED
    BY <1>1, <1>4, <1>5 DEF Lifecycle!Disconnect, Lifecycle!Moves, id

\* All other steps leave every client where it is.
LEMMA OthersKeepStatus ==
  ASSUME ServerInv, ServerInv', TagInv,
         \/ DisconnectSystem \/ PendingDisconnectSystem \/ ForgetNewConnections
         \/ AcceptedSocketFails \/ AcceptDone \/ ReceiveDone \/ ServerApp \/ EndUpdate
         \/ ReportDone
         \/ ReadyDone \/ InitializeDone \/ SendNewSpawnDespawn \/ SendSnapshots \/ SendDone
         \/ \E e \in Entities : \/ AcceptConnection(e) \/ ReceiveTcpMessages(e) \/ ReceiveFails(e)
                                \/ SendTcpMessages(e)
                                \/ DisconnectedClient(e) /\ e \notin registered
                                \/ SetClientReady(e) /\ ~SaidReady(e)
  PROVE  status' = status
  <1>0. /\ tags \in [Entities -> SUBSET Tags] /\ registered \subseteq Entities
        /\ phase # "stopped" => registered \subseteq live
    BY RegistryLookups DEF ServerInv, TablesTyped, RegisteredLive
  <1>1. CASE DisconnectSystem
    <2>1. /\ phase = "idle" /\ phase' = "pending" /\ UNCHANGED registryVars
          /\ tags' = [e \in Entities |-> IF e \in ReportedEntities THEN {} ELSE tags[e]]
      BY <1>1 DEF DisconnectSystem, Enter, DestroyEntities
    <2>2. \A e \in registered : e \notin ReportedEntities
      BY <2>1 DEF ServerInv, DisconnectedIsReported, ReportedEntities, With
    <2>3. QED
      BY <1>0, <2>1, <2>2, SameStatus
  <1>2. CASE PendingDisconnectSystem
    <2>1. /\ phase = "pending" /\ phase' = "forget" /\ UNCHANGED registryVars
          /\ tags' = [e \in Entities |->
               IF e \in With("PendingDisconnect") \cap With("Connected")
               THEN (tags[e] \ {"PendingDisconnect", "Connected"}) \cup {"Disconnected"}
               ELSE tags[e]]
      BY <1>2 DEF PendingDisconnectSystem, Enter
    <2>2. \A e \in registered : "ClientIsReady" \in tags'[e] <=> "ClientIsReady" \in tags[e]
      BY <1>0, <2>1
    <2>3. QED
      BY <2>1, <2>2, SameStatus
  <1>3. CASE ForgetNewConnections
    <2>1. /\ phase = "forget" /\ phase' = "accept" /\ UNCHANGED registryVars
          /\ tags' = [e \in Entities |-> tags[e] \ {"NewConnection"}]
      BY <1>3 DEF ForgetNewConnections, NoLongerNew, Enter
    <2>2. \A e \in registered : "ClientIsReady" \in tags'[e] <=> "ClientIsReady" \in tags[e]
      BY <1>0, <2>1
    <2>3. QED
      BY <2>1, <2>2, SameStatus
  <1>4. CASE \/ AcceptedSocketFails \/ AcceptDone \/ ReceiveDone \/ ServerApp \/ EndUpdate
             \/ ReportDone
             \/ ReadyDone \/ InitializeDone \/ SendNewSpawnDespawn \/ SendSnapshots \/ SendDone
    <2>1. UNCHANGED <<tags, registryVars>>
      BY <1>4 DEF AcceptedSocketFails, AcceptDone, ReceiveDone, ServerApp, CreateNetworkEntity,
         DestroyNetworkEntity, SendTcpMessage, EndUpdate, ReportDone, ReadyDone, InitializeDone,
         SendNewSpawnDespawn, SendSnapshots, SendDone, ecs
    <2>2. phase # "stopped" /\ phase' # "stopped"
      BY <1>4 DEF AcceptedSocketFails, AcceptDone, ReceiveDone, ServerApp, CreateNetworkEntity,
         DestroyNetworkEntity, SendTcpMessage, EndUpdate, ReportDone, ReadyDone, InitializeDone,
         SendNewSpawnDespawn, SendSnapshots, SendDone, Enter
    <2>3. QED
      BY <2>1, <2>2, SameStatus
  <1>5. ASSUME NEW e \in Entities, AcceptConnection(e) PROVE status' = status
    <2>1. /\ phase = "accept" /\ e \notin live /\ UNCHANGED <<phase, registryVars>>
          /\ tags' = [tags EXCEPT ![e] = {"NewConnection", "Connected"}]
      BY <1>5 DEF AcceptConnection
    <2>2. \A d \in registered : tags'[d] = tags[d]
      BY <1>0, <2>1
    <2>3. QED
      BY <2>1, <2>2, SameStatus
  <1>6. ASSUME NEW e \in Entities, ReceiveTcpMessages(e) \/ ReceiveFails(e) \/ SendTcpMessages(e)
        PROVE  status' = status
    <2>1. phase \in {"receive", "send"} /\ UNCHANGED <<phase, registryVars>>
      BY <1>6 DEF ReceiveTcpMessages, ReceiveFails, SendTcpMessages, Visited
    <2>2. \A d \in registered : "ClientIsReady" \in tags'[d] <=> "ClientIsReady" \in tags[d]
      BY <1>0, <1>6 DEF ReceiveTcpMessages, ReceiveFails, Failed, SendTcpMessages
    <2>3. QED
      BY <2>1, <2>2, SameStatus
  <1>7. ASSUME NEW e \in Entities,
               \/ DisconnectedClient(e) /\ e \notin registered
               \/ SetClientReady(e) /\ ~SaidReady(e)
        PROVE  status' = status
    <2>1. phase \in {"report", "ready"} /\ UNCHANGED <<phase, tags, registryVars>>
      BY <1>7, RegisteredHasId DEF DisconnectedClient, SetClientReady, Visited, ecs, registryVars
    <2>2. QED
      BY <2>1, SameStatus
  <1>8. QED
    BY <1>1, <1>2, <1>3, <1>4, <1>5, <1>6, <1>7

\* Each step of the session is a step of the lifecycle, or none.
LEMMA NextLifecycle ==
  FullInv /\ FullInv' /\ [Next]_vars => [Lifecycle!Next]_(Lifecycle!vars)
  <1> SUFFICES ASSUME FullInv, FullInv', [Next]_vars PROVE [Lifecycle!Next]_(Lifecycle!vars)
    OBVIOUS
  <1>0. ServerInv /\ ServerInv' /\ TagInv /\ AnswerInv
    BY DEF FullInv, SessionInv
  <1>1. CASE Start \/ Stop
    BY <1>1, StartAndStop DEF Lifecycle!Next
  <1>2. ASSUME NEW e \in Entities, InitializeNewClient(e) PROVE Lifecycle!Next
    <2>1. nextClientId \in Registry!ClientIds
      BY <1>2 DEF InitializeNewClient
    <2>2. QED
      BY <1>0, <1>2, <2>1, InitializesClient DEF Lifecycle!Next
  <1>3. ASSUME NEW e \in Entities, SetClientReady(e), SaidReady(e) PROVE Lifecycle!Next
    <2>1. Lifecycle!BecomeReady(Registry!GetClientId(e))
      BY <1>0, <1>3, AnswersClient
    <2>2. e \in registered
      <3>1. e \in live /\ phase = "ready" /\ e \in todo
        BY <1>0, <1>3 DEF SetClientReady, ServerInv, TablesTyped
      <3>2. "WaitingClientIsReady" \in tags[e]
        BY <1>0, <3>1 DEF TagInv, LoopsOverTags
      <3>3. QED
        BY <1>0, <1>3, <3>1, <3>2 DEF AnswerInv, AnswersAreHandled, BegunIsRegistered, Begun
    <2>3. Registry!GetClientId(e) \in Registry!ClientIds
      BY <1>0, <2>2, RegistryLookups
    <2>4. QED
      BY <2>1, <2>3 DEF Lifecycle!Next
  <1>4. ASSUME NEW e \in Entities, DisconnectedClient(e), e \in registered PROVE Lifecycle!Next
    <2>1. Registry!GetClientId(e) \in Registry!ClientIds
      BY <1>0, <1>4, RegistryLookups
    <2>2. QED
      BY <1>0, <1>4, <2>1, DisconnectsClient DEF Lifecycle!Next
  <1>5. CASE EndUpdate \/ ReportDone
    <2>1. status' = status
      BY <1>0, <1>5, OthersKeepStatus
    <2>2. CASE EndUpdate
      BY <2>1, <2>2 DEF EndUpdate, Lifecycle!Next, Lifecycle!ForgetDisconnected
    <2>3. CASE ReportDone
      BY <2>1, <2>3 DEF ReportDone, ClearedNewClientIds, Lifecycle!Next, Lifecycle!ForgetNew
    <2>4. QED
      BY <1>5, <2>2, <2>3
  <1>6. CASE \/ DisconnectSystem \/ PendingDisconnectSystem \/ ForgetNewConnections
             \/ AcceptedSocketFails \/ AcceptDone \/ ReceiveDone \/ ServerApp
             \/ ReadyDone \/ InitializeDone \/ SendNewSpawnDespawn \/ SendSnapshots \/ SendDone
    <2>1. status' = status
      BY <1>0, <1>6, OthersKeepStatus
    <2>2. UNCHANGED <<newClientIds, disconnectedClientIds>>
      BY <1>6 DEF DisconnectSystem, PendingDisconnectSystem, ForgetNewConnections,
         AcceptedSocketFails, AcceptDone, ReceiveDone, ServerApp, CreateNetworkEntity,
         DestroyNetworkEntity, SendTcpMessage, ReadyDone, InitializeDone, SendNewSpawnDespawn,
         SendSnapshots, SendDone, events
    <2>3. QED
      BY <2>1, <2>2 DEF Lifecycle!vars
  <1>7. ASSUME NEW e \in Entities,
               \/ AcceptConnection(e) \/ ReceiveTcpMessages(e) \/ ReceiveFails(e)
               \/ SendTcpMessages(e)
               \/ DisconnectedClient(e) /\ e \notin registered
               \/ SetClientReady(e) /\ ~SaidReady(e)
        PROVE  UNCHANGED Lifecycle!vars
    <2>1. status' = status
      BY <1>0, <1>7, OthersKeepStatus
    <2>2. UNCHANGED <<newClientIds, disconnectedClientIds>>
      BY <1>0, <1>7, RegisteredHasId DEF AcceptConnection, ReceiveTcpMessages, ReceiveFails,
         SendTcpMessages, DisconnectedClient, SetClientReady, events
    <2>3. QED
      BY <2>1, <2>2 DEF Lifecycle!vars
  <1>8. CASE UNCHANGED serverVars
    BY <1>8 DEF serverVars, ecs, registryVars, registry, status, Registry!GetEntity,
       Lifecycle!vars
  <1>9. QED
    BY <1>1, <1>2, <1>3, <1>4, <1>5, <1>6, <1>7, <1>8
    DEF Next, ServerStep, ServerNext, ServerTick, ClientStep, Breaks, Finished, vars

\* The initial state of a session is that of the lifecycle.
LEMMA InitLifecycle == Init => Lifecycle!Init
  <1> SUFFICES ASSUME Init PROVE Lifecycle!Init
    OBVIOUS
  <1>1. phase = "stopped" /\ newClientIds = <<>> /\ disconnectedClientIds = <<>>
    BY DEF Init, ServerInit
  <1>2. status = [id \in Registry!ClientIds |-> "unused"]
    BY <1>1 DEF status
  <1>3. QED
    BY <1>1, <1>2 DEF Lifecycle!Init

\* The registry, the tags of its entities and the two lists for the
\* application implement the lifecycle of clients: every step of a session is
\* one step of ClientLifecycle, or none.
THEOREM SessionImplementsLifecycle == Spec => ImplementsLifecycle
  BY InitLifecycle, NextLifecycle, SpecFullInv, PTL DEF Spec, ImplementsLifecycle, Lifecycle!Spec

-----------------------------------------------------------------------------
(* The network entities that messages tell of.                             *)

Spawned(msgs) == UNION {Spawns!Members(SpawnsOf(msgs[k])) : k \in 1..Len(msgs)}
Despawned(msgs) == UNION {Spawns!Members(DespawnsOf(msgs[k])) : k \in 1..Len(msgs)}

\* What a message despawns, no later message spawns.
Ordered(msgs) ==
  \A i, j \in 1..Len(msgs) : i < j =>
    Spawns!Members(SpawnsOf(msgs[j])) \cap Spawns!Members(DespawnsOf(msgs[i])) = {}

\* An element is told of by some message.
LEMMA ToldBySome ==
  ASSUME NEW msgs, NEW n
  PROVE  /\ n \in Spawned(msgs) <=>
              \E k \in 1..Len(msgs) : n \in Spawns!Members(SpawnsOf(msgs[k]))
         /\ n \in Despawned(msgs) <=>
              \E k \in 1..Len(msgs) : n \in Spawns!Members(DespawnsOf(msgs[k]))
  BY DEF Spawned, Despawned

\* Messages one after the other tell of what each of them does.
LEMMA ToldConcat ==
  ASSUME NEW s \in Seq(Messages), NEW t \in Seq(Messages)
  PROVE  /\ Spawned(s \o t) = Spawned(s) \cup Spawned(t)
         /\ Despawned(s \o t) = Despawned(s) \cup Despawned(t)
         /\ Ordered(s \o t) <=>
              Ordered(s) /\ Ordered(t) /\ Spawned(t) \cap Despawned(s) = {}
  <1> DEFINE u == s \o t
             S(m) == Spawns!Members(SpawnsOf(m))
             D(m) == Spawns!Members(DespawnsOf(m))
  <1>1. /\ Len(s) \in Nat /\ Len(t) \in Nat
        /\ Len(u) = Len(s) + Len(t)
        /\ \A i \in 1..Len(s) : u[i] = s[i]
        /\ \A i \in 1..Len(t) : u[Len(s) + i] = t[i]
    OBVIOUS
  <1>2. \A i \in 1..Len(u) : i \in 1..Len(s) \/ (i - Len(s) \in 1..Len(t)
                                                   /\ Len(s) + (i - Len(s)) = i)
    BY <1>1
  <1>3. /\ \A i \in 1..Len(s) : i \in 1..Len(u)
        /\ \A i \in 1..Len(t) : Len(s) + i \in 1..Len(u)
    BY <1>1
  <1> HIDE DEF u, S, D
  <1>4. /\ \A n : n \in Spawned(u) <=> \E k \in 1..Len(u) : n \in S(u[k])
        /\ \A n : n \in Spawned(s) <=> \E k \in 1..Len(s) : n \in S(s[k])
        /\ \A n : n \in Spawned(t) <=> \E k \in 1..Len(t) : n \in S(t[k])
        /\ \A n : n \in Despawned(u) <=> \E k \in 1..Len(u) : n \in D(u[k])
        /\ \A n : n \in Despawned(s) <=> \E k \in 1..Len(s) : n \in D(s[k])
        /\ \A n : n \in Despawned(t) <=> \E k \in 1..Len(t) : n \in D(t[k])
    BY ToldBySome DEF S, D
  <1>5. Spawned(u) = Spawned(s) \cup Spawned(t)
    <2>1. ASSUME NEW n \in Spawned(u) PROVE n \in Spawned(s) \cup Spawned(t)
      <3>1. PICK k \in 1..Len(u) : n \in S(u[k])
        BY <1>4, <2>1
      <3>2. CASE k \in 1..Len(s)
        BY <1>1, <1>4, <3>1, <3>2
      <3>3. CASE k - Len(s) \in 1..Len(t) /\ Len(s) + (k - Len(s)) = k
        <4>1. u[k] = t[k - Len(s)]
          BY <1>1, <3>3
        <4>2. QED
          BY <1>4, <3>1, <3>3, <4>1
      <3>4. QED
        BY <1>2, <3>2, <3>3
    <2>2. ASSUME NEW n \in Spawned(s) PROVE n \in Spawned(u)
      BY <1>1, <1>3, <1>4, <2>2
    <2>3. ASSUME NEW n \in Spawned(t) PROVE n \in Spawned(u)
      <3>1. PICK k \in 1..Len(t) : n \in S(t[k])
        BY <1>4, <2>3
      <3>2. u[Len(s) + k] = t[k] /\ Len(s) + k \in 1..Len(u)
        BY <1>1, <1>3
      <3>3. QED
        BY <1>4, <3>1, <3>2
    <2>4. QED
      BY <2>1, <2>2, <2>3
  <1>6. Despawned(u) = Despawned(s) \cup Despawned(t)
    <2>1. ASSUME NEW n \in Despawned(u) PROVE n \in Despawned(s) \cup Despawned(t)
      <3>1. PICK k \in 1..Len(u) : n \in D(u[k])
        BY <1>4, <2>1
      <3>2. CASE k \in 1..Len(s)
        BY <1>1, <1>4, <3>1, <3>2
      <3>3. CASE k - Len(s) \in 1..Len(t) /\ Len(s) + (k - Len(s)) = k
        <4>1. u[k] = t[k - Len(s)]
          BY <1>1, <3>3
        <4>2. QED
          BY <1>4, <3>1, <3>3, <4>1
      <3>4. QED
        BY <1>2, <3>2, <3>3
    <2>2. ASSUME NEW n \in Despawned(s) PROVE n \in Despawned(u)
      BY <1>1, <1>3, <1>4, <2>2
    <2>3. ASSUME NEW n \in Despawned(t) PROVE n \in Despawned(u)
      <3>1. PICK k \in 1..Len(t) : n \in D(t[k])
        BY <1>4, <2>3
      <3>2. u[Len(s) + k] = t[k] /\ Len(s) + k \in 1..Len(u)
        BY <1>1, <1>3
      <3>3. QED
        BY <1>4, <3>1, <3>2
    <2>4. QED
      BY <2>1, <2>2, <2>3
  <1>7. ASSUME Ordered(u)
        PROVE  Ordered(s) /\ Ordered(t) /\ Spawned(t) \cap Despawned(s) = {}
    <2>1. \A i, j \in 1..Len(u) : i < j => S(u[j]) \cap D(u[i]) = {}
      BY <1>7 DEF Ordered, S, D
    <2>2. \A i, j \in 1..Len(s) : i < j => S(s[j]) \cap D(s[i]) = {}
      BY <1>1, <1>3, <2>1
    <2>3. ASSUME NEW i \in 1..Len(t), NEW j \in 1..Len(t), i < j
          PROVE  S(t[j]) \cap D(t[i]) = {}
      <3>1. /\ Len(s) + i \in 1..Len(u) /\ Len(s) + j \in 1..Len(u)
            /\ Len(s) + i < Len(s) + j
        BY <1>1, <1>3, <2>3
      <3>2. u[Len(s) + i] = t[i] /\ u[Len(s) + j] = t[j]
        BY <1>1
      <3>3. QED
        BY <2>1, <3>1, <3>2
    <2>4. ASSUME NEW n \in Spawned(t), n \in Despawned(s) PROVE FALSE
      <3>1. PICK i \in 1..Len(s) : n \in D(s[i])
        BY <1>4, <2>4
      <3>2. PICK j \in 1..Len(t) : n \in S(t[j])
        BY <1>4, <2>4
      <3>3. /\ i \in 1..Len(u) /\ Len(s) + j \in 1..Len(u) /\ i < Len(s) + j
            /\ u[i] = s[i] /\ u[Len(s) + j] = t[j]
        BY <1>1, <1>3
      <3>4. QED
        BY <2>1, <3>1, <3>2, <3>3
    <2>5. QED
      BY <2>2, <2>3, <2>4 DEF Ordered, S, D
  <1>8. ASSUME Ordered(s), Ordered(t), Spawned(t) \cap Despawned(s) = {}
        PROVE  Ordered(u)
    <2>1. /\ \A i, j \in 1..Len(s) : i < j => S(s[j]) \cap D(s[i]) = {}
          /\ \A i, j \in 1..Len(t) : i < j => S(t[j]) \cap D(t[i]) = {}
      BY <1>8 DEF Ordered, S, D
    <2>2. ASSUME NEW i \in 1..Len(u), NEW j \in 1..Len(u), i < j
          PROVE  S(u[j]) \cap D(u[i]) = {}
      <3>1. CASE j \in 1..Len(s)
        <4>1. i \in 1..Len(s) /\ u[i] = s[i] /\ u[j] = s[j]
          BY <1>1, <2>2, <3>1
        <4>2. QED
          BY <2>1, <2>2, <3>1, <4>1
      <3>2. CASE i \in 1..Len(s) /\ j - Len(s) \in 1..Len(t) /\ Len(s) + (j - Len(s)) = j
        <4>1. u[i] = s[i] /\ u[j] = t[j - Len(s)]
          BY <1>1, <3>2
        <4>2. S(u[j]) \subseteq Spawned(t) /\ D(u[i]) \subseteq Despawned(s)
          BY <1>4, <3>2, <4>1
        <4>3. QED
          BY <1>8, <4>2
      <3>3. CASE /\ i - Len(s) \in 1..Len(t) /\ Len(s) + (i - Len(s)) = i
                 /\ j - Len(s) \in 1..Len(t) /\ Len(s) + (j - Len(s)) = j
        <4>1. u[i] = t[i - Len(s)] /\ u[j] = t[j - Len(s)] /\ i - Len(s) < j - Len(s)
          BY <1>1, <2>2, <3>3
        <4>2. QED
          BY <2>1, <3>3, <4>1
      <3>4. QED
        BY <1>2, <3>1, <3>2, <3>3
    <2>3. QED
      BY <2>2 DEF Ordered, S, D
  <1>9. QED
    BY <1>5, <1>6, <1>7, <1>8 DEF u

\* Messages of other types tell of no network entity.
LEMMA ToldNothing ==
  ASSUME NEW s, ~HasMessage(s, "SpawnDespawn")
  PROVE  Spawned(s) = {} /\ Despawned(s) = {} /\ Ordered(s)
  <1>1. \A k \in 1..Len(s) : SpawnsOf(s[k]) = <<>> /\ DespawnsOf(s[k]) = <<>>
    BY DEF HasMessage, SpawnsOf, DespawnsOf
  <1>2. Spawns!Members(<<>>) = {}
    BY DEF Spawns!Members
  <1>3. \A k \in 1..Len(s) : /\ Spawns!Members(SpawnsOf(s[k])) = {}
                             /\ Spawns!Members(DespawnsOf(s[k])) = {}
    BY <1>1, <1>2
  <1>4. QED
    BY <1>3 DEF Spawned, Despawned, Ordered

\* No message tells of none.
LEMMA ToldEmpty ==
  /\ Spawned(<<>>) = {} /\ Despawned(<<>>) = {} /\ Ordered(<<>>)
  /\ ~HasMessage(<<>>, "SpawnDespawn")
  <1>1. ~HasMessage(<<>>, "SpawnDespawn")
    BY DEF HasMessage
  <1>2. QED
    BY <1>1, ToldNothing

\* One more message tells of its own entities.
LEMMA ToldAppend ==
  ASSUME NEW s \in Seq(Messages), NEW m \in Messages
  PROVE  /\ Spawned(Append(s, m)) = Spawned(s) \cup Spawns!Members(SpawnsOf(m))
         /\ Despawned(Append(s, m)) = Despawned(s) \cup Spawns!Members(DespawnsOf(m))
         /\ Ordered(Append(s, m)) <=>
              Ordered(s) /\ Spawns!Members(SpawnsOf(m)) \cap Despawned(s) = {}
  <1> DEFINE one == <<m>>
  <1>1. one \in Seq(Messages) /\ Len(one) = 1 /\ one[1] = m
    OBVIOUS
  <1>2. Append(s, m) = s \o one
    OBVIOUS
  <1> HIDE DEF one
  <1>3. 1..Len(one) = {1}
    BY <1>1
  <1>4. /\ Spawned(one) = Spawns!Members(SpawnsOf(m))
        /\ Despawned(one) = Spawns!Members(DespawnsOf(m))
        /\ Ordered(one)
    BY <1>1, <1>3 DEF Spawned, Despawned, Ordered
  <1>5. QED
    BY <1>1, <1>2, <1>4, ToldConcat

\* A message of another type adds nothing.
LEMMA ToldAppendOther ==
  ASSUME NEW s \in Seq(Messages), NEW m \in Messages, m.type # "SpawnDespawn"
  PROVE  /\ Spawned(Append(s, m)) = Spawned(s) /\ Despawned(Append(s, m)) = Despawned(s)
         /\ Ordered(Append(s, m)) <=> Ordered(s)
         /\ HasMessage(Append(s, m), "SpawnDespawn") <=> HasMessage(s, "SpawnDespawn")
  <1>1. Spawns!Members(SpawnsOf(m)) = {} /\ Spawns!Members(DespawnsOf(m)) = {}
    BY DEF SpawnsOf, DespawnsOf, Spawns!Members
  <1>2. /\ Spawned(Append(s, m)) = Spawned(s) \cup {}
        /\ Despawned(Append(s, m)) = Despawned(s) \cup {}
        /\ Ordered(Append(s, m)) <=> Ordered(s) /\ {} \cap Despawned(s) = {}
    BY <1>1, ToldAppend
  <1>3. HasMessage(Append(s, m), "SpawnDespawn") <=>
          HasMessage(s, "SpawnDespawn") \/ m.type = "SpawnDespawn"
    BY HasMessageAppend
  <1>4. QED
    BY <1>2, <1>3

\* What is taken from the beginning, and what is left.
LEMMA ToldParts ==
  ASSUME NEW s \in Seq(Messages), NEW k \in 0..Len(s)
  PROVE  /\ Spawned(s) = Spawned(Take(s, k)) \cup Spawned(Drop(s, k))
         /\ Despawned(s) = Despawned(Take(s, k)) \cup Despawned(Drop(s, k))
         /\ Ordered(s) <=> /\ Ordered(Take(s, k)) /\ Ordered(Drop(s, k))
                           /\ Spawned(Drop(s, k)) \cap Despawned(Take(s, k)) = {}
  <1> DEFINE a == Take(s, k)
             b == Drop(s, k)
  <1>1. a \in Seq(Messages) /\ b \in Seq(Messages) /\ a \o b = s
    BY TakeDrop, TakeAndDrop
  <1> HIDE DEF a, b
  <1>2. /\ Spawned(a \o b) = Spawned(a) \cup Spawned(b)
        /\ Despawned(a \o b) = Despawned(a) \cup Despawned(b)
        /\ Ordered(a \o b) <=> Ordered(a) /\ Ordered(b) /\ Spawned(b) \cap Despawned(a) = {}
    BY <1>1, ToldConcat
  <1>3. QED
    BY <1>1, <1>2 DEF a, b

\* Serialization tells the same.
LEMMA ToldSerialized ==
  ASSUME NEW s \in Seq(Messages), initMessage \in 0..MaxClientId
  PROVE  /\ Spawned(Serialized(s)) = Spawned(s) /\ Despawned(Serialized(s)) = Despawned(s)
         /\ Ordered(Serialized(s)) <=> Ordered(s)
         /\ HasMessage(Serialized(s), "SpawnDespawn") <=> HasMessage(s, "SpawnDespawn")
  <1>1. Len(Serialized(s)) = Len(s)
    BY SerializedType
  <1>2. ASSUME NEW k \in 1..Len(s)
        PROVE  /\ SpawnsOf(Serialized(s)[k]) = SpawnsOf(s[k])
               /\ DespawnsOf(Serialized(s)[k]) = DespawnsOf(s[k])
    <2>1. CASE s[k].type = "InitializeClient"
      <3>1. Serialized(s)[k].type = "InitializeClient"
        BY <2>1 DEF Serialized, InitializeClient
      <3>2. QED
        BY <2>1, <3>1 DEF SpawnsOf, DespawnsOf
    <2>2. CASE s[k].type # "InitializeClient"
      BY <2>2 DEF Serialized
    <2>3. QED
      BY <2>1, <2>2
  <1>3. QED
    BY <1>1, <1>2, HasMessageSerialized DEF Spawned, Despawned, Ordered

\* The queues of a client take what its messages tell.
LEMMA ToldIsQueued ==
  ASSUME NEW msgs \in Seq(Messages)
  PROVE  /\ Spawns!Members(AllSpawned(msgs)) = Spawned(msgs)
         /\ Spawns!Members(AllDespawned(msgs)) = Despawned(msgs)
  BY AllSpawnedMembers, AllDespawnedMembers DEF Spawned, Despawned

-----------------------------------------------------------------------------
(* What a client will know when it has read everything.                    *)

\* What the ready clients are told of before this tick, as in the record.
Announced ==
  (networkIds \cup Spawns!Members(newDespawns)) \ Spawns!Members(newSpawns)

\* The broadcast of this tick is still to come, for clients that became ready
\* in it too.
Telling == phase \in {"ready", "initialize", "broadcast"}

\* A network entity that was there and whose despawn was sent.
Forgotten(n) ==
  /\ n \in 1..(nextNetworkId - 1)
  /\ n \notin networkIds \cup Spawns!Members(newSpawns) \cup Spawns!Members(newDespawns)

\* What client c knows once it has handled its queues, what is on its way and
\* what is queued for it at entity e.
Expected(c, e) ==
  (known[c] \cup Spawns!Members(spawnQueue[c]) \cup Spawned(toClient[c]) \cup Spawned(toSend[e]))
    \ (Spawns!Members(despawnQueue[c]) \cup Despawned(toClient[c]) \cup Despawned(toSend[e]))

\* All that client c was told last, and that it will be told.
AllDespawns(c, e) ==
  Despawned(clientReceived[c]) \cup Despawned(toClient[c]) \cup Despawned(toSend[e])

\* No despawn comes before the spawn of the same network entity.
InOrder(c, e) ==
  /\ Ordered(clientReceived[c]) /\ Ordered(toClient[c]) /\ Ordered(toSend[e])
  /\ Spawned(toClient[c]) \cap Despawned(clientReceived[c]) = {}
  /\ Spawned(toSend[e]) \cap (Despawned(clientReceived[c]) \cup Despawned(toClient[c])) = {}

\* Between its application and its next receive, a client knows what its
\* messages told, unless they took it back: it may read them again.
Handled(c) ==
  clientPhase[c] \in {"idle", "end"} =>
    Spawned(clientReceived[c]) \subseteq known[c] \cup Despawned(clientReceived[c])

\* A client held for ready will know what is there, ...
Informed(c, e) ==
  /\ Expected(c, e) = Announced \/ (Telling /\ Expected(c, e) = networkIds)
  /\ \A n \in AllDespawns(c, e) : Forgotten(n)
  /\ InOrder(c, e)
  /\ Handled(c)

\* ... and one that is not was told nothing.
Uninformed(c, e) ==
  /\ known[c] = {}
  /\ ~HasMessage(clientReceived[c], "SpawnDespawn")
  /\ ~HasMessage(toClient[c], "SpawnDespawn")
  /\ ~HasMessage(toSend[e], "SpawnDespawn")

NewsOf(c, e) ==
  c \notin inherited =>
    IF "ClientIsReady" \in tags[e] THEN Intact(c, e) => Informed(c, e) ELSE Uninformed(c, e)

\* Before it is accepted a client knows nothing.
NotAcceptedKnowsNothing == \A c \in Conns : serverEnd[c] = "none" => known[c] = {}

\* The queues hold what the messages of this tick told.
QueuesAreRead ==
  \A c \in Conns \ inherited : clientPhase[c] = "app" =>
    /\ spawnQueue[c] = AllSpawned(clientReceived[c])
    /\ despawnQueue[c] = AllDespawned(clientReceived[c])

\* A tick ends with everything sent on connections that work, ...
AllSent ==
  \A e \in live :
    /\ "Connected" \in tags[e] /\ "PendingDisconnect" \notin tags[e]
    /\ phase = "idle" \/ (phase = "send" /\ e \notin todo)
    => toSend[e] = <<>>

\* ... and with nothing new to tell.
NothingNew ==
  phase \in {"stopped", "idle", "snapshot", "send"} => newSpawns = <<>> /\ newDespawns = <<>>

NewsInv ==
  /\ NotAcceptedKnowsNothing
  /\ QueuesAreRead
  /\ AllSent
  /\ NothingNew
  /\ \A e \in live, c \in Conns : conn[e] = c => NewsOf(c, e)

\* No client knows anything in the initial state.
LEMMA InitNewsInv == Init => NewsInv
  BY DEF Init, ServerInit, ClientInit, Spawns!Init, NewsInv, NotAcceptedKnowsNothing,
         QueuesAreRead, AllSent, NothingNew

\* A step that tells client c nothing new, and does not make it ready.
LEMMA SameNews ==
  ASSUME NEW c \in Conns, NEW e \in Entities, NewsOf(c, e),
         "ClientIsReady" \in tags'[e] <=> "ClientIsReady" \in tags[e],
         Intact(c, e)' => Intact(c, e), inherited \subseteq inherited',
         known'[c] = known[c], spawnQueue'[c] = spawnQueue[c],
         despawnQueue'[c] = despawnQueue[c], clientReceived'[c] = clientReceived[c],
         clientPhase'[c] \in {"idle", "end"} => clientPhase[c] \in {"idle", "end"},
         toClient'[c] = toClient[c],
         Spawned(toSend'[e]) = Spawned(toSend[e]),
         Despawned(toSend'[e]) = Despawned(toSend[e]),
         Ordered(toSend[e]) => Ordered(toSend'[e]),
         HasMessage(toSend'[e], "SpawnDespawn") => HasMessage(toSend[e], "SpawnDespawn"),
         UNCHANGED <<newSpawns, newDespawns, networkIds, nextNetworkId>>,
         Telling => Telling'
  PROVE  NewsOf(c, e)'
  <1> SUFFICES ASSUME c \notin inherited' PROVE NewsOf(c, e)'
    BY DEF NewsOf
  <1>0. c \notin inherited
    OBVIOUS
  <1>1. CASE "ClientIsReady" \notin tags'[e]
    <2>1. Uninformed(c, e)'
      BY <1>0, <1>1 DEF NewsOf, Uninformed
    <2>2. QED
      BY <1>1, <2>1 DEF NewsOf
  <1>2. CASE "ClientIsReady" \in tags'[e] /\ Intact(c, e)'
    <2>1. Informed(c, e)
      BY <1>0, <1>2 DEF NewsOf
    <2>2. /\ Expected(c, e)' = Expected(c, e) /\ Announced' = Announced
          /\ AllDespawns(c, e)' = AllDespawns(c, e)
      BY DEF Expected, Announced, AllDespawns
    <2>3. InOrder(c, e)'
      BY <2>1 DEF Informed, InOrder
    <2>4. Handled(c)'
      BY <2>1 DEF Informed, Handled
    <2>5. \A n : Forgotten(n) => Forgotten(n)'
      BY DEF Forgotten
    <2>6. Informed(c, e)'
      BY <2>1, <2>2, <2>3, <2>4, <2>5 DEF Informed
    <2>7. QED
      BY <1>2, <2>6 DEF NewsOf
  <1>3. QED
    BY <1>1, <1>2 DEF NewsOf

\* Whatever a step of the server does, it keeps the news of clients if it takes
\* none of the news, and no client becomes ready.
LEMMA QuietStepKeepsNews ==
  ASSUME NewsInv, Typed, ServerInv, UNCHANGED clientVars, live' \subseteq live,
         \A e \in live' :
           /\ conn'[e] = conn[e] /\ toSend'[e] = toSend[e]
           /\ "ClientIsReady" \in tags'[e] <=> "ClientIsReady" \in tags[e]
           /\ "Connected" \in tags'[e] /\ "PendingDisconnect" \notin tags'[e] =>
                "Connected" \in tags[e] /\ "PendingDisconnect" \notin tags[e],
         UNCHANGED <<toClient, clientEnd>>,
         \A c \in Conns : serverEnd'[c] = "none" => serverEnd[c] = "none",
         UNCHANGED <<newSpawns, newDespawns, networkIds, nextNetworkId>>,
         Telling => Telling', AllSent', NothingNew'
  PROVE  NewsInv'
  <1>1. ASSUME NEW e \in live', NEW c \in Conns, conn'[e] = c PROVE NewsOf(c, e)'
    <2>1. e \in live /\ e \in Entities /\ conn[e] = c
      BY <1>1 DEF ServerInv, TablesTyped
    <2>2. NewsOf(c, e)
      BY <2>1 DEF NewsInv
    <2>3. Intact(c, e)' => Intact(c, e)
      BY <1>1, <2>1 DEF Intact, clientVars
    <2>4. /\ toSend'[e] = toSend[e]
          /\ "ClientIsReady" \in tags'[e] <=> "ClientIsReady" \in tags[e]
      BY <1>1
    <2>5. QED
      BY <2>1, <2>2, <2>3, <2>4, SameNews DEF clientVars
  <1>2. NotAcceptedKnowsNothing'
    BY DEF NewsInv, NotAcceptedKnowsNothing, clientVars
  <1>3. QueuesAreRead'
    BY DEF NewsInv, QueuesAreRead, clientVars
  <1>4. QED
    BY <1>1, <1>2, <1>3 DEF NewsInv

\* The phases of a tick that neither receive nor send nor tell anything.
LEMMA PhasesKeepNews ==
  ASSUME NewsInv, Typed, ServerInv, UNCHANGED clientVars,
         \/ AcceptedSocketFails \/ AcceptDone \/ ReceiveDone \/ EndUpdate \/ ReportDone
         \/ ReadyDone \/ InitializeDone \/ SendDone
  PROVE  NewsInv'
  <1>1. UNCHANGED <<live, tags, conn, toSend, spawnVars, toClient, clientEnd>>
    BY DEF AcceptedSocketFails, AcceptAndClose, AcceptDone, ReceiveDone, EndUpdate, ReportDone,
           ReadyDone, InitializeDone, SendDone, ecs, link
  <1>2. \A c \in Conns : serverEnd'[c] = "none" => serverEnd[c] = "none"
    <2>1. CASE AcceptedSocketFails
      <3>1. /\ serverEnd \in [Conns -> {"none", "open", "closed"}]
            /\ serverEnd' = [serverEnd EXCEPT ![Head(backlog)] = "closed"]
        BY <2>1 DEF AcceptedSocketFails, AcceptAndClose, Typed, LinkTyped
      <3>2. QED
        BY <3>1
    <2>2. CASE ~AcceptedSocketFails
      BY <2>2 DEF AcceptDone, ReceiveDone, EndUpdate, ReportDone,
           ReadyDone, InitializeDone, SendDone, link
    <2>3. QED
      BY <2>1, <2>2
  <1>3. Telling => Telling'
    BY DEF AcceptedSocketFails, AcceptDone, ReceiveDone, EndUpdate, ReportDone,
           ReadyDone, InitializeDone, SendDone, Enter, Telling
  <1>4. AllSent'
    <2>1. CASE SendDone
      <3>1. phase = "send" /\ todo = {}
        BY <2>1 DEF SendDone
      <3>2. QED
        BY <1>1, <3>1 DEF NewsInv, AllSent
    <2>2. CASE ~SendDone
      <3>1. phase' \notin {"idle", "send"}
        BY <2>2 DEF AcceptedSocketFails, AcceptDone, ReceiveDone, EndUpdate, ReportDone,
             ReadyDone, InitializeDone, Enter
      <3>2. QED
        BY <3>1 DEF AllSent
    <2>3. QED
      BY <2>1, <2>2
  <1>5. NothingNew'
    <2>1. phase' \in {"stopped", "idle", "snapshot", "send"} => phase = "send"
      BY DEF AcceptedSocketFails, AcceptDone, ReceiveDone, EndUpdate, ReportDone,
           ReadyDone, InitializeDone, SendDone, Enter
    <2>2. QED
      BY <1>1, <2>1 DEF NewsInv, NothingNew, spawnVars
  <1>6. QED
    BY <1>1, <1>2, <1>3, <1>4, <1>5, QuietStepKeepsNews DEF spawnVars

\* The systems that take tags and connections away.
LEMMA ConnectionsKeepNews ==
  ASSUME NewsInv, Typed, ServerInv, TagInv, UNCHANGED clientVars,
         \/ Start \/ DisconnectSystem \/ PendingDisconnectSystem \/ ForgetNewConnections
  PROVE  NewsInv'
  <1>0. /\ live \subseteq Entities /\ tags \in [Entities -> SUBSET Tags]
        /\ conn \in [Entities -> Conns \cup {NoConn}]
        /\ toSend \in [Entities -> Seq(Messages)]
    BY DEF Typed, ServerTyped, ServerInv, TablesTyped
  <1>1. CASE Start
    <2>1. /\ phase = "stopped" /\ phase' = "idle"
          /\ UNCHANGED <<live, tags, conn, toSend, spawnVars, link>>
      BY <1>1 DEF Start, Enter, ecs
    <2>2. live = {}
      BY <2>1 DEF TagInv, StoppedIsEmpty
    <2>3. AllSent' /\ NothingNew' /\ (Telling => Telling')
      BY <2>1, <2>2 DEF NewsInv, AllSent, NothingNew, Telling, spawnVars
    <2>4. QED
      BY <2>1, <2>2, <2>3, QuietStepKeepsNews DEF spawnVars, link
  <1>2. CASE DisconnectSystem
    <2>1. /\ phase = "idle" /\ phase' = "pending"
          /\ DestroyEntities(ReportedEntities) /\ CloseServerEnds(Destroyed(ReportedEntities))
          /\ UNCHANGED spawnVars
      BY <1>2 DEF DisconnectSystem, Enter
    <2>2. /\ live' \subseteq live
          /\ \A e \in live' :
               conn'[e] = conn[e] /\ toSend'[e] = toSend[e] /\ tags'[e] = tags[e]
      BY <1>0, <2>1 DEF DestroyEntities
    <2>3. /\ UNCHANGED <<toClient, clientEnd>>
          /\ \A c \in Conns : serverEnd'[c] = "none" => serverEnd[c] = "none"
      BY <2>1 DEF CloseServerEnds
    <2>4. AllSent' /\ NothingNew' /\ (Telling => Telling')
      BY <2>1 DEF AllSent, NothingNew, Telling
    <2>5. QED
      BY <2>1, <2>2, <2>3, <2>4, QuietStepKeepsNews DEF spawnVars
  <1>3. CASE PendingDisconnectSystem
    <2>1. /\ phase = "pending" /\ phase' = "forget"
          /\ UNCHANGED <<live, conn, toSend, spawnVars, link>>
          /\ tags' = [e \in Entities |->
               IF e \in With("PendingDisconnect") \cap With("Connected")
               THEN (tags[e] \ {"PendingDisconnect", "Connected"}) \cup {"Disconnected"}
               ELSE tags[e]]
      BY <1>3 DEF PendingDisconnectSystem, Enter
    <2>2. \A e \in live :
            /\ "ClientIsReady" \in tags'[e] <=> "ClientIsReady" \in tags[e]
            /\ "Connected" \in tags'[e] => tags'[e] = tags[e]
      BY <1>0, <2>1
    <2>3. AllSent' /\ NothingNew' /\ (Telling => Telling')
      BY <2>1 DEF AllSent, NothingNew, Telling
    <2>4. QED
      BY <2>1, <2>2, <2>3, QuietStepKeepsNews DEF spawnVars, link
  <1>4. CASE ForgetNewConnections
    <2>1. /\ phase = "forget" /\ phase' = "accept"
          /\ UNCHANGED <<live, conn, toSend, spawnVars, link>>
          /\ tags' = [e \in Entities |-> tags[e] \ {"NewConnection"}]
      BY <1>4 DEF ForgetNewConnections, NoLongerNew, Enter
    <2>2. \A e \in live, t \in {"ClientIsReady", "Connected", "PendingDisconnect"} :
            t \in tags'[e] <=> t \in tags[e]
      BY <1>0, <2>1
    <2>3. AllSent' /\ NothingNew' /\ (Telling => Telling')
      BY <2>1 DEF AllSent, NothingNew, Telling
    <2>4. QED
      BY <2>1, <2>2, <2>3, QuietStepKeepsNews DEF spawnVars, link
  <1>5. QED
    BY <1>1, <1>2, <1>3, <1>4

\* A server that stops forgets network entities, and all connections with them.
LEMMA StopKeepsNews ==
  ASSUME NewsInv, UNCHANGED clientVars, Stop
  PROVE  NewsInv'
  <1>1. /\ phase' = "stopped" /\ live' = {} /\ newSpawns' = <<>> /\ newDespawns' = <<>>
    BY DEF Stop, Enter, DestroyEntities, Spawns!StopAndStart, Spawns!ClearAll
  <1>2. \A c \in Conns : serverEnd'[c] = "none" => serverEnd[c] = "none"
    BY DEF Stop, CloseListener
  <1>3. QED
    BY <1>1, <1>2 DEF NewsInv, NotAcceptedKnowsNothing, QueuesAreRead, AllSent, NothingNew,
                      clientVars

\* The loops that visit an entity without telling it anything.
LEMMA VisitsKeepNews ==
  ASSUME NewsInv, Typed, ServerInv, UNCHANGED clientVars, NEW e \in Entities,
         ReceiveTcpMessages(e) \/ ReceiveFails(e) \/ DisconnectedClient(e)
  PROVE  NewsInv'
  <1>1. /\ UNCHANGED <<live, conn, toSend, spawnVars, toClient, clientEnd, serverEnd>>
        /\ phase' = phase /\ phase \in {"receive", "report"}
        /\ tags' = tags \/ tags' = [tags EXCEPT ![e] = @ \cup {"PendingDisconnect"}]
    BY DEF ReceiveTcpMessages, ReceiveFails, DisconnectedClient, ServerReceives, Visited, Failed,
           ecs, link
  <1>2. tags \in [Entities -> SUBSET Tags] /\ live \subseteq Entities
    BY DEF ServerInv, TablesTyped
  <1>3. \A d \in live : /\ "ClientIsReady" \in tags'[d] <=> "ClientIsReady" \in tags[d]
                        /\ "Connected" \in tags'[d] <=> "Connected" \in tags[d]
                        /\ "PendingDisconnect" \in tags[d] => "PendingDisconnect" \in tags'[d]
    BY <1>1, <1>2
  <1>4. AllSent' /\ NothingNew' /\ (Telling => Telling')
    BY <1>1 DEF AllSent, NothingNew, Telling
  <1>5. QED
    BY <1>1, <1>3, <1>4, QuietStepKeepsNews DEF spawnVars

\* No step of the server touches what clients have read.
LEMMA ServerKeepsQueues ==
  ASSUME NewsInv, UNCHANGED clientVars,
         \A c \in Conns : serverEnd'[c] = "none" => serverEnd[c] = "none"
  PROVE  NotAcceptedKnowsNothing' /\ QueuesAreRead'
  BY DEF NewsInv, NotAcceptedKnowsNothing, QueuesAreRead, clientVars

\* Messages of other types are queued, which tell a client nothing new.
LEMMA QueueingKeepsNews ==
  ASSUME NewsInv, Typed, ServerInv, UNCHANGED clientVars,
         UNCHANGED <<live, conn, toClient, serverEnd, clientEnd>>,
         UNCHANGED <<newSpawns, newDespawns, networkIds, nextNetworkId>>,
         \A e \in live : \A t \in {"ClientIsReady", "Connected", "PendingDisconnect"} :
           t \in tags'[e] <=> t \in tags[e],
         \A e \in live :
           \/ toSend'[e] = toSend[e]
           \/ \E m \in Messages : m.type # "SpawnDespawn" /\ toSend'[e] = Append(toSend[e], m),
         Telling => Telling', AllSent', NothingNew'
  PROVE  NewsInv'
  <1>1. ASSUME NEW e \in live, NEW c \in Conns, conn[e] = c PROVE NewsOf(c, e)'
    <2>1. e \in Entities /\ toSend[e] \in Seq(Messages)
      BY DEF Typed, ServerTyped, ServerInv, TablesTyped
    <2>2. NewsOf(c, e)
      BY <1>1 DEF NewsInv
    <2>3. /\ Spawned(toSend'[e]) = Spawned(toSend[e])
          /\ Despawned(toSend'[e]) = Despawned(toSend[e])
          /\ Ordered(toSend'[e]) <=> Ordered(toSend[e])
          /\ HasMessage(toSend'[e], "SpawnDespawn") <=> HasMessage(toSend[e], "SpawnDespawn")
      <3>1. CASE toSend'[e] = toSend[e]
        BY <3>1
      <3>2. CASE \E m \in Messages :
                   m.type # "SpawnDespawn" /\ toSend'[e] = Append(toSend[e], m)
        BY <2>1, <3>2, ToldAppendOther
      <3>3. QED
        BY <3>1, <3>2
    <2>4. Intact(c, e)' => Intact(c, e)
      BY DEF Intact, clientVars
    <2>5. QED
      BY <2>1, <2>2, <2>3, <2>4, SameNews DEF clientVars
  <1>2. NotAcceptedKnowsNothing' /\ QueuesAreRead'
    BY ServerKeepsQueues
  <1>3. QED
    BY <1>1, <1>2 DEF NewsInv

\* On a new connection nothing was told.
LEMMA AcceptKeepsNews ==
  ASSUME NewsInv, QuietInv, ConnInv, Typed, ServerInv, UNCHANGED clientVars,
         NEW e \in Entities, AcceptConnection(e)
  PROVE  NewsInv'
  <1> DEFINE b == Head(backlog)
  <1>0. /\ tags \in [Entities -> SUBSET Tags] /\ live \subseteq Entities
        /\ serverEnd \in [Conns -> {"none", "open", "closed"}]
        /\ backlog \in Seq(Conns) /\ conn \in [Entities -> Conns \cup {NoConn}]
    BY DEF Typed, LinkTyped, ServerTyped, ServerInv, TablesTyped
  <1>1. /\ e \notin live /\ live' = live \cup {e} /\ phase = "accept" /\ phase' = "accept"
        /\ tags' = [tags EXCEPT ![e] = {"NewConnection", "Connected"}]
        /\ conn' = [conn EXCEPT ![e] = b]
        /\ serverEnd' = [serverEnd EXCEPT ![b] = "open"]
        /\ backlog # <<>>
        /\ UNCHANGED <<toSend, spawnVars, toClient, clientEnd>>
    BY DEF AcceptConnection, Accept
  <1>2. b \in Conns /\ b = backlog[1] /\ 1 \in 1..Len(backlog)
    BY <1>0, <1>1
  <1>3. serverEnd[b] = "none" /\ Quiet(b) /\ toSend[e] = <<>>
    BY <1>1, <1>2 DEF QuietInv, NotAcceptedIsQuiet, NoQueueWithoutEntity, ConnInv, BacklogInv
  <1>4. known[b] = {}
    BY <1>2, <1>3 DEF NewsInv, NotAcceptedKnowsNothing
  <1> HIDE DEF b
  <1>5. ASSUME NEW d \in live', NEW c \in Conns, conn'[d] = c PROVE NewsOf(c, d)'
    <2>1. CASE d = e
      <3>1. c = b /\ "ClientIsReady" \notin tags'[d]
        BY <1>0, <1>1, <1>5, <2>1
      <3>2. /\ clientReceived'[c] = <<>> /\ toClient'[c] = <<>> /\ toSend'[d] = <<>>
            /\ known'[c] = {}
        BY <1>1, <1>3, <1>4, <2>1, <3>1 DEF Quiet, clientVars
      <3>3. Uninformed(c, d)'
        BY <3>2, ToldEmpty DEF Uninformed
      <3>4. QED
        BY <3>1, <3>3 DEF NewsOf
    <2>2. CASE d # e
      <3>1. d \in live /\ d \in Entities /\ conn'[d] = conn[d] /\ tags'[d] = tags[d]
        BY <1>0, <1>1, <2>2
      <3>2. NewsOf(c, d)
        BY <1>5, <3>1 DEF NewsInv
      <3>3. Intact(c, d)' => Intact(c, d)
        BY <1>1, <3>1 DEF Intact, clientVars
      <3>4. Telling => Telling'
        BY <1>1 DEF Telling
      <3>5. QED
        BY <1>1, <3>1, <3>2, <3>3, <3>4, SameNews DEF clientVars, spawnVars
    <2>3. QED
      BY <2>1, <2>2
  <1>6. AllSent' /\ NothingNew'
    BY <1>1 DEF AllSent, NothingNew
  <1>7. NotAcceptedKnowsNothing' /\ QueuesAreRead'
    BY <1>0, <1>1, <1>2, ServerKeepsQueues
  <1>8. QED
    BY <1>5, <1>6, <1>7 DEF NewsInv

\* The application may send a message to a client that is ready.
LEMMA AppKeepsNews ==
  ASSUME NewsInv, Typed, ServerInv, UNCHANGED clientVars,
         NEW id \in Registry!ClientIds, SendTcpMessage(id)
  PROVE  NewsInv'
  <1> DEFINE e == Registry!GetEntity(id)
  <1>1. /\ toSend' = [toSend EXCEPT ![e] = Append(@, AppMessage)]
        /\ phase = "app" /\ phase' = "app"
        /\ UNCHANGED <<live, conn, tags, spawnVars, link>>
    BY DEF SendTcpMessage
  <1> HIDE DEF e
  <1>2. toSend \in [Entities -> Seq(Messages)] /\ live \subseteq Entities
    BY DEF Typed, ServerTyped, ServerInv, TablesTyped
  <1>3. AppMessage \in Messages /\ AppMessage.type # "SpawnDespawn"
    BY MessageTypes, MessageTypeNames
  <1>4. \A d \in live : toSend'[d] = toSend[d] \/ toSend'[d] = Append(toSend[d], AppMessage)
    BY <1>1, <1>2
  <1>5. AllSent' /\ NothingNew' /\ (Telling => Telling')
    BY <1>1 DEF AllSent, NothingNew, Telling
  <1>6. QED
    BY <1>1, <1>3, <1>4, <1>5, QueueingKeepsNews DEF link, spawnVars

\* Who is greeted is told nothing else.
LEMMA InitializeKeepsNews ==
  ASSUME NewsInv, Typed, ServerInv, UNCHANGED clientVars,
         NEW e \in Entities, InitializeNewClient(e)
  PROVE  NewsInv'
  <1>1. /\ toSend' = [toSend EXCEPT ![e] = Append(@, InitializeClient(0))]
        /\ tags' = [tags EXCEPT ![e] = @ \cup {"WaitingClientIsReady"}]
        /\ phase = "initialize" /\ phase' = "initialize"
        /\ UNCHANGED <<live, conn, spawnVars, link>>
    BY DEF InitializeNewClient, Visited
  <1>2. /\ toSend \in [Entities -> Seq(Messages)] /\ live \subseteq Entities
        /\ tags \in [Entities -> SUBSET Tags]
    BY DEF Typed, ServerTyped, ServerInv, TablesTyped
  <1>3. InitializeClient(0) \in Messages /\ InitializeClient(0).type # "SpawnDespawn"
    BY MessageTypes, MessageTypeNames, ServerAssumption DEF ServerAssumption
  <1>4. \A d \in live :
          toSend'[d] = toSend[d] \/ toSend'[d] = Append(toSend[d], InitializeClient(0))
    BY <1>1, <1>2
  <1>5. AllSent' /\ NothingNew' /\ (Telling => Telling')
    BY <1>1 DEF AllSent, NothingNew, Telling
  <1>6. \A d \in live : \A t \in {"ClientIsReady", "Connected", "PendingDisconnect"} :
           t \in tags'[d] <=> t \in tags[d]
    BY <1>1, <1>2
  <1>7. QED
    BY <1>1, <1>3, <1>4, <1>5, <1>6, QueueingKeepsNews DEF link, spawnVars

\* Snapshots tell of the components of network entities, not of entities.
LEMMA SnapshotsKeepNews ==
  ASSUME NewsInv, Typed, ServerInv, UNCHANGED clientVars, SendSnapshots
  PROVE  NewsInv'
  <1>1. /\ toSend' = [e \in Entities |->
             IF "snapshot" \in Traffic /\ e \in live THEN Append(toSend[e], Snapshot)
             ELSE toSend[e]]
        /\ phase = "snapshot" /\ phase' = "send" /\ todo' = Linked
        /\ UNCHANGED <<live, conn, tags, spawnVars, link>>
    BY DEF SendSnapshots, Enter
  <1>2. live \subseteq Entities
    BY DEF ServerInv, TablesTyped
  <1>3. Snapshot \in Messages /\ Snapshot.type # "SpawnDespawn"
    BY MessageTypes, MessageTypeNames
  <1>4. \A d \in live : toSend'[d] = toSend[d] \/ toSend'[d] = Append(toSend[d], Snapshot)
    BY <1>1, <1>2
  <1>5. AllSent'
    BY <1>1 DEF AllSent, Linked, With
  <1>6. NothingNew' /\ (Telling => Telling')
    BY <1>1 DEF NewsInv, NothingNew, Telling, spawnVars
  <1>7. QED
    BY <1>1, <1>3, <1>4, <1>5, <1>6, QueueingKeepsNews DEF link, spawnVars

\* The application creates and destroys network entities: the news grow, what
\* was announced stays.
LEMMA RecordKeepsNews ==
  ASSUME NewsInv, UNCHANGED <<clientVars, ecs, link>>,
         phase = "app", phase' = "app",
         Announced' = Announced, \A n : Forgotten(n) => Forgotten(n)'
  PROVE  NewsInv'
  <1>1. ASSUME NEW e \in live, NEW c \in Conns, conn[e] = c PROVE NewsOf(c, e)'
    <2>1. NewsOf(c, e)
      BY <1>1 DEF NewsInv
    <2>2. /\ Uninformed(c, e)' <=> Uninformed(c, e)
          /\ Intact(c, e)' <=> Intact(c, e)
          /\ UNCHANGED <<tags, inherited>>
      BY DEF Uninformed, Intact, clientVars, ecs, link
    <2>3. ASSUME Informed(c, e) PROVE Informed(c, e)'
      <3>1. Expected(c, e)' = Expected(c, e) /\ AllDespawns(c, e)' = AllDespawns(c, e)
        BY DEF Expected, AllDespawns, clientVars, ecs, link
      <3>2. InOrder(c, e)' /\ Handled(c)'
        BY <2>3 DEF Informed, InOrder, Handled, clientVars, ecs, link
      <3>3. Expected(c, e) = Announced
        BY <2>3 DEF Informed, Telling
      <3>4. QED
        BY <2>3, <3>1, <3>2, <3>3 DEF Informed
    <2>4. QED
      BY <2>1, <2>2, <2>3 DEF NewsOf
  <1>2. AllSent' /\ NothingNew'
    BY DEF AllSent, NothingNew
  <1>3. NotAcceptedKnowsNothing' /\ QueuesAreRead'
    BY ServerKeepsQueues DEF link
  <1>4. QED
    BY <1>1, <1>2, <1>3 DEF NewsInv, ecs

\* An entity that is created is new until the broadcast.
LEMMA CreateKeepsNews ==
  ASSUME NewsInv, Spawns!SpawnInv, UNCHANGED clientVars, CreateNetworkEntity
  PROVE  NewsInv'
  <1> DEFINE n == nextNetworkId
  <1>1. /\ networkIds' = networkIds \cup {n} /\ nextNetworkId' = n + 1
        /\ newSpawns' = Append(newSpawns, n) /\ newDespawns' = newDespawns
        /\ n \in Spawns!NetworkIds
        /\ UNCHANGED <<phase, ecs, link>> /\ phase = "app"
    BY DEF CreateNetworkEntity, Spawns!CreateNetworkEntity, Spawns!AddSpawnMessage
  <1>2. /\ newSpawns \in Seq(Spawns!NetworkIds) /\ n \in Nat
        /\ \A m \in networkIds \cup Spawns!Members(newDespawns) : m < n
    BY DEF Spawns!SpawnInv, Spawns!TypeOK
  <1> HIDE DEF n
  <1>3. Spawns!Members(newSpawns') = Spawns!Members(newSpawns) \cup {n}
    BY <1>1, <1>2, AppendOther
  <1>4. n \notin networkIds \cup Spawns!Members(newDespawns)
    BY <1>2
  <1>5. Announced' = Announced
    BY <1>1, <1>3, <1>4 DEF Announced
  <1>6. \A m : Forgotten(m) => Forgotten(m)'
    BY <1>1, <1>2, <1>3 DEF Forgotten, n
  <1>7. QED
    BY <1>1, <1>5, <1>6, RecordKeepsNews

\* An entity that is destroyed is announced as such, also one that is new.
LEMMA DestroyKeepsNews ==
  ASSUME NewsInv, Spawns!SpawnInv, UNCHANGED clientVars,
         NEW n \in Spawns!NetworkIds, DestroyNetworkEntity(n)
  PROVE  NewsInv'
  <1>1. /\ Spawns!AddDespawn(n) /\ networkIds' = networkIds \ {n}
        /\ nextNetworkId' = nextNetworkId
        /\ UNCHANGED <<phase, ecs, link>> /\ phase = "app"
    BY DEF DestroyNetworkEntity, Spawns!DestroyNetworkEntity, Spawns!RemoveNetworkId
  <1>2. /\ newDespawns \in Seq(Spawns!NetworkIds)
        /\ DOMAIN spawnLookup = networkIds
    BY DEF Spawns!SpawnInv, Spawns!TypeOK, Spawns!TablesAgree
  <1>3. CASE n \notin networkIds
    <2>1. UNCHANGED <<newSpawns, newDespawns, networkIds>>
      BY <1>1, <1>2, <1>3 DEF Spawns!AddDespawn, Spawns!spawnRecord
    <2>2. QED
      BY <1>1, <2>1, RecordKeepsNews DEF Announced, Forgotten
  <1>4. CASE n \in networkIds
    <2>1. spawns # <<>>
      <3>1. spawnLookup[n] \in 1..Len(spawns)
        BY <1>2, <1>4 DEF Spawns!SpawnInv, Spawns!TypeOK, Spawns!IsMap
      <3>2. QED
        BY <3>1
    <2>2. newDespawns' = Append(newDespawns, n) /\ newSpawns' = newSpawns
      BY <1>1, <1>2, <1>4, <2>1 DEF Spawns!AddDespawn, Spawns!RecordDespawn
    <2>3. Spawns!Members(newDespawns') = Spawns!Members(newDespawns) \cup {n}
      BY <1>2, <2>2, AppendOther
    <2>4. networkIds' \cup Spawns!Members(newDespawns')
            = networkIds \cup Spawns!Members(newDespawns)
      BY <1>1, <1>4, <2>3
    <2>5. Announced' = Announced
      BY <2>2, <2>4 DEF Announced
    <2>6. \A m : Forgotten(m) => Forgotten(m)'
      BY <1>1, <2>2, <2>4 DEF Forgotten
    <2>7. QED
      BY <1>1, <2>5, <2>6, RecordKeepsNews
  <1>5. QED
    BY <1>3, <1>4

\* The queues of a client hold nothing its messages did not tell.
LEMMA QueuesHoldTold ==
  ASSUME NewsInv, QueuesTaken, Typed, NEW c \in Conns, c \notin inherited,
         clientPhase[c] # "disconnected"
  PROVE  /\ Spawns!Members(spawnQueue[c]) \subseteq Spawned(clientReceived[c])
         /\ Spawns!Members(despawnQueue[c]) \subseteq Despawned(clientReceived[c])
  <1>1. clientReceived[c] \in Seq(Messages)
    BY HeardTyped
  <1>2. CASE clientPhase[c] = "app"
    BY <1>1, <1>2, ToldIsQueued DEF NewsInv, QueuesAreRead
  <1>3. CASE clientPhase[c] # "app"
    <2>1. spawnQueue[c] = <<>> /\ despawnQueue[c] = <<>>
      BY <1>3 DEF QueuesTaken
    <2>2. QED
      BY <2>1 DEF Spawns!Members
  <1>4. QED
    BY <1>2, <1>3

\* A client of which nothing was told has nothing to handle.
LEMMA UninformedHasNothing ==
  ASSUME NewsInv, QueuesTaken, Typed, NEW c \in Conns, NEW e, Uninformed(c, e),
         c \notin inherited, clientPhase[c] # "disconnected"
  PROVE  /\ known[c] = {}
         /\ Spawns!Members(spawnQueue[c]) = {} /\ Spawns!Members(despawnQueue[c]) = {}
         /\ Spawned(clientReceived[c]) = {} /\ Despawned(clientReceived[c]) = {}
         /\ Spawned(toClient[c]) = {} /\ Despawned(toClient[c]) = {}
         /\ Spawned(toSend[e]) = {} /\ Despawned(toSend[e]) = {}
         /\ Ordered(clientReceived[c]) /\ Ordered(toClient[c]) /\ Ordered(toSend[e])
  BY QueuesHoldTold, ToldNothing DEF Uninformed

\* Who becomes ready is told of every network entity.
LEMMA AllSpawnsTold ==
  ASSUME Spawns!SpawnInv
  PROVE  /\ AllSpawns \in Seq(Messages)
         /\ Spawned(AllSpawns) = networkIds /\ Despawned(AllSpawns) = {} /\ Ordered(AllSpawns)
  <1>1. Spawns!Members(spawns) = networkIds
    <2>1. SpawnFacts!SpawnInv
      BY SameSpawnInv
    <2>2. SpawnFacts!Members(spawns) = networkIds
      BY <2>1, SpawnConstants, SpawnFacts!MembersAreNetworkIds
    <2>3. QED
      BY <2>2 DEF Spawns!Members, SpawnFacts!Members
  <1>2. CASE spawns = <<>>
    <2>1. Spawns!Members(spawns) = {}
      BY <1>2 DEF Spawns!Members
    <2>2. AllSpawns = <<>> /\ AllSpawns \in Seq(Messages)
      BY <1>2 DEF AllSpawns
    <2>3. QED
      BY <1>1, <2>1, <2>2, ToldEmpty
  <1>3. CASE spawns # <<>>
    <2> DEFINE m == SpawnDespawn(spawns, <<>>)
    <2>1. m \in Messages
      <3>1. spawns \in Seq(Spawns!NetworkIds) /\ <<>> \in Seq(Spawns!NetworkIds)
        BY DEF Spawns!SpawnInv, Spawns!TypeOK
      <3>2. QED
        BY <3>1, MessageTypes
    <2>2. SpawnsOf(m) = spawns /\ DespawnsOf(m) = <<>>
      BY DEF SpawnsOf, DespawnsOf, SpawnDespawn
    <2> HIDE DEF m
    <2>3. /\ AllSpawns = <<m>> /\ AllSpawns = Append(<<>>, m)
          /\ <<>> \in Seq(Messages) /\ <<m>> \in Seq(Messages)
      BY <1>3, <2>1 DEF AllSpawns, m
    <2>4. Spawns!Members(DespawnsOf(m)) = {} /\ Spawns!Members(SpawnsOf(m)) = networkIds
      BY <1>1, <2>2 DEF Spawns!Members
    <2> DEFINE none == <<>>
    <2>5. none \in Seq(Messages) /\ Spawned(none) = {} /\ Despawned(none) = {} /\ Ordered(none)
      BY <2>3, ToldEmpty
    <2> HIDE DEF none
    <2>t. /\ Spawned(Append(none, m)) = Spawned(none) \cup Spawns!Members(SpawnsOf(m))
          /\ Despawned(Append(none, m)) = Despawned(none) \cup Spawns!Members(DespawnsOf(m))
          /\ Ordered(Append(none, m)) <=>
               Ordered(none) /\ Spawns!Members(SpawnsOf(m)) \cap Despawned(none) = {}
      BY <2>1, <2>5, ToldAppend
    <2>6. /\ Spawned(Append(none, m)) = networkIds /\ Despawned(Append(none, m)) = {}
          /\ Ordered(Append(none, m))
      BY <2>4, <2>5, <2>t
    <2>7. QED
      BY <2>3, <2>6 DEF none
  <1>4. QED
    BY <1>2, <1>3

\* A client that becomes ready has heard nothing of network entities, and is
\* told of all there are: of those of this tick twice.
LEMMA ReadyKeepsNews ==
  ASSUME NewsInv, QueuesTaken, TagInv, Typed, ServerInv, Spawns!SpawnInv, UNCHANGED clientVars,
         NEW e \in Entities, SetClientReady(e)
  PROVE  NewsInv'
  <1>0. /\ live \subseteq Entities /\ e \in live /\ toSend \in [Entities -> Seq(Messages)]
        /\ tags \in [Entities -> SUBSET Tags]
        /\ toSend[e] \in Seq(Messages)
    BY DEF Typed, ServerTyped, ServerInv, TablesTyped, SetClientReady
  <1>1. /\ UNCHANGED <<live, conn, spawnVars, link>>
        /\ phase = "ready" /\ phase' = "ready"
        /\ e \in todo
    BY DEF SetClientReady, Visited
  <1>2. AllSent' /\ NothingNew' /\ (Telling => Telling')
    BY <1>1 DEF AllSent, NothingNew, Telling
  <1>3. NotAcceptedKnowsNothing' /\ QueuesAreRead'
    BY <1>1, ServerKeepsQueues DEF link
  <1>4. ASSUME NEW d \in live, NEW c \in Conns, conn[d] = c,
               toSend'[d] = toSend[d], tags'[d] = tags[d]
        PROVE  NewsOf(c, d)'
    <2>1. NewsOf(c, d) /\ d \in Entities
      BY <1>0, <1>4 DEF NewsInv
    <2>2. Intact(c, d)' => Intact(c, d)
      BY <1>1, <1>4 DEF Intact, clientVars, link
    <2>3. QED
      BY <1>1, <1>2, <1>4, <2>1, <2>2, SameNews DEF clientVars, spawnVars, link
  <1>5. CASE ~SaidReady(e)
    <2>1. UNCHANGED <<tags, toSend>>
      BY <1>5 DEF SetClientReady
    <2>2. QED
      BY <1>1, <1>2, <1>3, <1>4, <2>1 DEF NewsInv
  <1>6. CASE SaidReady(e)
    <2>1. /\ tags' = [tags EXCEPT ![e] = (@ \ {"WaitingClientIsReady"}) \cup {"ClientIsReady"}]
          /\ toSend' = [toSend EXCEPT ![e] = @ \o AllSpawns]
      BY <1>6 DEF SetClientReady
    <2>2. "ClientIsReady" \notin tags[e]
      BY <1>1 DEF TagInv, LoopsOverTags, TagsExclusive
    <2>3. "ClientIsReady" \in tags'[e] /\ toSend'[e] = toSend[e] \o AllSpawns
      BY <1>0, <2>1
    <2>4. ASSUME NEW c \in Conns, conn[e] = c PROVE NewsOf(c, e)'
      <3> SUFFICES ASSUME Intact(c, e)' PROVE Informed(c, e)'
        BY <2>3 DEF NewsOf
      <3>0. c \notin inherited /\ clientPhase[c] # "disconnected"
        BY DEF Intact, clientVars
      <3>1. Uninformed(c, e)
        BY <1>0, <2>2, <2>4, <3>0 DEF NewsInv, NewsOf
      <3>2. /\ known[c] = {}
            /\ Spawns!Members(spawnQueue[c]) = {} /\ Spawns!Members(despawnQueue[c]) = {}
            /\ Spawned(clientReceived[c]) = {} /\ Despawned(clientReceived[c]) = {}
            /\ Spawned(toClient[c]) = {} /\ Despawned(toClient[c]) = {}
            /\ Spawned(toSend[e]) = {} /\ Despawned(toSend[e]) = {}
            /\ Ordered(clientReceived[c]) /\ Ordered(toClient[c]) /\ Ordered(toSend[e])
        BY <3>0, <3>1, UninformedHasNothing
      <3>3. /\ Spawned(toSend'[e]) = networkIds /\ Despawned(toSend'[e]) = {}
            /\ Ordered(toSend'[e])
        <4> DEFINE s == toSend[e]
                   t == AllSpawns
        <4>0. /\ s \in Seq(Messages) /\ t \in Seq(Messages)
              /\ Spawned(s) = {} /\ Despawned(s) = {} /\ Ordered(s)
              /\ Spawned(t) = networkIds /\ Despawned(t) = {} /\ Ordered(t)
          BY <1>0, <3>2, AllSpawnsTold
        <4> HIDE DEF s, t
        <4>b. /\ Spawned(s \o t) = Spawned(s) \cup Spawned(t)
              /\ Despawned(s \o t) = Despawned(s) \cup Despawned(t)
              /\ Ordered(s \o t) <=>
                   Ordered(s) /\ Ordered(t) /\ Spawned(t) \cap Despawned(s) = {}
          BY <4>0, ToldConcat
        <4>a. Spawned(s \o t) = networkIds /\ Despawned(s \o t) = {} /\ Ordered(s \o t)
          BY <4>0, <4>b
        <4>1. /\ Spawned(toSend[e] \o AllSpawns) = networkIds
              /\ Despawned(toSend[e] \o AllSpawns) = {} /\ Ordered(toSend[e] \o AllSpawns)
          BY <4>a DEF s, t
        <4>2. QED
          BY <2>3, <4>1
      <3>4. /\ UNCHANGED <<known, spawnQueue, despawnQueue, clientReceived, clientPhase,
                 toClient>>
            /\ networkIds' = networkIds /\ Telling'
        BY <1>1 DEF clientVars, link, spawnVars, Telling
      <3>5. Expected(c, e)' = networkIds' /\ AllDespawns(c, e)' = {}
        BY <3>2, <3>3, <3>4 DEF Expected, AllDespawns
      <3>6. InOrder(c, e)' /\ Handled(c)'
        BY <3>2, <3>3, <3>4 DEF InOrder, Handled
      <3>7. QED
        BY <3>4, <3>5, <3>6 DEF Informed
    <2>5. \A d \in live \ {e} : toSend'[d] = toSend[d] /\ tags'[d] = tags[d]
      BY <1>0, <2>1
    <2>6. ASSUME NEW d \in live', NEW c \in Conns, conn'[d] = c PROVE NewsOf(c, d)'
      BY <1>1, <1>4, <2>4, <2>5, <2>6
    <2>7. QED
      BY <1>2, <1>3, <2>6 DEF NewsInv
  <1>7. QED
    BY <1>5, <1>6

\* The broadcast reaches every registered entity.
LEMMA RegisteredAreListed ==
  ASSUME ServerInv
  PROVE  registered \subseteq Registry!Registered
  <1>1. ASSUME NEW e \in registered PROVE e \in Registry!Registered
    <2> DEFINE id == Registry!GetClientId(e)
    <2>1. id \in DOMAIN clientEntityLookup /\ Registry!GetEntity(id) = e
      BY RegistryLookups
    <2>2. clientEntityLookup[id] \in 1..Len(entities) /\ entities[clientEntityLookup[id]] = e
      BY <2>1 DEF Registry!GetEntity, ServerInv, Facts!RegistryInv, Facts!TypeOK, Facts!IsMap
    <2>3. QED
      BY <2>2 DEF Registry!Registered
  <1>2. QED
    BY <1>1

\* The broadcast takes every ready client from what was announced, or from what
\* exists, to what exists.
LEMMA BroadcastKeepsNews ==
  ASSUME NewsInv, QueuesTaken, AnswerInv, TagInv, Typed, ServerInv, Spawns!SpawnInv,
         UNCHANGED clientVars,
         SendNewSpawnDespawn
  PROVE  NewsInv'
  <1> DEFINE m == SpawnDespawn(newSpawns, newDespawns)
             NS == Spawns!Members(newSpawns)
             ND == Spawns!Members(newDespawns)
  <1>1. /\ toSend' = [e \in Entities |->
             IF HasNews /\ e \in Audience THEN Append(toSend[e], m) ELSE toSend[e]]
        /\ newSpawns' = <<>> /\ newDespawns' = <<>>
        /\ UNCHANGED <<live, conn, tags, networkIds, nextNetworkId, link>>
        /\ phase = "broadcast" /\ phase' = "snapshot"
    BY DEF SendNewSpawnDespawn, Enter, ForgetNews, Spawns!EndOfTick, Spawns!ClearNewSpawnDespawn
  <1>2. m \in Messages /\ SpawnsOf(m) = newSpawns /\ DespawnsOf(m) = newDespawns
    <2>1. newSpawns \in Seq(Spawns!NetworkIds) /\ newDespawns \in Seq(Spawns!NetworkIds)
      BY DEF Spawns!SpawnInv, Spawns!TypeOK
    <2>2. QED
      BY <2>1, MessageTypes DEF SpawnsOf, DespawnsOf, SpawnDespawn
  <1>3. live \subseteq Entities /\ \A e \in Entities : toSend[e] \in Seq(Messages)
    BY DEF Typed, ServerTyped, ServerInv, TablesTyped
  <1>4. /\ networkIds \cap ND = {} /\ NS \subseteq networkIds \cup ND
        /\ ND \subseteq 1..(nextNetworkId - 1)
    <2>1. /\ ND \subseteq Spawns!NetworkIds /\ nextNetworkId \in Nat
      BY DEF Spawns!SpawnInv, Spawns!TypeOK, Spawns!Members
    <2>2. \A n \in ND : n \in Nat /\ n >= 1 /\ n < nextNetworkId
      BY <2>1, ServerAssumption DEF Spawns!SpawnInv, Spawns!NetworkIds, ServerAssumption
    <2>3. QED
      BY <2>1, <2>2 DEF Spawns!SpawnInv
  <1>5. Spawns!Members(newSpawns') = {} /\ Spawns!Members(newDespawns') = {}
    BY <1>1 DEF Spawns!Members
  <1>6. Announced' = networkIds
    BY <1>1, <1>5 DEF Announced
  <1>7. /\ \A n : Forgotten(n) => Forgotten(n)'
        /\ \A n \in ND : Forgotten(n)'
        /\ \A n : Forgotten(n) => n \notin NS \cup ND
    BY <1>1, <1>4, <1>5 DEF Forgotten
  <1>8. ASSUME NEW e \in live, NEW c \in Conns, conn[e] = c PROVE NewsOf(c, e)'
    <2> SUFFICES ASSUME c \notin inherited' PROVE NewsOf(c, e)'
      BY DEF NewsOf
    <2>0. e \in Entities /\ NewsOf(c, e) /\ c \notin inherited
      BY <1>3, <1>8 DEF NewsInv, clientVars
    <2>1. CASE "ClientIsReady" \notin tags[e]
      <3>1. toSend'[e] = toSend[e]
        BY <1>1, <2>0, <2>1 DEF Audience
      <3>2. Uninformed(c, e)'
        BY <1>1, <2>0, <2>1, <3>1 DEF NewsOf, Uninformed, clientVars, link
      <3>3. QED
        BY <1>1, <2>1, <3>2 DEF NewsOf
    <2>2. CASE "ClientIsReady" \in tags[e] /\ Intact(c, e)'
      <3>1. Intact(c, e)
        BY <1>1, <2>2 DEF Intact, clientVars, link
      <3>2. Informed(c, e)
        BY <2>0, <2>2, <3>1 DEF NewsOf
      <3>3. e \in Audience
        <4>1. "Disconnected" \notin tags[e]
          BY <2>0, <3>1 DEF TagInv, TagsExclusive, Intact
        <4>2. e \in registered
          BY <1>1, <2>2, <4>1 DEF AnswerInv, BegunIsRegistered, Begun
        <4>3. QED
          BY <2>2, <4>2, RegisteredAreListed DEF Audience
      <3>4. /\ Spawned(toSend'[e]) = Spawned(toSend[e]) \cup NS
            /\ Despawned(toSend'[e]) = Despawned(toSend[e]) \cup ND
            /\ Ordered(toSend'[e]) <=> Ordered(toSend[e]) /\ NS \cap Despawned(toSend[e]) = {}
        <4>1. CASE HasNews
          <5>1. toSend'[e] = Append(toSend[e], m)
            BY <1>1, <2>0, <3>3, <4>1
          <5>2. QED
            BY <1>2, <1>3, <2>0, <5>1, ToldAppend
        <4>2. CASE ~HasNews
          <5>1. toSend'[e] = toSend[e]
            BY <1>1, <2>0, <4>2
          <5>2. NS = {} /\ ND = {}
            BY <4>2 DEF HasNews, Spawns!Members
          <5>3. QED
            BY <5>1, <5>2
        <4>3. QED
          BY <4>1, <4>2
      <3> HIDE DEF m, NS, ND
      <3>5. UNCHANGED <<known, spawnQueue, despawnQueue, clientReceived, clientPhase, toClient>>
        BY <1>1 DEF clientVars, link
      <3>6. /\ AllDespawns(c, e)' = AllDespawns(c, e) \cup ND
            /\ \A n \in AllDespawns(c, e) : Forgotten(n)
        BY <3>2, <3>4, <3>5 DEF AllDespawns, Informed
      <3>7. AllDespawns(c, e) \cap NS = {}
        BY <1>7, <3>6
      <3>8. \A n \in AllDespawns(c, e)' : Forgotten(n)'
        BY <1>7, <3>6
      <3>9. InOrder(c, e)'
        <4>1. InOrder(c, e)
          BY <3>2 DEF Informed
        <4>2. /\ NS \cap Despawned(toSend[e]) = {} /\ NS \cap Despawned(toClient[c]) = {}
              /\ NS \cap Despawned(clientReceived[c]) = {}
          BY <3>7 DEF AllDespawns
        <4>3. Ordered(toSend'[e])
          BY <3>4, <4>1, <4>2 DEF InOrder
        <4>4. Spawned(toSend'[e]) \cap (Despawned(clientReceived'[c])
                \cup Despawned(toClient'[c]))
                = {}
          BY <3>4, <3>5, <4>1, <4>2 DEF InOrder
        <4>5. QED
          BY <3>5, <4>1, <4>3, <4>4 DEF InOrder
      <3>10. Handled(c)'
        BY <3>2, <3>5 DEF Informed, Handled
      <3>11. Expected(c, e)' = networkIds
        <4> DEFINE K == known[c] \cup Spawns!Members(spawnQueue[c]) \cup Spawned(toClient[c])
                          \cup Spawned(toSend[e])
                   D == Spawns!Members(despawnQueue[c]) \cup Despawned(toClient[c])
                          \cup Despawned(toSend[e])
        <4>1. Expected(c, e) = K \ D /\ Expected(c, e)' = (K \cup NS) \ (D \cup ND)
          BY <3>4, <3>5 DEF Expected
        <4>2. D \cap NS = {}
          <5>1. Spawns!Members(despawnQueue[c]) \cap NS = {}
            BY <2>0, <3>1, <3>7, QueuesHoldTold DEF AllDespawns, Intact
          <5>2. QED
            BY <3>7, <5>1 DEF AllDespawns
        <4> HIDE DEF K, D
        <4>3. Expected(c, e)' = (Expected(c, e) \cup NS) \ ND
          BY <4>1, <4>2
        <4>4. Expected(c, e) = (networkIds \cup ND) \ NS \/ Expected(c, e) = networkIds
          BY <3>2 DEF Informed, Announced, NS, ND
        <4>5. QED
          BY <1>4, <4>3, <4>4
      <3>12. Expected(c, e)' = Announced'
        BY <1>6, <3>11
      <3>13. Informed(c, e)'
        BY <3>8, <3>9, <3>10, <3>12 DEF Informed
      <3>14. QED
        BY <1>1, <2>2, <3>13 DEF NewsOf
    <2>3. QED
      BY <1>1, <2>1, <2>2 DEF NewsOf
  <1>9. AllSent' /\ NothingNew'
    BY <1>1 DEF AllSent, NothingNew
  <1>10. NotAcceptedKnowsNothing' /\ QueuesAreRead'
    BY <1>1, ServerKeepsQueues DEF link
  <1>11. QED
    BY <1>1, <1>8, <1>9, <1>10 DEF NewsInv

\* What was queued is told in its order by what is sent of it and what is left.
LEMMA ToldWhenSent ==
  ASSUME NEW way \in Seq(Messages), NEW queue \in Seq(Messages), NEW k \in 0..Len(queue),
         initMessage \in 0..MaxClientId
  PROVE  LET sent == Serialized(Take(queue, k))
             left == Drop(queue, k)
         IN /\ Spawned(way \o sent) \cup Spawned(left) = Spawned(way) \cup Spawned(queue)
            /\ Despawned(way \o sent) \cup Despawned(left) = Despawned(way) \cup Despawned(queue)
            /\ Ordered(way) /\ Ordered(queue) /\ Spawned(queue) \cap Despawned(way) = {} =>
                 /\ Ordered(way \o sent) /\ Ordered(left)
                 /\ Spawned(left) \cap Despawned(way \o sent) = {}
            /\ ~HasMessage(way, "SpawnDespawn") /\ ~HasMessage(queue, "SpawnDespawn") =>
                 ~HasMessage(way \o sent, "SpawnDespawn") /\ ~HasMessage(left, "SpawnDespawn")
            /\ ~HasMessage(queue, "SpawnDespawn") => ~HasMessage(left, "SpawnDespawn")
  <1> DEFINE first == Take(queue, k)
             sent == Serialized(first)
             left == Drop(queue, k)
  <1>1. first \in Seq(Messages) /\ left \in Seq(Messages)
    BY TakeDrop
  <1>2. /\ Spawned(queue) = Spawned(first) \cup Spawned(left)
        /\ Despawned(queue) = Despawned(first) \cup Despawned(left)
        /\ Ordered(queue) <=> /\ Ordered(first) /\ Ordered(left)
                              /\ Spawned(left) \cap Despawned(first) = {}
    BY ToldParts
  <1>3. ~HasMessage(queue, "SpawnDespawn") =>
          ~HasMessage(first, "SpawnDespawn") /\ ~HasMessage(left, "SpawnDespawn")
    BY HasMessageParts
  <1> HIDE DEF first, left
  <1>4. /\ sent \in Seq(Messages)
        /\ Spawned(sent) = Spawned(first) /\ Despawned(sent) = Despawned(first)
        /\ Ordered(sent) <=> Ordered(first)
        /\ HasMessage(sent, "SpawnDespawn") <=> HasMessage(first, "SpawnDespawn")
    BY <1>1, SerializedType, ToldSerialized
  <1> HIDE DEF sent
  <1>5. /\ Spawned(way \o sent) = Spawned(way) \cup Spawned(sent)
        /\ Despawned(way \o sent) = Despawned(way) \cup Despawned(sent)
        /\ Ordered(way \o sent) <=>
             Ordered(way) /\ Ordered(sent) /\ Spawned(sent) \cap Despawned(way) = {}
    BY <1>4, ToldConcat
  <1>6. HasMessage(way \o sent, "SpawnDespawn") <=>
          HasMessage(way, "SpawnDespawn") \/ HasMessage(sent, "SpawnDespawn")
    BY <1>4, HasMessageConcat
  <1>7. /\ Spawned(way \o sent) \cup Spawned(left) = Spawned(way) \cup Spawned(queue)
        /\ Despawned(way \o sent) \cup Despawned(left) = Despawned(way) \cup Despawned(queue)
    BY <1>2, <1>4, <1>5
  <1>8. Ordered(way) /\ Ordered(queue) /\ Spawned(queue) \cap Despawned(way) = {} =>
          /\ Ordered(way \o sent) /\ Ordered(left)
          /\ Spawned(left) \cap Despawned(way \o sent) = {}
    BY <1>2, <1>4, <1>5
  <1>9. /\ ~HasMessage(way, "SpawnDespawn") /\ ~HasMessage(queue, "SpawnDespawn") =>
             ~HasMessage(way \o sent, "SpawnDespawn") /\ ~HasMessage(left, "SpawnDespawn")
        /\ ~HasMessage(queue, "SpawnDespawn") => ~HasMessage(left, "SpawnDespawn")
    BY <1>3, <1>4, <1>6
  <1>10. QED
    BY <1>7, <1>8, <1>9 DEF first, sent, left

\* A send moves what was queued to the client's stream.
LEMMA SendKeepsNews ==
  ASSUME NewsInv, ConnInv, Typed, ServerInv, UNCHANGED clientVars,
         NEW e \in Entities, SendTcpMessages(e)
  PROVE  NewsInv'
  <1> DEFINE b == conn[e]
             open == clientEnd[b] = "open"
  <1>0. /\ tags \in [Entities -> SUBSET Tags] /\ live \subseteq Entities /\ e \in live
        /\ toSend \in [Entities -> Seq(Messages)] /\ toSend[e] \in Seq(Messages)
        /\ toClient \in [Conns -> Seq(Messages)] /\ b \in Conns /\ toClient[b] \in Seq(Messages)
        /\ initMessage \in 0..MaxClientId
    BY ServerAssumption
    DEF Typed, LinkTyped, ServerTyped, ServerInv, TablesTyped, ServerAssumption,
       SendTcpMessages
  <1>1. \A d \in live \ {e} : conn[d] # b
    BY <1>0 DEF ConnInv, EntitiesHoldConns
  <1>2. PICK k \in SentCounts(toClient[b], open, toSend[e]) :
          /\ ServerSends(b, Serialized(Take(toSend[e], k)))
          /\ toSend' = [toSend EXCEPT ![e] = Drop(@, k)]
          /\ tags' = [tags EXCEPT ![e] = IF k < Len(toSend[e]) THEN @
               \cup {"PendingDisconnect"} ELSE @]
    BY DEF SendTcpMessages
  <1> DEFINE sent == Serialized(Take(toSend[e], k))
             left == Drop(toSend[e], k)
  <1>3. /\ UNCHANGED <<live, conn, serverEnd, clientEnd, spawnVars>>
        /\ phase = "send" /\ phase' = "send" /\ todo' = todo \ {e}
    BY <1>2 DEF SendTcpMessages, Visited, ServerSends
  <1>4. k \in 0..Len(toSend[e])
    <2>1. Len(toClient[b]) <= Capacity
      BY <1>0 DEF Typed, LinkTyped
    <2>2. QED
      BY <1>0, <1>2, <2>1, SentCountsBound
  <1>5. /\ toSend'[e] = left /\ \A d \in Entities \ {e} : toSend'[d] = toSend[d]
        /\ toClient'[b] = IF open THEN toClient[b] \o sent ELSE toClient[b]
        /\ \A c \in Conns \ {b} : toClient'[c] = toClient[c]
        /\ \A d \in Entities \ {e} : tags'[d] = tags[d]
        /\ tags'[e] = IF k < Len(toSend[e]) THEN tags[e] \cup {"PendingDisconnect"} ELSE tags[e]
    BY <1>0, <1>2 DEF ServerSends
  <1>6. left = <<>> \/ k < Len(toSend[e])
    BY <1>0, <1>4 DEF Drop
  <1>7. /\ Spawned(toClient[b] \o sent) \cup Spawned(left)
             = Spawned(toClient[b]) \cup Spawned(toSend[e])
        /\ Despawned(toClient[b] \o sent) \cup Despawned(left)
             = Despawned(toClient[b]) \cup Despawned(toSend[e])
        /\ /\ Ordered(toClient[b]) /\ Ordered(toSend[e])
           /\ Spawned(toSend[e]) \cap Despawned(toClient[b]) = {}
           => /\ Ordered(toClient[b] \o sent) /\ Ordered(left)
              /\ Spawned(left) \cap Despawned(toClient[b] \o sent) = {}
        /\ ~HasMessage(toClient[b], "SpawnDespawn") /\ ~HasMessage(toSend[e], "SpawnDespawn") =>
             ~HasMessage(toClient[b] \o sent, "SpawnDespawn") /\ ~HasMessage(left, "SpawnDespawn")
        /\ ~HasMessage(toSend[e], "SpawnDespawn") => ~HasMessage(left, "SpawnDespawn")
    <2> DEFINE way == toClient[b]
               queue == toSend[e]
    <2>1. way \in Seq(Messages) /\ queue \in Seq(Messages) /\ k \in 0..Len(queue)
      BY <1>0, <1>4
    <2> HIDE DEF way, queue
    <2>2. /\ Spawned(way \o Serialized(Take(queue, k))) \cup Spawned(Drop(queue, k))
               = Spawned(way) \cup Spawned(queue)
          /\ Despawned(way \o Serialized(Take(queue, k))) \cup Despawned(Drop(queue, k))
               = Despawned(way) \cup Despawned(queue)
          /\ /\ Ordered(way) /\ Ordered(queue)
             /\ Spawned(queue) \cap Despawned(way) = {}
             => /\ Ordered(way \o Serialized(Take(queue, k))) /\ Ordered(Drop(queue, k))
                /\ Spawned(Drop(queue, k)) \cap Despawned(way \o Serialized(Take(queue, k))) = {}
          /\ ~HasMessage(way, "SpawnDespawn") /\ ~HasMessage(queue, "SpawnDespawn") =>
               /\ ~HasMessage(way \o Serialized(Take(queue, k)), "SpawnDespawn")
               /\ ~HasMessage(Drop(queue, k), "SpawnDespawn")
          /\ ~HasMessage(queue, "SpawnDespawn") => ~HasMessage(Drop(queue, k), "SpawnDespawn")
      BY <1>0, <2>1, ToldWhenSent
    <2>3. QED
      BY <2>2 DEF way, queue
  <1> HIDE DEF b, open, sent, left
  <1>8. ASSUME NEW c \in Conns, conn[e] = c PROVE NewsOf(c, e)'
    <2> SUFFICES ASSUME c \notin inherited' PROVE NewsOf(c, e)'
      BY DEF NewsOf
    <2>0. c = b /\ NewsOf(c, e) /\ c \notin inherited
      BY <1>0, <1>8 DEF NewsInv, b, clientVars
    <2>1. "ClientIsReady" \in tags'[e] <=> "ClientIsReady" \in tags[e]
      BY <1>5
    <2>2. CASE "ClientIsReady" \notin tags[e]
      <3>1. Uninformed(c, e)
        BY <2>0, <2>2 DEF NewsOf
      <3>2. ~HasMessage(toClient'[c], "SpawnDespawn") /\ ~HasMessage(toSend'[e], "SpawnDespawn")
        BY <1>5, <1>7, <2>0, <3>1 DEF Uninformed
      <3>3. Uninformed(c, e)'
        BY <3>1, <3>2 DEF Uninformed, clientVars
      <3>4. QED
        BY <2>1, <2>2, <3>3 DEF NewsOf
    <2>3. CASE "ClientIsReady" \in tags[e] /\ Intact(c, e)'
      <3>1. Intact(c, e) /\ open
        BY <1>3, <1>5, <2>0, <2>3 DEF Intact, clientVars, open
      <3>2. Informed(c, e)
        BY <2>0, <2>3, <3>1 DEF NewsOf
      <3>3. toClient'[c] = toClient[c] \o sent /\ toSend'[e] = left
        BY <1>5, <2>0, <3>1
      <3>4. /\ Spawned(toClient'[c]) \cup Spawned(toSend'[e])
                 = Spawned(toClient[c]) \cup Spawned(toSend[e])
            /\ Despawned(toClient'[c]) \cup Despawned(toSend'[e])
                 = Despawned(toClient[c]) \cup Despawned(toSend[e])
        BY <1>7, <2>0, <3>3
      <3>5. /\ UNCHANGED <<known, spawnQueue, despawnQueue, clientReceived, clientPhase>>
            /\ Announced' = Announced /\ networkIds' = networkIds /\ (Telling' <=> Telling)
            /\ \A n : Forgotten(n)' <=> Forgotten(n)
        BY <1>3 DEF clientVars, spawnVars, Announced, Telling, Forgotten
      <3>6. Expected(c, e)' = Expected(c, e)
        BY <3>4, <3>5 DEF Expected
      <3>7. AllDespawns(c, e)' = AllDespawns(c, e)
        BY <3>4, <3>5 DEF AllDespawns
      <3>8. InOrder(c, e)'
        <4>1. InOrder(c, e)
          BY <3>2 DEF Informed
        <4>2. /\ Ordered(toClient'[c]) /\ Ordered(toSend'[e])
              /\ Spawned(toSend'[e]) \cap Despawned(toClient'[c]) = {}
          BY <1>7, <2>0, <3>3, <4>1 DEF InOrder
        <4>3. (Spawned(toClient'[c]) \cup Spawned(toSend'[e])) \cap Despawned(clientReceived[c])
                = {}
          BY <3>4, <4>1 DEF InOrder
        <4>4. QED
          BY <3>5, <4>1, <4>2, <4>3 DEF InOrder
      <3>9. Handled(c)'
        BY <3>2, <3>5 DEF Informed, Handled
      <3>10. Informed(c, e)'
        BY <3>2, <3>5, <3>6, <3>7, <3>8, <3>9 DEF Informed
      <3>11. QED
        BY <2>1, <2>3, <3>10 DEF NewsOf
    <2>4. QED
      BY <2>1, <2>2, <2>3 DEF NewsOf
  <1>9. ASSUME NEW d \in live, d # e, NEW c \in Conns, conn[d] = c PROVE NewsOf(c, d)'
    <2>1. NewsOf(c, d) /\ d \in Entities /\ c # b
      BY <1>0, <1>1, <1>9 DEF NewsInv
    <2>2. tags'[d] = tags[d] /\ toSend'[d] = toSend[d] /\ toClient'[c] = toClient[c]
      BY <1>5, <1>9, <2>1
    <2>3. Intact(c, d)' => Intact(c, d)
      BY <1>3, <2>2 DEF Intact, clientVars
    <2>4. Telling => Telling'
      BY <1>3 DEF Telling
    <2>5. QED
      BY <1>3, <2>1, <2>2, <2>3, <2>4, SameNews DEF clientVars, spawnVars
  <1>10. AllSent'
    <2> SUFFICES ASSUME NEW d \in live, "Connected" \in tags'[d],
                        "PendingDisconnect" \notin tags'[d], d \notin todo'
                 PROVE  toSend'[d] = <<>>
      BY <1>3 DEF AllSent
    <2>1. CASE d = e
      BY <1>5, <1>6, <2>1
    <2>2. CASE d # e
      <3>1. tags'[d] = tags[d] /\ toSend'[d] = toSend[d] /\ d \notin todo
        BY <1>0, <1>3, <1>5, <2>2
      <3>2. QED
        BY <1>3, <3>1 DEF NewsInv, AllSent
    <2>3. QED
      BY <2>1, <2>2
  <1>11. NothingNew'
    BY <1>3 DEF NewsInv, NothingNew, spawnVars
  <1>12. NotAcceptedKnowsNothing' /\ QueuesAreRead'
    BY <1>3, ServerKeepsQueues
  <1>13. QED
    BY <1>3, <1>8, <1>9, <1>10, <1>11, <1>12 DEF NewsInv

\* What every step of the server does to the news.
LEMMA ServerKeepsNews ==
  ASSUME NewsInv, FullInv, ServerNext, UNCHANGED clientVars
  PROVE  NewsInv'
  <1>0. /\ Typed /\ ServerInv /\ Spawns!SpawnInv /\ TagInv /\ ConnInv /\ QuietInv /\ QueuesTaken
        /\ AnswerInv
    BY DEF FullInv, SessionInv
  <1>1. CASE \/ AcceptedSocketFails \/ AcceptDone \/ ReceiveDone \/ EndUpdate \/ ReportDone
             \/ ReadyDone \/ InitializeDone \/ SendDone
    BY <1>0, <1>1, PhasesKeepNews
  <1>2. CASE Start \/ DisconnectSystem \/ PendingDisconnectSystem \/ ForgetNewConnections
    BY <1>0, <1>2, ConnectionsKeepNews
  <1>3. CASE Stop
    BY <1>3, StopKeepsNews
  <1>4. CASE ServerApp
    BY <1>0, <1>4, CreateKeepsNews, DestroyKeepsNews, AppKeepsNews DEF ServerApp
  <1>5. CASE SendNewSpawnDespawn
    BY <1>0, <1>5, BroadcastKeepsNews
  <1>6. CASE SendSnapshots
    BY <1>0, <1>6, SnapshotsKeepNews
  <1>7. ASSUME NEW e \in Entities,
               \/ AcceptConnection(e) \/ ReceiveTcpMessages(e) \/ ReceiveFails(e)
               \/ DisconnectedClient(e) \/ SetClientReady(e) \/ InitializeNewClient(e)
               \/ SendTcpMessages(e)
        PROVE  NewsInv'
    <2>1. CASE AcceptConnection(e)
      BY <1>0, <2>1, AcceptKeepsNews
    <2>2. CASE ReceiveTcpMessages(e) \/ ReceiveFails(e) \/ DisconnectedClient(e)
      BY <1>0, <2>2, VisitsKeepNews
    <2>3. CASE SetClientReady(e)
      BY <1>0, <2>3, ReadyKeepsNews
    <2>4. CASE InitializeNewClient(e)
      BY <1>0, <2>4, InitializeKeepsNews
    <2>5. CASE SendTcpMessages(e)
      BY <1>0, <2>5, SendKeepsNews
    <2>6. QED
      BY <1>7, <2>1, <2>2, <2>3, <2>4, <2>5
  <1>8. QED
    BY <1>1, <1>2, <1>3, <1>4, <1>5, <1>6, <1>7 DEF ServerNext, ServerTick

\* The news of one connection.
NewsAt(b) ==
  /\ serverEnd[b] = "none" => known[b] = {}
  /\ clientPhase[b] = "app" /\ b \notin inherited =>
       /\ spawnQueue[b] = AllSpawned(clientReceived[b])
       /\ despawnQueue[b] = AllDespawned(clientReceived[b])
  /\ \A e \in live : conn[e] = b => NewsOf(b, e)

\* NewsInv is a statement about each connection by itself, and one about the
\* server's ticks.
LEMMA NewsParts == NewsInv <=> (\A b \in Conns : NewsAt(b)) /\ AllSent /\ NothingNew
  BY DEF NewsInv, NewsAt, NotAcceptedKnowsNothing, QueuesAreRead

\* A connection on which its client reads nothing, or that it closes.
LEMMA OthersKeepNews ==
  ASSUME NEW b \in Conns, NewsAt(b), ServerInv, UNCHANGED serverVars,
         inherited \subseteq inherited',
         clientPhase'[b] = clientPhase[b] \/ (clientPhase[b] = "end" /\ clientPhase'[b] = "idle"),
         clientReceived'[b] = clientReceived[b], known'[b] = known[b],
         spawnQueue'[b] = spawnQueue[b], despawnQueue'[b] = despawnQueue[b],
         serverEnd'[b] = "none" => serverEnd[b] = "none",
         \/ toClient'[b] = toClient[b] /\ (clientEnd'[b] = "open" => clientEnd[b] = "open")
         \/ toClient'[b] = <<>> /\ clientEnd'[b] = "closed"
  PROVE  NewsAt(b)'
  <1>1. /\ UNCHANGED <<live, conn, tags, toSend, phase, newSpawns, newDespawns, networkIds,
                       nextNetworkId>>
        /\ live \subseteq Entities
    BY DEF serverVars, ecs, spawnVars, ServerInv, TablesTyped
  <1>2. ASSUME NEW e \in live, conn[e] = b PROVE NewsOf(b, e)'
    <2>1. NewsOf(b, e) /\ e \in Entities
      BY <1>1, <1>2 DEF NewsAt
    <2>2. CASE toClient'[b] = toClient[b] /\ (clientEnd'[b] = "open" => clientEnd[b] = "open")
      <3>1. Intact(b, e)' => Intact(b, e)
        BY <1>1, <2>2 DEF Intact
      <3>2. Telling => Telling'
        BY <1>1 DEF Telling
      <3>3. clientPhase'[b] \in {"idle", "end"} => clientPhase[b] \in {"idle", "end"}
        OBVIOUS
      <3>4. QED
        BY <1>1, <2>1, <2>2, <3>1, <3>2, <3>3, SameNews
    <2>3. CASE toClient'[b] = <<>> /\ clientEnd'[b] = "closed"
      <3>1. ~Intact(b, e)'
        BY <2>3 DEF Intact
      <3>2. Uninformed(b, e) => Uninformed(b, e)'
        BY <1>1, <2>3, ToldEmpty DEF Uninformed
      <3>3. QED
        BY <1>1, <2>1, <3>1, <3>2 DEF NewsOf
    <2>4. QED
      BY <2>2, <2>3
  <1>3. /\ serverEnd'[b] = "none" => known'[b] = {}
        /\ clientPhase'[b] = "app" /\ b \notin inherited' =>
             /\ spawnQueue'[b] = AllSpawned(clientReceived'[b])
             /\ despawnQueue'[b] = AllDespawned(clientReceived'[b])
    BY DEF NewsAt
  <1>4. QED
    BY <1>1, <1>2, <1>3 DEF NewsAt

\* A client that left its loop.
LEMMA GoneKeepsNews ==
  ASSUME NEW b \in Conns, NewsAt(b), UNCHANGED serverVars,
         inherited \subseteq inherited', clientPhase'[b] \notin {"idle", "app", "end"},
         clientReceived'[b] = <<>>, known'[b] \subseteq known[b],
         serverEnd'[b] = serverEnd[b],
         toClient'[b] = toClient[b] \/ toClient'[b] = <<>>
  PROVE  NewsAt(b)'
  <1>1. UNCHANGED <<live, conn, tags, toSend>>
    BY DEF serverVars, ecs
  <1>2. ASSUME NEW e \in live, conn[e] = b PROVE NewsOf(b, e)'
    <2>1. NewsOf(b, e)
      BY <1>2 DEF NewsAt
    <2>2. ~Intact(b, e)'
      BY DEF Intact
    <2>3. Uninformed(b, e) => Uninformed(b, e)'
      BY <1>1, ToldEmpty DEF Uninformed
    <2>4. QED
      BY <1>1, <2>1, <2>2, <2>3 DEF NewsOf
  <1>3. QED
    BY <1>1, <1>2 DEF NewsAt

\* A connection that is made.
LEMMA ConnectingBeginsNews ==
  ASSUME NEW d \in Conns, NewsAt(d), ConnInv, clientPhase[d] = "off", UNCHANGED serverVars,
         clientPhase'[d] = "idle", known'[d] = known[d], serverEnd' = serverEnd
  PROVE  NewsAt(d)'
  <1>1. UNCHANGED <<live, conn>>
    BY DEF serverVars, ecs
  <1>2. serverEnd[d] = "none"
    BY DEF ConnInv, UnusedConnections
  <1>3. \A e \in live : conn[e] # d
    BY <1>2 DEF ConnInv, EntitiesHoldConns
  <1>4. QED
    BY <1>1, <1>2, <1>3 DEF NewsAt

\* A client with news of an earlier session still knows nothing before it is
\* accepted, which is all that is said of it.
LEMMA InheritedKeepsNews ==
  ASSUME NEW c \in Conns, NewsAt(c), QuietInv, Typed, UNCHANGED serverVars, c \in inherited,
         BeginUpdate(c) \/ BeginUpdateDisconnects(c) \/ Application(c)
  PROVE  NewsAt(c)'
  <1>1. /\ UNCHANGED <<live, conn, inherited, serverEnd>>
        /\ known' = known \/ IsReady(c)
    BY DEF BeginUpdate, BeginUpdateDisconnects, Application, ClientReceives, serverVars, ecs, link
  <1>2. CASE known' = known
    BY <1>1, <1>2 DEF NewsAt, NewsOf
  <1>3. CASE IsReady(c)
    <2>1. serverEnd[c] # "none"
      BY <1>3 DEF QuietInv, NotAcceptedIsQuiet, Quiet
    <2>2. QED
      BY <1>1, <2>1 DEF NewsAt, NewsOf
  <1>4. QED
    BY <1>1, <1>2, <1>3

\* A tick of the client begins: what it receives goes from the stream to its
\* messages, and from there to its empty queues.
LEMMA ReadingKeepsNews ==
  ASSUME NEW c \in Conns, NewsAt(c), QueuesTaken, Typed, ServerInv, UNCHANGED serverVars,
         c \notin inherited, inherited' = inherited, clientPhase[c] = "idle", clientPhase'[c] = "app", known'[c] = known[c],
         clientReceived'[c] \in Seq(Messages), toClient'[c] \in Seq(Messages),
         spawnQueue'[c] = spawnQueue[c] \o AllSpawned(clientReceived'[c]),
         despawnQueue'[c] = despawnQueue[c] \o AllDespawned(clientReceived'[c]),
         serverEnd'[c] = serverEnd[c], clientEnd'[c] = clientEnd[c],
         \/ \E k \in 0..Len(toClient[c]) :
              clientReceived'[c] = Take(toClient[c], k) /\ toClient'[c] = Drop(toClient[c], k)
         \/ clientReceived'[c] \in {<<>>, clientReceived[c]} /\ toClient'[c] = toClient[c]
  PROVE  NewsAt(c)'
  <1> DEFINE r == clientReceived'[c]
             w == toClient'[c]
             old == clientReceived[c]
             way == toClient[c]
  <1>0. /\ UNCHANGED <<live, conn, tags, toSend, phase, newSpawns, newDespawns, networkIds,
                       nextNetworkId>>
        /\ live \subseteq Entities
    BY DEF serverVars, ecs, spawnVars, ServerInv, TablesTyped
  <1>1. old \in Seq(Messages) /\ way \in Seq(Messages) /\ r \in Seq(Messages)
          /\ w \in Seq(Messages)
    BY HeardTyped
  <1>2. spawnQueue'[c] = AllSpawned(r) /\ despawnQueue'[c] = AllDespawned(r)
    <2>1. spawnQueue[c] = <<>> /\ despawnQueue[c] = <<>>
      BY DEF QueuesTaken
    <2>2. /\ AllSpawned(r) \in Seq(Spawns!NetworkIds)
          /\ AllDespawned(r) \in Seq(Spawns!NetworkIds)
      BY <1>1, AllSpawnedMembers, AllDespawnedMembers
    <2> HIDE DEF r
    <2>3. spawnQueue'[c] = <<>> \o AllSpawned(r) /\ despawnQueue'[c] = <<>> \o AllDespawned(r)
      BY <2>1 DEF r
    <2>4. QED
      BY <2>2, <2>3
  <1>3. Spawns!Members(spawnQueue'[c]) = Spawned(r)
          /\ Spawns!Members(despawnQueue'[c]) = Despawned(r)
    BY <1>1, <1>2, ToldIsQueued
  <1>4. Spawns!Members(spawnQueue[c]) = {} /\ Spawns!Members(despawnQueue[c]) = {}
    BY DEF QueuesTaken, Spawns!Members
  \* What is read now and later is what was on the way, or was read before.
  <1>5. \/ /\ Spawned(r) \cup Spawned(w) = Spawned(way)
           /\ Despawned(r) \cup Despawned(w) = Despawned(way)
           /\ Ordered(way) => /\ Ordered(r) /\ Ordered(w)
                              /\ Spawned(w) \cap Despawned(r) = {}
           /\ ~HasMessage(way, "SpawnDespawn") =>
                ~HasMessage(r, "SpawnDespawn") /\ ~HasMessage(w, "SpawnDespawn")
        \/ w = way /\ r = old
    <2>1. CASE \E k \in 0..Len(way) : r = Take(way, k) /\ w = Drop(way, k)
      <3>1. PICK k \in 0..Len(way) : r = Take(way, k) /\ w = Drop(way, k)
        BY <2>1
      <3> HIDE DEF r, w, way
      <3>2. /\ Spawned(way) = Spawned(Take(way, k)) \cup Spawned(Drop(way, k))
            /\ Despawned(way) = Despawned(Take(way, k)) \cup Despawned(Drop(way, k))
            /\ Ordered(way) <=> /\ Ordered(Take(way, k)) /\ Ordered(Drop(way, k))
                                /\ Spawned(Drop(way, k)) \cap Despawned(Take(way, k)) = {}
        BY <1>1, ToldParts
      <3>3. ~HasMessage(way, "SpawnDespawn") =>
              /\ ~HasMessage(Take(way, k), "SpawnDespawn")
              /\ ~HasMessage(Drop(way, k), "SpawnDespawn")
        BY <1>1, HasMessageParts
      <3>4. QED
        BY <3>1, <3>2, <3>3
    <2>2. CASE r = <<>> /\ w = way
      <3> HIDE DEF r, w, way
      <3>1. /\ Spawned(r) = {} /\ Despawned(r) = {} /\ Ordered(r)
            /\ ~HasMessage(r, "SpawnDespawn")
        BY <2>2, ToldEmpty
      <3>2. QED
        BY <2>2, <3>1
    <2>3. QED
      BY <2>1, <2>2
  <1> HIDE DEF r, w
  <1>6. ASSUME NEW e \in live, conn[e] = c PROVE NewsOf(c, e)'
    <2>1. NewsOf(c, e)
      BY <1>6 DEF NewsAt
    <2>2. CASE "ClientIsReady" \notin tags[e]
      <3>1. Uninformed(c, e)
        BY <2>1, <2>2 DEF NewsOf
      <3>2. /\ ~HasMessage(r, "SpawnDespawn") /\ ~HasMessage(w, "SpawnDespawn")
        BY <1>5, <3>1 DEF Uninformed
      <3>3. Uninformed(c, e)'
        BY <1>0, <3>1, <3>2 DEF Uninformed, r, w
      <3>4. QED
        BY <1>0, <2>2, <3>3 DEF NewsOf
    <2>3. CASE "ClientIsReady" \in tags[e] /\ Intact(c, e)'
      <3>1. Intact(c, e)
        BY <1>0, <2>3 DEF Intact
      <3>2. Informed(c, e)
        BY <2>1, <2>3, <3>1 DEF NewsOf
      <3> DEFINE S == Spawned(toSend[e])
                 D == Despawned(toSend[e])
      <3>3. /\ Announced' = Announced /\ networkIds' = networkIds /\ (Telling' <=> Telling)
            /\ \A n : Forgotten(n)' <=> Forgotten(n)
        BY <1>0 DEF Announced, Telling, Forgotten
      <3>4. /\ Expected(c, e) = (known[c] \cup Spawned(way) \cup S) \ (Despawned(way) \cup D)
            /\ Expected(c, e)' = (known[c] \cup Spawned(r) \cup Spawned(w) \cup S)
                                   \ (Despawned(r) \cup Despawned(w) \cup D)
        BY <1>0, <1>3, <1>4 DEF Expected, r, w
      <3>5. /\ AllDespawns(c, e) = Despawned(old) \cup Despawned(way) \cup D
            /\ AllDespawns(c, e)' = Despawned(r) \cup Despawned(w) \cup D
        BY <1>0 DEF AllDespawns, r, w
      <3>6. /\ Ordered(old) /\ Ordered(way) /\ Ordered(toSend[e])
            /\ Spawned(way) \cap Despawned(old) = {}
            /\ S \cap (Despawned(old) \cup Despawned(way)) = {}
        BY <3>2 DEF Informed, InOrder
      <3>7. Spawned(old) \subseteq known[c] \cup Despawned(old)
        BY <3>2 DEF Informed, Handled
      <3>8. \A n \in AllDespawns(c, e) : n \notin Expected(c, e)
        BY <3>2 DEF Informed, Forgotten, Announced
      <3> HIDE DEF S, D, old, way
      <3>9. Expected(c, e)' = Expected(c, e) /\ AllDespawns(c, e)' \subseteq AllDespawns(c, e)
        <4>1. CASE w = way /\ r = old
          <5>1. Expected(c, e)' = Expected(c, e)
            BY <3>4, <3>5, <3>7, <3>8, <4>1
          <5>2. QED
            BY <3>5, <4>1, <5>1
        <4>2. CASE ~(w = way /\ r = old)
          <5>1. /\ Spawned(r) \cup Spawned(w) = Spawned(way)
                /\ Despawned(r) \cup Despawned(w) = Despawned(way)
            BY <1>5, <4>2
          <5>2. QED
            BY <3>4, <3>5, <5>1
        <4>3. QED
          BY <4>1, <4>2
      <3>10. /\ Ordered(r) /\ Ordered(w) /\ Spawned(w) \cap Despawned(r) = {}
             /\ S \cap (Despawned(r) \cup Despawned(w)) = {}
        BY <1>5, <3>6
      <3>11. InOrder(c, e)'
        BY <1>0, <3>6, <3>10 DEF InOrder, r, w, S
      <3>12. Handled(c)'
        BY DEF Handled
      <3>13. Informed(c, e)'
        BY <3>2, <3>3, <3>9, <3>11, <3>12 DEF Informed
      <3>14. QED
        BY <1>0, <2>3, <3>13 DEF NewsOf
    <2>4. QED
      BY <1>0, <2>2, <2>3 DEF NewsOf
  <1>7. serverEnd'[c] = "none" => known'[c] = {}
    BY DEF NewsAt
  <1>8. /\ spawnQueue'[c] = AllSpawned(clientReceived'[c])
        /\ despawnQueue'[c] = AllDespawned(clientReceived'[c])
    BY <1>2 DEF r
  <1>9. QED
    BY <1>0, <1>6, <1>7, <1>8 DEF NewsAt

\* Client::beginUpdate.
LEMMA BeginUpdateKeepsNews ==
  ASSUME NEW c \in Conns, NewsAt(c), QueuesTaken, Typed, ServerInv, UNCHANGED serverVars,
         c \notin inherited, BeginUpdate(c) \/ BeginUpdateDisconnects(c)
  PROVE  NewsAt(c)'
  <1>0. /\ clientPhase \in
             [Conns -> {"off", "idle", "app", "end", "disconnected", "left", "exited"}]
        /\ clientReceived \in [Conns -> Seq(Messages)] /\ toClient \in [Conns -> Seq(Messages)]
        /\ clientReceived[c] \in Seq(Messages) /\ toClient[c] \in Seq(Messages)
        /\ spawnQueue \in [Conns -> Seq(Spawns!NetworkIds)]
        /\ despawnQueue \in [Conns -> Seq(Spawns!NetworkIds)]
    BY DEF Typed, LinkTyped, ClientTyped
  <1>1. /\ clientPhase[c] = "idle" /\ clientPhase'[c] = "app"
        /\ UNCHANGED <<known, inherited, serverEnd, clientEnd>>
        /\ ReceiveSpawnDespawn(c, clientReceived'[c])
    <2>1. CASE BeginUpdate(c)
      BY <1>0, <2>1 DEF BeginUpdate, ClientReceives, link
    <2>2. CASE BeginUpdateDisconnects(c)
      BY <1>0, <2>2 DEF BeginUpdateDisconnects, link
    <2>3. QED
      BY <2>1, <2>2
  <1>2. /\ spawnQueue'[c] = spawnQueue[c] \o AllSpawned(clientReceived'[c])
        /\ despawnQueue'[c] = despawnQueue[c] \o AllDespawned(clientReceived'[c])
    BY <1>0, <1>1 DEF ReceiveSpawnDespawn
  <1>3. CASE BeginUpdateDisconnects(c)
    <2>1. clientReceived'[c] = clientReceived[c] /\ toClient'[c] = toClient[c]
      BY <1>3 DEF BeginUpdateDisconnects, link
    <2>2. QED
      BY <1>0, <1>1, <1>2, <2>1, ReadingKeepsNews
  <1>4. ASSUME NEW k \in 0..Len(toClient[c]),
               clientReceived' = [clientReceived EXCEPT ![c] = Take(toClient[c], k)],
               ClientReceives(c, k)
        PROVE  NewsAt(c)'
    <2>1. clientReceived'[c] = Take(toClient[c], k) /\ toClient'[c] = Drop(toClient[c], k)
      BY <1>0, <1>4 DEF ClientReceives
    <2>2. clientReceived'[c] \in Seq(Messages) /\ toClient'[c] \in Seq(Messages)
      BY <1>0, <2>1, TakeDrop
    <2>3. QED
      BY <1>1, <1>2, <2>1, <2>2, ReadingKeepsNews
  <1>5. CASE clientReceived' = [clientReceived EXCEPT ![c] = <<>>] /\ UNCHANGED link
    <2>1. clientReceived'[c] = <<>> /\ toClient'[c] = toClient[c] /\ <<>> \in Seq(Messages)
      BY <1>0, <1>5 DEF link
    <2>2. QED
      BY <1>0, <1>1, <1>2, <2>1, ReadingKeepsNews
  <1>6. QED
    BY <1>3, <1>4, <1>5 DEF BeginUpdate

\* The application of the client handles what its queues hold.
LEMMA ApplicationKeepsNews ==
  ASSUME NEW c \in Conns, NewsAt(c), NewsInv, HandshakeInv, QuietInv, QueuesTaken, Typed,
         ServerInv, UNCHANGED serverVars, c \notin inherited, Application(c)
  PROVE  NewsAt(c)'
  <1>0. /\ clientPhase \in
             [Conns -> {"off", "idle", "app", "end", "disconnected", "left", "exited"}]
        /\ known \in [Conns -> SUBSET Spawns!NetworkIds]
        /\ spawnQueue \in [Conns -> Seq(Spawns!NetworkIds)]
        /\ despawnQueue \in [Conns -> Seq(Spawns!NetworkIds)]
        /\ clientReceived[c] \in Seq(Messages)
        /\ UNCHANGED <<live, conn, tags, toSend, phase, newSpawns, newDespawns, networkIds,
                       nextNetworkId>>
        /\ live \subseteq Entities
    BY DEF Typed, ClientTyped, serverVars, ecs, spawnVars, ServerInv, TablesTyped
  <1>1. /\ clientPhase[c] = "app" /\ clientPhase'[c] = "end"
        /\ UNCHANGED <<clientReceived, inherited, link>>
    BY <1>0 DEF Application
  <1>2. CASE IsReady(c)
    <2> DEFINE r == clientReceived[c]
    <2>1. /\ known'[c] = (known[c] \cup Spawns!Members(spawnQueue[c]))
                           \ Spawns!Members(despawnQueue[c])
          /\ spawnQueue'[c] = <<>> /\ despawnQueue'[c] = <<>>
      BY <1>0, <1>2 DEF Application
    <2>2. /\ Spawns!Members(spawnQueue[c]) = Spawned(r)
          /\ Spawns!Members(despawnQueue[c]) = Despawned(r)
      BY <1>0, <1>1, ToldIsQueued DEF NewsAt
    <2>3. Spawns!Members(spawnQueue'[c]) = {} /\ Spawns!Members(despawnQueue'[c]) = {}
      BY <2>1 DEF Spawns!Members
    <2>4. serverEnd[c] # "none"
      BY <1>2 DEF QuietInv, NotAcceptedIsQuiet, Quiet
    <2>5. ASSUME NEW e \in live, conn[e] = c PROVE NewsOf(c, e)'
      <3>1. NewsOf(c, e)
        BY <2>5 DEF NewsAt
      <3>2. CASE "ClientIsReady" \notin tags[e]
        <4>1. Uninformed(c, e)
          BY <3>1, <3>2 DEF NewsOf
        <4>2. known'[c] = {}
          BY <1>1, <2>1, <2>2, <4>1, UninformedHasNothing
        <4>3. Uninformed(c, e)'
          BY <1>0, <1>1, <4>1, <4>2 DEF Uninformed, link
        <4>4. QED
          BY <1>0, <3>2, <4>3 DEF NewsOf
      <3>3. CASE "ClientIsReady" \in tags[e] /\ Intact(c, e)'
        <4>1. Intact(c, e)
          BY <1>0, <1>1, <3>3 DEF Intact, link
        <4>2. Informed(c, e)
          BY <3>1, <3>3, <4>1 DEF NewsOf
        <4> DEFINE S == Spawned(toSend[e]) \cup Spawned(toClient[c])
                   D == Despawned(toSend[e]) \cup Despawned(toClient[c])
        <4>3. S \cap Despawned(r) = {}
          BY <4>2 DEF Informed, InOrder
        <4>4. /\ Expected(c, e) = (known[c] \cup Spawned(r) \cup S) \ (Despawned(r) \cup D)
              /\ Expected(c, e)' = (known'[c] \cup S) \ D
          BY <1>0, <1>1, <2>2, <2>3 DEF Expected, link
        <4>5. known'[c] = (known[c] \cup Spawned(r)) \ Despawned(r)
          BY <2>1, <2>2
        <4> HIDE DEF S, D
        <4>6. Expected(c, e)' = Expected(c, e)
          BY <4>3, <4>4, <4>5
        <4>7. AllDespawns(c, e)' = AllDespawns(c, e)
          BY <1>0, <1>1 DEF AllDespawns, link
        <4>8. InOrder(c, e)'
          BY <1>0, <1>1, <4>2 DEF Informed, InOrder, link
        <4>9. Handled(c)'
          BY <1>1, <4>5 DEF Handled
        <4>10. /\ Announced' = Announced /\ networkIds' = networkIds /\ (Telling' <=> Telling)
               /\ \A n : Forgotten(n)' <=> Forgotten(n)
          BY <1>0 DEF Announced, Telling, Forgotten
        <4>11. Informed(c, e)'
          BY <4>2, <4>6, <4>7, <4>8, <4>9, <4>10 DEF Informed
        <4>12. QED
          BY <1>0, <3>3, <4>11 DEF NewsOf
      <3>4. QED
        BY <1>0, <3>2, <3>3 DEF NewsOf
    <2>6. QED
      BY <1>0, <1>1, <2>4, <2>5 DEF NewsAt, link
  <1>3. CASE ~IsReady(c)
    <2>1. UNCHANGED <<known, spawnQueue, despawnQueue>>
      BY <1>3 DEF Application
    <2>2. ASSUME NEW e \in live, conn[e] = c PROVE NewsOf(c, e)'
      <3>1. NewsOf(c, e)
        BY <2>2 DEF NewsAt
      <3>2. "ClientIsReady" \notin tags[e]
        <4>1. Waits(c)
          BY <1>1, <1>3 DEF Waits
        <4>2. QED
          BY <2>2, <4>1, ReadyIsNotWaiting
      <3>3. Uninformed(c, e)'
        BY <1>0, <1>1, <2>1, <3>1, <3>2 DEF NewsOf, Uninformed, link
      <3>4. QED
        BY <1>0, <3>2, <3>3 DEF NewsOf
    <2>3. QED
      BY <1>0, <1>1, <2>1, <2>2 DEF NewsAt, link
  <1>4. QED
    BY <1>2, <1>3

\* What the steps of client c do to the news of connection b.
LEMMA ClientKeepsNews ==
  ASSUME NewsInv, FullInv, UNCHANGED serverVars, NEW c \in Conns, NEW b \in Conns,
         \/ ConnectTo(c) \/ (\E d \in Conns : ConnectAgain(c, d)) \/ ConnectAgainFails(c)
         \/ ClientTick(c) \/ Disconnect(c) \/ Exit(c)
  PROVE  NewsAt(b)'
  <1>0. /\ clientPhase \in
             [Conns -> {"off", "idle", "app", "end", "disconnected", "left", "exited"}]
        /\ clientReceived \in [Conns -> Seq(Messages)] /\ toClient \in [Conns -> Seq(Messages)]
        /\ clientEnd \in [Conns -> {"none", "open", "closed"}]
        /\ spawnQueue \in [Conns -> Seq(Spawns!NetworkIds)]
        /\ despawnQueue \in [Conns -> Seq(Spawns!NetworkIds)]
        /\ known \in [Conns -> SUBSET Spawns!NetworkIds]
        /\ NewsAt(b) /\ NewsAt(c)
        /\ Typed /\ ServerInv /\ ConnInv /\ QuietInv /\ HandshakeInv /\ QueuesTaken
    BY NewsParts DEF FullInv, SessionInv, Typed, LinkTyped, ClientTyped
  <1>1. CASE ConnectTo(c)
    <2>1. /\ clientPhase[c] = "off"
          /\ UNCHANGED <<toClient, serverEnd, clientReceived, spawnQueue, despawnQueue, known>>
          /\ clientPhase' = [clientPhase EXCEPT ![c] = "idle"]
          /\ clientEnd' = [clientEnd EXCEPT ![c] = "open"]
          /\ inherited' = inherited
      BY <1>1 DEF ConnectTo, Connect
    <2>2. CASE b = c
      BY <1>0, <2>1, <2>2, ConnectingBeginsNews
    <2>3. CASE b # c
      BY <1>0, <2>1, <2>3, OthersKeepNews
    <2>4. QED
      BY <2>2, <2>3
  <1>2. ASSUME NEW d \in Conns, ConnectAgain(c, d) PROVE NewsAt(b)'
    <2>1. /\ clientPhase[d] = "off" /\ clientPhase[c] # "off"
          /\ UNCHANGED <<toClient, serverEnd>>
          /\ clientPhase' = [clientPhase EXCEPT ![c] = "left", ![d] = "idle"]
          /\ clientReceived' = [clientReceived EXCEPT ![c] = <<>>]
          /\ clientEnd' = [clientEnd EXCEPT ![d] = "open"]
          /\ spawnQueue' = [spawnQueue EXCEPT ![c] = <<>>, ![d] = spawnQueue[c]]
          /\ despawnQueue' = [despawnQueue EXCEPT ![c] = <<>>, ![d] = despawnQueue[c]]
          /\ known' = [known EXCEPT ![c] = {}]
          /\ inherited \subseteq inherited'
      BY <1>0, <1>2 DEF ConnectAgain, Connect, MayReconnect, ConnInv, UnclaimedIsOff
    <2>2. c # d
      BY <2>1
    <2>3. CASE b = d
      BY <1>0, <2>1, <2>2, <2>3, ConnectingBeginsNews
    <2>4. CASE b = c
      <3>1. clientPhase'[b] = "left" /\ clientReceived'[b] = <<>> /\ known'[b] = {}
        BY <1>0, <2>1, <2>2, <2>4
      <3>2. QED
        BY <1>0, <2>1, <3>1, GoneKeepsNews
    <2>5. CASE b # c /\ b # d
      BY <1>0, <2>1, <2>5, OthersKeepNews
    <2>6. QED
      BY <2>3, <2>4, <2>5
  <1>3. CASE ConnectAgainFails(c) \/ Disconnect(c)
    <2>1. /\ clientPhase' = [clientPhase EXCEPT ![c] = "disconnected"]
          /\ clientReceived' = [clientReceived EXCEPT ![c] = <<>>]
          /\ UNCHANGED <<known, inherited, link>>
          /\ \A a \in Conns \ {c} : /\ spawnQueue'[a] = spawnQueue[a]
                                    /\ despawnQueue'[a] = despawnQueue[a]
      BY <1>0, <1>3 DEF ConnectAgainFails, Disconnect, HasDestroyFunc
    <2>2. CASE b = c
      <3>1. clientPhase'[b] = "disconnected" /\ clientReceived'[b] = <<>>
        BY <1>0, <2>1, <2>2
      <3>2. QED
        BY <1>0, <2>1, <3>1, GoneKeepsNews DEF link
    <2>3. CASE b # c
      BY <1>0, <2>1, <2>3, OthersKeepNews DEF link
    <2>4. QED
      BY <2>2, <2>3
  <1>4. CASE Exit(c)
    <2>1. /\ clientPhase' = [clientPhase EXCEPT ![c] = "exited"]
          /\ clientReceived' = [clientReceived EXCEPT ![c] = <<>>]
          /\ spawnQueue' = [spawnQueue EXCEPT ![c] = <<>>]
          /\ despawnQueue' = [despawnQueue EXCEPT ![c] = <<>>]
          /\ known' = [known EXCEPT ![c] = {}]
          /\ serverEnd' = serverEnd /\ inherited' = inherited
          /\ \/ toClient'[b] = toClient[b] /\ clientEnd'[b] = clientEnd[b]
             \/ toClient'[b] = <<>> /\ clientEnd'[b] = "closed"
      BY <1>4 DEF Exit, CloseClientEnds
    <2>2. CASE b = c
      <3>1. clientPhase'[b] = "exited" /\ clientReceived'[b] = <<>> /\ known'[b] = {}
        BY <1>0, <2>1, <2>2
      <3>2. QED
        BY <1>0, <2>1, <3>1, GoneKeepsNews
    <2>3. CASE b # c
      BY <1>0, <2>1, <2>3, OthersKeepNews
    <2>4. QED
      BY <2>2, <2>3
  <1>5. CASE ClientTick(c)
    <2>1. CASE BeginUpdate(c) \/ BeginUpdateDisconnects(c) \/ Application(c)
      <3>1. CASE b = c
        <4>1. CASE c \in inherited
          BY <1>0, <2>1, <3>1, <4>1, InheritedKeepsNews
        <4>2. CASE c \notin inherited
          BY <1>0, <2>1, <3>1, <4>2, BeginUpdateKeepsNews, ApplicationKeepsNews
        <4>3. QED
          BY <4>1, <4>2
      <3>2. CASE b # c
        <4>1. /\ clientPhase'[b] = clientPhase[b] /\ clientReceived'[b] = clientReceived[b]
              /\ known'[b] = known[b] /\ toClient'[b] = toClient[b]
              /\ spawnQueue'[b] = spawnQueue[b] /\ despawnQueue'[b] = despawnQueue[b]
              /\ UNCHANGED <<serverEnd, clientEnd, inherited>>
          <5>1. CASE BeginUpdate(c)
            BY <1>0, <3>2, <5>1 DEF BeginUpdate, ReceiveSpawnDespawn, ClientReceives, link
          <5>2. CASE BeginUpdateDisconnects(c)
            BY <1>0, <3>2, <5>2 DEF BeginUpdateDisconnects, ReceiveSpawnDespawn, link
          <5>3. CASE Application(c)
            BY <1>0, <3>2, <5>3 DEF Application, link
          <5>4. QED
            BY <2>1, <5>1, <5>2, <5>3
        <4>2. QED
          BY <1>0, <4>1, OthersKeepNews
      <3>3. QED
        BY <3>1, <3>2
    <2>2. CASE EndUpdateInitializes(c) \/ EndUpdateSends(c)
      <3>1. /\ clientPhase[c] = "end" /\ clientPhase' = [clientPhase EXCEPT ![c] = "idle"]
            /\ UNCHANGED <<clientReceived, known, spawnQueue, despawnQueue, inherited, toClient,
                           serverEnd, clientEnd>>
        BY <2>2 DEF EndUpdateInitializes, EndUpdateSends, ClientSends, link
      <3>2. clientPhase'[b] = clientPhase[b]
              \/ (clientPhase[b] = "end" /\ clientPhase'[b] = "idle")
        BY <1>0, <3>1
      <3>3. QED
        BY <1>0, <3>1, <3>2, OthersKeepNews
    <2>3. QED
      BY <1>5, <2>1, <2>2 DEF ClientTick
  <1>6. QED
    BY <1>1, <1>2, <1>3, <1>4, <1>5

\* What clients know and hear follows the network entities in every step.
LEMMA NextNewsInv == NewsInv /\ FullInv /\ [Next]_vars => NewsInv'
  <1> SUFFICES ASSUME NewsInv, FullInv, [Next]_vars PROVE NewsInv'
    OBVIOUS
  <1>0. Typed /\ ServerInv
    BY DEF FullInv, SessionInv
  <1>1. CASE ServerStep
    BY <1>1, ServerKeepsNews DEF ServerStep
  <1>2. ASSUME UNCHANGED serverVars, \A b \in Conns : NewsAt(b)' PROVE NewsInv'
    <2>1. AllSent' /\ NothingNew'
      BY <1>2 DEF NewsInv, AllSent, NothingNew, serverVars, ecs, spawnVars
    <2>2. QED
      BY <1>2, <2>1 DEF NewsInv, NewsAt, NotAcceptedKnowsNothing, QueuesAreRead
  <1>3. ASSUME NEW c \in Conns, ClientStep(c) PROVE NewsInv'
    <2>1. \A b \in Conns : NewsAt(b)'
      BY <1>3, ClientKeepsNews DEF ClientStep
    <2>2. QED
      BY <1>2, <1>3, <2>1 DEF ClientStep
  <1>4. ASSUME UNCHANGED <<serverVars, clientVars, toClient>>,
               \A b \in Conns : /\ serverEnd'[b] = "none" => serverEnd[b] = "none"
                                /\ clientEnd'[b] = "open" => clientEnd[b] = "open"
        PROVE  NewsInv'
    <2>1. ASSUME NEW b \in Conns PROVE NewsAt(b)'
      <3>1. NewsAt(b)
        BY NewsParts
      <3>2. QED
        BY <1>0, <1>4, <3>1, OthersKeepNews DEF clientVars
    <2>2. QED
      BY <1>2, <1>4, <2>1
  <1>5. ASSUME NEW c \in Conns, Breaks(c) PROVE NewsInv'
    <2>1. /\ serverEnd \in [Conns -> {"none", "open", "closed"}]
          /\ clientEnd \in [Conns -> {"none", "open", "closed"}]
      BY <1>0 DEF Typed, LinkTyped
    <2>2. \A b \in Conns : /\ serverEnd'[b] = "none" => serverEnd[b] = "none"
                           /\ clientEnd'[b] = "open" => clientEnd[b] = "open"
      BY <1>5, <2>1 DEF Breaks, Break
    <2>3. QED
      BY <1>4, <1>5, <2>2 DEF Breaks, Break
  <1>6. CASE UNCHANGED vars
    BY <1>4, <1>6 DEF vars, link
  <1>7. QED
    BY <1>1, <1>3, <1>5, <1>6 DEF Next, Finished

\* NewsInv holds in every session.
LEMMA SpecNewsInv == Spec => [](FullInv /\ NewsInv)
  BY SpecFullInv, InitNewsInv, NextNewsInv, PTL DEF Spec

\* Between two ticks nothing is left to tell.
LEMMA InvReplicaExact == FullInv /\ NewsInv => ReplicaExact
  <1> SUFFICES ASSUME FullInv, NewsInv, phase = "idle", NEW c \in Conns, NEW e \in live,
                      Intact(c, e)
               PROVE  (known[c] \cup Spawns!Members(UnreadSpawns(c)))
                        \ Spawns!Members(UnreadDespawns(c)) = Spawns!Members(spawns)
    BY DEF ReplicaExact
  <1>0. Typed /\ Spawns!SpawnInv
    BY DEF FullInv, SessionInv
  <1>1. Informed(c, e)
    BY DEF NewsInv, NewsOf, Intact
  <1>2. toSend[e] = <<>>
    BY DEF NewsInv, AllSent, Intact
  <1>3. Spawned(toSend[e]) = {} /\ Despawned(toSend[e]) = {}
    BY <1>2, ToldEmpty
  <1>4. Announced = networkIds
    <2>1. Spawns!Members(newSpawns) = {} /\ Spawns!Members(newDespawns) = {}
      BY DEF NewsInv, NothingNew, Spawns!Members
    <2>2. QED
      BY <2>1 DEF Announced
  <1>5. Expected(c, e) = networkIds
    BY <1>1, <1>4 DEF Informed, Telling
  <1>6. Spawns!Members(spawns) = networkIds
    <2>1. SpawnFacts!SpawnInv
      BY <1>0, SameSpawnInv
    <2>2. SpawnFacts!Members(spawns) = networkIds
      BY <2>1, SpawnConstants, SpawnFacts!MembersAreNetworkIds
    <2>3. QED
      BY <2>2 DEF Spawns!Members, SpawnFacts!Members
  <1>7. /\ Spawns!Members(UnreadSpawns(c))
             = Spawns!Members(spawnQueue[c]) \cup Spawned(toClient[c])
        /\ Spawns!Members(UnreadDespawns(c))
             = Spawns!Members(despawnQueue[c]) \cup Despawned(toClient[c])
    <2> DEFINE q == spawnQueue[c]
               s == AllSpawned(toClient[c])
               g == despawnQueue[c]
               d == AllDespawned(toClient[c])
    <2>1. toClient[c] \in Seq(Messages)
      BY <1>0, HeardTyped
    <2>2. /\ q \in Seq(Spawns!NetworkIds) /\ g \in Seq(Spawns!NetworkIds)
          /\ s \in Seq(Spawns!NetworkIds) /\ d \in Seq(Spawns!NetworkIds)
      BY <1>0, <2>1, AllSpawnedMembers, AllDespawnedMembers DEF Typed, ClientTyped
    <2>3. Spawns!Members(s) = Spawned(toClient[c]) /\ Spawns!Members(d) = Despawned(toClient[c])
      BY <2>1, ToldIsQueued
    <2>4. UnreadSpawns(c) = q \o s /\ UnreadDespawns(c) = g \o d
      BY DEF UnreadSpawns, UnreadDespawns
    <2> HIDE DEF q, s, g, d
    <2>5. /\ Spawns!Members(q \o s) = Spawns!Members(q) \cup Spawns!Members(s)
          /\ Spawns!Members(g \o d) = Spawns!Members(g) \cup Spawns!Members(d)
      BY <2>2, MembersConcat
    <2>6. QED
      BY <2>3, <2>4, <2>5 DEF q, g
  <1>8. QED
    BY <1>3, <1>5, <1>6, <1>7 DEF Expected

\* In every session, between two ticks of the server, what a ready client knows
\* with what it has still to read is exactly the set of network entities: the
\* spawns of setClientReady and the broadcasts of sendNewSpawnDespawnMessage
\* together neither lose an entity nor leave one behind, on whatever connection
\* still works, however late its client reads.
THEOREM SpecReplicaExact == Spec => []ReplicaExact
  BY SpecNewsInv, InvReplicaExact, PTL

-----------------------------------------------------------------------------
(* The ids clients are told.                                               *)

\* The id of entity e, or of one that was accepted after it in the same tick.
Near(id, e) ==
  id \in Registry!GetClientId(e)..(Registry!GetClientId(e) + MaxAccepted - 1)

\* Every InitializeClientMessage of a list names such an id.
NamesNear(msgs, e) ==
  \A k \in 1..Len(msgs) : msgs[k].type = "InitializeClient" => Near(msgs[k].id, e)

newcomers == With("NewConnection")

\* No more connections are new than are accepted in one tick, and no more
\* clients wait to be initialized.
FewAreNew ==
  /\ phase # "accept" => accepted = 0
  /\ IsFiniteSet(newcomers)
  /\ Cardinality(newcomers) <= IF phase = "accept" THEN accepted ELSE MaxAccepted
  /\ phase = "initialize" => IsFiniteSet(todo) /\ Cardinality(todo) <= MaxAccepted

\* The id the message for e will be given: until all new clients have theirs,
\* each of those left takes it one further.
GivenInTick(e) ==
  /\ phase \in {"initialize", "broadcast", "snapshot", "send"}
  /\ Near(initMessage, e)
  /\ phase = "initialize" =>
       /\ initMessage + 1 = nextClientId
       /\ initMessage + Cardinality(todo) < Registry!GetClientId(e) + MaxAccepted

\* What the client of e will be told, ...
QueuedId(e) == e \in Linked /\ HasMessage(toSend[e], "InitializeClient") => GivenInTick(e)

\* ... what it was told, and what it believes.
ToldId(c, e) ==
  /\ NamesNear(toClient[c], e) /\ NamesNear(clientReceived[c], e)
  /\ IsReady(c) => Near(clientId[c], e)

IdsInv ==
  /\ FewAreNew
  /\ \A e \in live \cap registered : QueuedId(e)
  /\ \A c \in Conns, e \in live \cap registered : conn[e] = c => ToldId(c, e)

\* No client has an id in the initial state.
LEMMA InitIdsInv == Init => IdsInv
  <1> SUFFICES ASSUME Init PROVE IdsInv
    OBVIOUS
  <1>1. phase = "stopped" /\ accepted = 0 /\ live = {} /\ newcomers = {}
    BY DEF Init, ServerInit, newcomers, With
  <1>2. IsFiniteSet({}) /\ Cardinality({}) = 0
    BY FS_EmptySet
  <1>3. QED
    BY <1>1, <1>2, ServerAssumption DEF IdsInv, FewAreNew, ServerAssumption

\* A list without an InitializeClientMessage names nobody.
LEMMA NamesNobody ==
  ASSUME NEW msgs, NEW e, ~HasMessage(msgs, "InitializeClient")
  PROVE  NamesNear(msgs, e)
  BY DEF NamesNear, HasMessage

\* The parts of such a list name such ids.
LEMMA NamesNearParts ==
  ASSUME NEW s \in Seq(Messages), NEW k \in 0..Len(s), NEW e, NamesNear(s, e)
  PROVE  NamesNear(Take(s, k), e) /\ NamesNear(Drop(s, k), e)
  <1>0. Len(s) \in Nat
    OBVIOUS
  <1>1. /\ Len(Take(s, k)) = k /\ Len(Drop(s, k)) = Len(s) - k
        /\ \A i \in 1..k : Take(s, k)[i] = s[i]
        /\ \A i \in 1..(Len(s) - k) : Drop(s, k)[i] = s[k + i]
    BY TakeDrop
  <1>2. /\ \A i \in 1..k : i \in 1..Len(s)
        /\ \A i \in 1..(Len(s) - k) : k + i \in 1..Len(s)
    BY <1>0
  <1>3. NamesNear(Take(s, k), e)
    BY <1>0, <1>1, <1>2 DEF NamesNear
  <1>4. NamesNear(Drop(s, k), e)
    BY <1>0, <1>1, <1>2 DEF NamesNear
  <1>5. QED
    BY <1>3, <1>4

\* Two such lists in a row name such ids.
LEMMA NamesNearConcat ==
  ASSUME NEW s \in Seq(Messages), NEW t \in Seq(Messages), NEW e,
         NamesNear(s, e), NamesNear(t, e)
  PROVE  NamesNear(s \o t, e)
  <1> DEFINE u == s \o t
  <1>1. /\ Len(s) \in Nat /\ Len(t) \in Nat
        /\ Len(u) = Len(s) + Len(t)
        /\ \A i \in 1..Len(s) : u[i] = s[i]
        /\ \A i \in 1..Len(t) : u[Len(s) + i] = t[i]
    OBVIOUS
  <1>2. \A i \in 1..Len(u) : i \in 1..Len(s) \/ (i - Len(s) \in 1..Len(t)
                                                   /\ Len(s) + (i - Len(s)) = i)
    BY <1>1
  <1> HIDE DEF u
  <1>3. ASSUME NEW i \in 1..Len(u), u[i].type = "InitializeClient" PROVE Near(u[i].id, e)
    <2>1. CASE i \in 1..Len(s)
      BY <1>1, <1>3, <2>1 DEF NamesNear
    <2>2. CASE i - Len(s) \in 1..Len(t) /\ Len(s) + (i - Len(s)) = i
      <3>1. u[i] = t[i - Len(s)]
        BY <1>1, <2>2
      <3>2. QED
        BY <1>3, <2>2, <3>1 DEF NamesNear
    <2>3. QED
      BY <1>2, <2>1, <2>2
  <1>4. NamesNear(u, e)
    BY <1>3 DEF NamesNear
  <1>5. QED
    BY <1>4 DEF u

\* What is serialized names the client that the shared message names then.
LEMMA SerializedNames ==
  ASSUME NEW s \in Seq(Messages), NEW e, initMessage \in 0..MaxClientId,
         HasMessage(s, "InitializeClient") => Near(initMessage, e)
  PROVE  NamesNear(Serialized(s), e)
  <1>1. /\ Len(Serialized(s)) = Len(s)
        /\ \A i \in 1..Len(s) :
             /\ Serialized(s)[i].type = s[i].type
             /\ s[i].type = "InitializeClient" => Serialized(s)[i] = InitializeClient(initMessage)
    BY SerializedType
  <1>2. InitializeClient(initMessage).id = initMessage
    BY DEF InitializeClient
  <1>3. ASSUME NEW i \in 1..Len(s), s[i].type = "InitializeClient"
        PROVE  Near(Serialized(s)[i].id, e)
    <2>1. HasMessage(s, "InitializeClient")
      BY <1>3 DEF HasMessage
    <2>2. Serialized(s)[i].id = initMessage
      BY <1>1, <1>2, <1>3
    <2>3. QED
      BY <2>1, <2>2
  <1>4. QED
    BY <1>1, <1>3 DEF NamesNear

\* Steps that make no entity new.
LEMMA NoneBecomesNew ==
  ASSUME FewAreNew, newcomers' \subseteq newcomers, accepted \in 0..MaxAccepted,
         \/ accepted' = accepted /\ (phase' = "accept" <=> phase = "accept")
         \/ accepted' = 0 /\ phase' # "accept",
         phase' = "initialize" =>
           todo' \subseteq newcomers \/ (phase = "initialize" /\ todo' = todo)
  PROVE  FewAreNew'
  <1>1. IsFiniteSet(newcomers) /\ Cardinality(newcomers) \in Nat
    BY FS_CardinalityType DEF FewAreNew
  <1>2. IsFiniteSet(newcomers') /\ Cardinality(newcomers') \in Nat
          /\ Cardinality(newcomers') <= Cardinality(newcomers)
    BY <1>1, FS_Subset, FS_CardinalityType
  <1>3. MaxAccepted \in Nat /\ accepted \in Nat /\ accepted <= MaxAccepted
    BY ServerAssumption DEF ServerAssumption
  <1>4. Cardinality(newcomers) <= MaxAccepted
    BY <1>1, <1>3 DEF FewAreNew
  <1>5. Cardinality(newcomers') <= IF phase' = "accept" THEN accepted' ELSE MaxAccepted
    BY <1>1, <1>2, <1>3, <1>4 DEF FewAreNew
  <1>6. ASSUME phase' = "initialize" PROVE IsFiniteSet(todo') /\ Cardinality(todo') <= MaxAccepted
    <2>1. CASE todo' \subseteq newcomers
      <3>1. IsFiniteSet(todo') /\ Cardinality(todo') \in Nat
              /\ Cardinality(todo') <= Cardinality(newcomers)
        BY <1>1, <2>1, FS_Subset, FS_CardinalityType
      <3>2. QED
        BY <1>1, <1>3, <1>4, <3>1
    <2>2. CASE phase = "initialize" /\ todo' = todo
      BY <2>2 DEF FewAreNew
    <2>3. QED
      BY <1>6, <2>1, <2>2
  <1>7. phase' # "accept" => accepted' = 0
    BY DEF FewAreNew
  <1>8. QED
    BY <1>2, <1>5, <1>6, <1>7 DEF FewAreNew

\* A connection that is accepted is new, and counted.
LEMMA AcceptKeepsCount ==
  ASSUME FewAreNew, Typed, ServerInv,
         \/ \E e \in Entities : AcceptConnection(e)
         \/ AcceptedSocketFails \/ ForgetNewConnections
  PROVE  FewAreNew'
  <1>0. tags \in [Entities -> SUBSET Tags] /\ live \subseteq Entities
    BY DEF ServerInv, TablesTyped
  <1>1. MaxAccepted \in Nat /\ accepted \in 0..MaxAccepted
    BY ServerAssumption DEF ServerAssumption, Typed, ServerTyped
  <1>2. ASSUME NEW e \in Entities, AcceptConnection(e) PROVE FewAreNew'
    <2>1. /\ phase = "accept" /\ phase' = "accept" /\ accepted' = accepted + 1
          /\ accepted < MaxAccepted /\ e \notin live
          /\ live' = live \cup {e} /\ tags'[e] = {"NewConnection", "Connected"}
          /\ \A d \in live : tags'[d] = tags[d]
      BY <1>0, <1>2 DEF AcceptConnection
    <2>2. newcomers' = newcomers \cup {e} /\ e \notin newcomers
      BY <2>1 DEF newcomers, With
    <2>3. /\ IsFiniteSet(newcomers) /\ Cardinality(newcomers) \in Nat
               /\ Cardinality(newcomers) <= accepted
      BY <2>1, FS_CardinalityType DEF FewAreNew
    <2>4. IsFiniteSet(newcomers') /\ Cardinality(newcomers') = Cardinality(newcomers) + 1
      BY <2>2, <2>3, FS_AddElement
    <2>5. QED
      BY <1>1, <2>1, <2>3, <2>4 DEF FewAreNew
  <1>3. CASE AcceptedSocketFails
    <2>1. UNCHANGED <<phase, todo, accepted, live, tags>>
      BY <1>3 DEF AcceptedSocketFails, ecs
    <2>2. newcomers' = newcomers
      BY <2>1 DEF newcomers, With
    <2>3. QED
      BY <2>1, <2>2 DEF FewAreNew
  <1>4. CASE ForgetNewConnections
    <2>1. /\ phase = "forget" /\ phase' = "accept" /\ accepted' = accepted
          /\ tags' = [d \in Entities |-> tags[d] \ {"NewConnection"}] /\ live' = live
      BY <1>4 DEF ForgetNewConnections, Enter, NoLongerNew
    <2>2. newcomers' = {}
      BY <1>0, <2>1 DEF newcomers, With
    <2>3. accepted' = 0
      BY <2>1 DEF FewAreNew
    <2>4. IsFiniteSet(newcomers') /\ Cardinality(newcomers') = 0
      BY <2>2, FS_EmptySet
    <2>5. QED
      BY <2>1, <2>3, <2>4 DEF FewAreNew
  <1>5. QED
    BY <1>2, <1>3, <1>4

\* A client that is initialized waits no longer.
LEMMA InitializeKeepsCount ==
  ASSUME FewAreNew, Typed, ServerInv, NEW e \in Entities, InitializeNewClient(e)
  PROVE  FewAreNew'
  <1>0. tags \in [Entities -> SUBSET Tags] /\ live \subseteq Entities
    BY DEF ServerInv, TablesTyped
  <1>1. /\ phase = "initialize" /\ phase' = "initialize" /\ e \in todo /\ todo' = todo \ {e}
        /\ accepted' = accepted /\ live' = live
        /\ \A d \in Entities : "NewConnection" \in tags'[d] <=> "NewConnection" \in tags[d]
    BY <1>0 DEF InitializeNewClient, Visited
  <1>2. newcomers' = newcomers
    BY <1>0, <1>1 DEF newcomers, With
  <1>3. IsFiniteSet(todo) /\ Cardinality(todo) \in Nat /\ Cardinality(todo) <= MaxAccepted
    BY <1>1, FS_CardinalityType DEF FewAreNew
  <1>4. IsFiniteSet(todo') /\ Cardinality(todo') = Cardinality(todo) - 1
    BY <1>1, <1>3, FS_RemoveElement
  <1>5. MaxAccepted \in Nat
    BY ServerAssumption DEF ServerAssumption
  <1>6. Cardinality(todo') <= MaxAccepted
    BY <1>3, <1>4, <1>5
  <1>7. QED
    BY <1>1, <1>2, <1>4, <1>6 DEF FewAreNew

\* Every other step makes no entity new.
LEMMA NextFewAreNew ==
  ASSUME FewAreNew, Typed, ServerInv, [Next]_vars
  PROVE  FewAreNew'
  <1>0. /\ tags \in [Entities -> SUBSET Tags] /\ live \subseteq Entities
        /\ accepted \in 0..MaxAccepted
    BY DEF ServerInv, TablesTyped, Typed, ServerTyped
  <1>1. ASSUME live' \subseteq live,
               \A d \in live' : "NewConnection" \in tags'[d] => "NewConnection" \in tags[d]
        PROVE  newcomers' \subseteq newcomers
    BY <1>1 DEF newcomers, With
  <1>2. CASE Start \/ Stop \/ DisconnectSystem \/ PendingDisconnectSystem
    <2>1. /\ phase \in {"stopped", "idle", "app", "pending"}
          /\ phase' \in {"stopped", "idle", "pending", "forget"} /\ accepted' = accepted
      BY <1>2 DEF Start, Stop, DisconnectSystem, PendingDisconnectSystem, Enter
    <2>2. /\ live' \subseteq live
          /\ \A d \in live' : "NewConnection" \in tags'[d] => "NewConnection" \in tags[d]
      BY <1>0, <1>2 DEF Start, Stop, DisconnectSystem, PendingDisconnectSystem, DestroyEntities,
         ecs
    <2>3. QED
      BY <1>0, <1>1, <2>1, <2>2, NoneBecomesNew
  <1>3. CASE AcceptDone \/ ReceiveDone \/ ServerApp \/ EndUpdate \/ ReportDone \/ InitializeDone
             \/ SendNewSpawnDespawn \/ SendSnapshots \/ SendDone
    <2>1. UNCHANGED <<live, tags>>
      BY <1>3 DEF AcceptDone, ReceiveDone, ServerApp, CreateNetworkEntity, DestroyNetworkEntity,
         SendTcpMessage, EndUpdate, ReportDone, InitializeDone, SendNewSpawnDespawn,
         SendSnapshots, SendDone, ecs
    <2>2. /\ \/ phase = "accept" /\ accepted' = 0
             \/ phase # "accept" /\ accepted' = accepted
          /\ phase' \notin {"accept", "initialize"}
      BY <1>3 DEF AcceptDone, ReceiveDone, ServerApp, CreateNetworkEntity, DestroyNetworkEntity,
         SendTcpMessage, EndUpdate, ReportDone, InitializeDone, SendNewSpawnDespawn,
         SendSnapshots, SendDone, Enter
    <2>3. QED
      BY <1>0, <1>1, <2>1, <2>2, NoneBecomesNew
  <1>4. CASE ReadyDone
    <2>1. /\ UNCHANGED <<live, tags, accepted>> /\ phase = "ready" /\ phase' = "initialize"
          /\ todo' = newcomers \ With("WaitingClientIsReady")
      BY <1>4 DEF ReadyDone, Enter, ecs, newcomers
    <2>2. QED
      BY <1>0, <1>1, <2>1, NoneBecomesNew
  <1>5. ASSUME NEW e \in Entities,
               \/ ReceiveTcpMessages(e) \/ ReceiveFails(e) \/ DisconnectedClient(e)
               \/ SetClientReady(e) \/ SendTcpMessages(e)
        PROVE  FewAreNew'
    <2>1. /\ phase \in {"receive", "report", "ready", "send"}
          /\ phase' = phase /\ UNCHANGED <<live, accepted>>
      BY <1>5 DEF ReceiveTcpMessages, ReceiveFails, DisconnectedClient, SetClientReady,
         SendTcpMessages, Visited, ecs
    <2>2. \A d \in live' : "NewConnection" \in tags'[d] => "NewConnection" \in tags[d]
      <3>1. CASE ReceiveTcpMessages(e) \/ DisconnectedClient(e)
        BY <3>1 DEF ReceiveTcpMessages, DisconnectedClient, ecs
      <3>2. CASE ReceiveFails(e)
        BY <1>0, <2>1, <3>2 DEF ReceiveFails, Failed
      <3>3. CASE SetClientReady(e)
        BY <1>0, <2>1, <3>3 DEF SetClientReady
      <3>4. CASE SendTcpMessages(e)
        BY <1>0, <2>1, <3>4 DEF SendTcpMessages
      <3>5. QED
        BY <1>5, <3>1, <3>2, <3>3, <3>4
    <2>3. QED
      BY <1>0, <1>1, <2>1, <2>2, NoneBecomesNew
  <1>6. CASE UNCHANGED serverVars
    <2>1. UNCHANGED <<phase, todo, accepted, live, tags>>
      BY <1>6 DEF serverVars, ecs
    <2>2. QED
      BY <1>0, <1>1, <2>1, NoneBecomesNew
  <1>7. CASE \/ AcceptedSocketFails \/ ForgetNewConnections
             \/ \E e \in Entities : AcceptConnection(e) \/ InitializeNewClient(e)
    BY <1>7, AcceptKeepsCount, InitializeKeepsCount
  <1>8. QED
    BY <1>2, <1>3, <1>4, <1>5, <1>6, <1>7
    DEF Next, ServerStep, ServerNext, ServerTick, ClientStep, Breaks, Finished, vars

\* A registered client keeps its id until it leaves the registry.
LEMMA IdsStay ==
  ASSUME NEW d \in registered',
         \/ UNCHANGED registryVars \/ Start
         \/ \E e \in Entities : DisconnectedClient(e)
  PROVE  d \in registered /\ Registry!GetClientId(d)' = Registry!GetClientId(d)
  <1>1. CASE UNCHANGED registryVars
    BY <1>1 DEF registryVars, registry, registered, Registry!GetClientId
  <1>2. CASE Start
    BY <1>2 DEF Start, Registry!Restart, Registry!ResetRegistry, Registry!EmptyMap,
       registered
  <1>3. ASSUME NEW e \in Entities, DisconnectedClient(e)
        PROVE  d \in registered /\ Registry!GetClientId(d)' = Registry!GetClientId(d)
    <2>1. \/ entityClientLookup' = entityClientLookup
          \/ \E x : entityClientLookup' = Registry!Erase(entityClientLookup, x)
      BY <1>3 DEF DisconnectedClient, Registry!RemoveClientId, Registry!ForgetOwner, registry,
         Registry!registry
    <2>2. QED
      BY <2>1 DEF registered, Registry!GetClientId, Registry!Erase
  <1>4. QED
    BY <1>1, <1>2, <1>3

\* Where the message for a new client is under way in the server.
Giving == {"initialize", "broadcast", "snapshot", "send"}

\* Steps of the server that send nothing and initialize nobody.
LEMMA QuietStepKeepsIds ==
  ASSUME IdsInv, FewAreNew', UNCHANGED <<clientVars, toClient>>,
         \A e \in live' \cap registered' :
           /\ e \in live /\ e \in registered /\ conn'[e] = conn[e]
           /\ Registry!GetClientId(e)' = Registry!GetClientId(e)
           /\ e \in Linked' /\ HasMessage(toSend'[e], "InitializeClient") =>
                /\ e \in Linked /\ HasMessage(toSend[e], "InitializeClient")
                /\ phase \in Giving =>
                     phase' \in Giving \ {"initialize"} /\ initMessage' = initMessage
  PROVE  IdsInv'
  <1>1. ASSUME NEW e \in live' \cap registered' PROVE QueuedId(e)'
    <2> SUFFICES ASSUME e \in Linked', HasMessage(toSend'[e], "InitializeClient")
                 PROVE  GivenInTick(e)'
      BY DEF QueuedId
    <2>1. GivenInTick(e)
      BY <1>1 DEF IdsInv, QueuedId
    <2>2. phase' \in Giving \ {"initialize"} /\ initMessage' = initMessage
      BY <1>1, <2>1 DEF GivenInTick, Giving
    <2>3. QED
      BY <1>1, <2>1, <2>2 DEF GivenInTick, Giving, Near
  <1>2. ASSUME NEW c \in Conns, NEW e \in live' \cap registered', conn'[e] = c
        PROVE  ToldId(c, e)'
    <2>1. ToldId(c, e) /\ Registry!GetClientId(e)' = Registry!GetClientId(e)
      BY <1>2 DEF IdsInv
    <2>2. QED
      BY <2>1 DEF ToldId, NamesNear, Near, IsReady, clientVars
  <1>3. QED
    BY <1>1, <1>2 DEF IdsInv

\* The beginnings and ends of phases, and the server's start and stop.
LEMMA PhasesKeepIds ==
  ASSUME IdsInv, FewAreNew', NoQueueWithoutEntity, Typed, ServerInv, UNCHANGED clientVars,
         \/ Start \/ Stop \/ DisconnectSystem \/ PendingDisconnectSystem \/ ForgetNewConnections
         \/ AcceptedSocketFails \/ AcceptDone \/ ReceiveDone
         \/ CreateNetworkEntity \/ (\E n \in Spawns!NetworkIds : DestroyNetworkEntity(n))
         \/ EndUpdate \/ ReportDone \/ ReadyDone \/ InitializeDone
         \/ \E e \in Entities : DisconnectedClient(e)
  PROVE  IdsInv'
  <1>0. tags \in [Entities -> SUBSET Tags] /\ live \subseteq Entities
    BY DEF ServerInv, TablesTyped
  <1>1. /\ UNCHANGED toClient /\ live' \subseteq live
        /\ \A e \in live' : conn'[e] = conn[e] /\ toSend'[e] = toSend[e]
    BY PhasesMoveNothing
  <1>2. \/ UNCHANGED registryVars \/ Start
        \/ \E e \in Entities : DisconnectedClient(e)
    BY DEF Stop, DisconnectSystem, PendingDisconnectSystem, ForgetNewConnections,
       AcceptedSocketFails, AcceptDone, ReceiveDone, CreateNetworkEntity, DestroyNetworkEntity,
       EndUpdate, ReportDone, ReadyDone, InitializeDone
  <1>3. ASSUME NEW e \in live', e \in Linked' PROVE e \in Linked
    <2>1. e \in live /\ e \in Entities
      BY <1>0, <1>1
    <2>2. CASE PendingDisconnectSystem
      BY <1>0, <1>3, <2>1, <2>2 DEF PendingDisconnectSystem, Linked, With
    <2>3. CASE ForgetNewConnections
      BY <1>0, <1>3, <2>1, <2>3 DEF ForgetNewConnections, NoLongerNew, Linked, With
    <2>4. CASE Stop \/ DisconnectSystem
      BY <1>0, <1>3, <2>1, <2>4 DEF Stop, DisconnectSystem, DestroyEntities, Linked, With
    <2>5. CASE \/ Start \/ AcceptedSocketFails \/ AcceptDone \/ ReceiveDone
               \/ CreateNetworkEntity \/ (\E n \in Spawns!NetworkIds : DestroyNetworkEntity(n))
               \/ EndUpdate \/ ReportDone \/ ReadyDone \/ InitializeDone
               \/ \E d \in Entities : DisconnectedClient(d)
      <3>1. UNCHANGED <<live, tags>>
        BY <2>5 DEF Start, AcceptedSocketFails, AcceptDone, ReceiveDone, CreateNetworkEntity,
           DestroyNetworkEntity, EndUpdate, ReportDone, ReadyDone, InitializeDone,
           DisconnectedClient, ecs
      <3>2. QED
        BY <1>3, <3>1 DEF Linked, With
    <2>6. QED
      BY <2>2, <2>3, <2>4, <2>5
  <1>4. phase \in Giving => phase' \in Giving \ {"initialize"} /\ initMessage' = initMessage
    BY DEF Giving, Start, Stop, DisconnectSystem, PendingDisconnectSystem, ForgetNewConnections,
       AcceptedSocketFails, AcceptDone, ReceiveDone, CreateNetworkEntity, DestroyNetworkEntity,
       EndUpdate, ReportDone, ReadyDone, InitializeDone, DisconnectedClient, Enter
  <1>5. ASSUME NEW e \in live' \cap registered'
        PROVE  /\ e \in live /\ e \in registered /\ conn'[e] = conn[e]
               /\ Registry!GetClientId(e)' = Registry!GetClientId(e)
               /\ e \in Linked' => e \in Linked
               /\ toSend'[e] = toSend[e]
    BY <1>1, <1>2, <1>3, <1>5, IdsStay
  <1>6. QED
    BY <1>1, <1>4, <1>5, QuietStepKeepsIds

\* Steps of the server for one entity, which queue no InitializeClientMessage.
LEMMA VisitsKeepIds ==
  ASSUME IdsInv, FewAreNew', Typed, ServerInv, Spawns!SpawnInv, UNCHANGED clientVars,
         NEW e \in Entities,
         \/ AcceptConnection(e) \/ ReceiveTcpMessages(e) \/ ReceiveFails(e) \/ SetClientReady(e)
  PROVE  IdsInv'
  <1>0. /\ tags \in [Entities -> SUBSET Tags] /\ live \subseteq Entities
        /\ toSend \in [Entities -> Seq(Messages)]
        /\ conn \in [Entities -> Conns \cup {NoConn}]
    BY DEF ServerInv, TablesTyped, Typed, ServerTyped
  <1>1. /\ UNCHANGED <<toClient, registryVars>>
        /\ phase \notin Giving
    BY DEF AcceptConnection, ReceiveTcpMessages, ReceiveFails, SetClientReady, Accept,
       ServerReceives, link, Giving
  <1>2. registered' = registered /\ registered \subseteq live
    BY <1>1 DEF registryVars, registry, registered, ServerInv, RegisteredLive, AcceptConnection,
       ReceiveTcpMessages, ReceiveFails, SetClientReady
  <1>3. ASSUME NEW d \in registered
        PROVE  /\ conn'[d] = conn[d] /\ (d \in Linked' => d \in Linked)
               /\ HasMessage(toSend'[d], "InitializeClient") =>
                    HasMessage(toSend[d], "InitializeClient")
    <2>0. d \in live /\ d \in Entities
      BY <1>0, <1>2
    <2>1. CASE AcceptConnection(e)
      <3>1. /\ d # e /\ toSend' = toSend /\ tags'[d] = tags[d] /\ conn'[d] = conn[d]
            /\ live' = live \cup {e}
        BY <1>0, <2>0, <2>1 DEF AcceptConnection
      <3>2. QED
        BY <2>0, <3>1 DEF Linked, With
    <2>2. CASE ReceiveTcpMessages(e)
      BY <2>2 DEF ReceiveTcpMessages, Linked, With
    <2>3. CASE ReceiveFails(e)
      <3>1. UNCHANGED <<live, conn, toSend>>
              /\ tags'[d] \in {tags[d], tags[d] \cup {"PendingDisconnect"}}
        BY <1>0, <2>0, <2>3 DEF ReceiveFails, Failed
      <3>2. QED
        BY <3>1 DEF Linked, With
    <2>4. CASE SetClientReady(e)
      <3>1. UNCHANGED <<live, conn>>
        BY <2>4 DEF SetClientReady
      <3>2. \A t \in {"Connected", "PendingDisconnect"} : t \in tags'[d] <=> t \in tags[d]
        BY <1>0, <2>0, <2>4 DEF SetClientReady
      <3>3. AllSpawns \in Seq(Messages) /\ ~HasMessage(AllSpawns, "InitializeClient")
        <4>1. SpawnDespawn(spawns, <<>>) \in Messages
          <5>1. spawns \in Seq(Spawns!NetworkIds) /\ <<>> \in Seq(Spawns!NetworkIds)
            BY DEF Spawns!SpawnInv, Spawns!TypeOK
          <5>2. QED
            BY <5>1, MessageTypes
        <4>2. SpawnDespawn(spawns, <<>>).type = "SpawnDespawn"
          BY MessageTypeNames
        <4>3. QED
          BY <4>1, <4>2 DEF AllSpawns, HasMessage
      <3>4. toSend[d] \in Seq(Messages)
        BY <1>0, <2>0
      <3>5. toSend'[d] = toSend[d] \/ toSend'[d] = toSend[d] \o AllSpawns
        BY <1>0, <2>0, <2>4 DEF SetClientReady
      <3>6. HasMessage(toSend[d] \o AllSpawns, "InitializeClient") =>
              HasMessage(toSend[d], "InitializeClient")
        BY <3>3, <3>4, HasMessageConcat
      <3>7. QED
        BY <3>1, <3>2, <3>5, <3>6 DEF Linked, With
    <2>5. QED
      BY <2>1, <2>2, <2>3, <2>4
  <1>4. \A d \in registered' : Registry!GetClientId(d)' = Registry!GetClientId(d)
    BY <1>1, IdsStay
  <1>5. QED
    BY <1>1, <1>2, <1>3, <1>4, QuietStepKeepsIds

\* Other messages that are queued.
LEMMA QueueingKeepsIds ==
  ASSUME IdsInv, FewAreNew', Typed, ServerInv, UNCHANGED <<clientVars, toClient, registryVars>>,
         UNCHANGED <<live, conn, tags, initMessage>>,
         \A e \in live : \/ toSend'[e] = toSend[e]
                         \/ \E m \in Messages : /\ m.type # "InitializeClient"
                                                /\ toSend'[e] = Append(toSend[e], m),
         phase \in Giving => phase' \in Giving \ {"initialize"}
  PROVE  IdsInv'
  <1>1. live \subseteq Entities /\ \A e \in Entities : toSend[e] \in Seq(Messages)
    BY DEF Typed, ServerTyped, ServerInv, TablesTyped
  <1>2. registered' = registered /\ Linked' = Linked
    BY DEF registryVars, registry, registered, Linked, With
  <1>3. ASSUME NEW e \in live, HasMessage(toSend'[e], "InitializeClient")
        PROVE  HasMessage(toSend[e], "InitializeClient")
    <2>1. CASE toSend'[e] = toSend[e]
      BY <1>3, <2>1
    <2>2. ASSUME NEW m \in Messages, m.type # "InitializeClient",
                 toSend'[e] = Append(toSend[e], m)
          PROVE  HasMessage(toSend[e], "InitializeClient")
      BY <1>1, <1>3, <2>2, HasMessageAppend
    <2>3. QED
      BY <2>1, <2>2
  <1>4. \A e \in registered' : Registry!GetClientId(e)' = Registry!GetClientId(e)
    BY IdsStay
  <1>5. QED
    BY <1>2, <1>3, <1>4, QuietStepKeepsIds

\* What the application and the broadcast queue.
LEMMA BroadcastKeepsIds ==
  ASSUME IdsInv, FewAreNew', Typed, ServerInv, Spawns!SpawnInv, UNCHANGED clientVars,
         \/ \E id \in Registry!ClientIds : SendTcpMessage(id)
         \/ SendNewSpawnDespawn \/ SendSnapshots
  PROVE  IdsInv'
  <1>0. live \subseteq Entities /\ toSend \in [Entities -> Seq(Messages)]
    BY DEF Typed, ServerTyped, ServerInv, TablesTyped
  <1>1. /\ UNCHANGED <<toClient, registryVars, live, conn, tags, initMessage>>
        /\ phase \in Giving => phase' \in Giving \ {"initialize"}
    BY DEF SendTcpMessage, SendNewSpawnDespawn, SendSnapshots, Enter, link, Giving
  <1>2. \A e \in live : \/ toSend'[e] = toSend[e]
                        \/ \E m \in Messages : /\ m.type # "InitializeClient"
                                               /\ toSend'[e] = Append(toSend[e], m)
    <2>1. ASSUME NEW id \in Registry!ClientIds, SendTcpMessage(id), NEW e \in live
          PROVE  toSend'[e] = toSend[e] \/ toSend'[e] = Append(toSend[e], AppMessage)
      <3> DEFINE d == Registry!GetEntity(id)
      <3>1. toSend' = [toSend EXCEPT ![d] = Append(@, AppMessage)]
        BY <2>1 DEF SendTcpMessage
      <3> HIDE DEF d
      <3>2. QED
        BY <1>0, <3>1
    <2>2. CASE SendNewSpawnDespawn
      <3>1. SpawnDespawn(newSpawns, newDespawns) \in Messages
        <4>1. newSpawns \in Seq(Spawns!NetworkIds) /\ newDespawns \in Seq(Spawns!NetworkIds)
          BY DEF Spawns!SpawnInv, Spawns!TypeOK
        <4>2. QED
          BY <4>1, MessageTypes
      <3>2. \A e \in live : \/ toSend'[e] = toSend[e]
                            \/ toSend'[e] = Append(toSend[e],
                                 SpawnDespawn(newSpawns, newDespawns))
        BY <1>0, <2>2 DEF SendNewSpawnDespawn
      <3>3. QED
        BY <3>1, <3>2, MessageTypeNames
    <2>3. CASE SendSnapshots
      <3>1. \A e \in live : toSend'[e] = toSend[e] \/ toSend'[e] = Append(toSend[e], Snapshot)
        BY <1>0, <2>3 DEF SendSnapshots
      <3>2. QED
        BY <3>1, MessageTypes, MessageTypeNames
    <2>4. AppMessage \in Messages /\ AppMessage.type # "InitializeClient"
      BY MessageTypes, MessageTypeNames
    <2>5. QED
      BY <2>1, <2>2, <2>3, <2>4
  <1>3. QED
    BY <1>1, <1>2, QueueingKeepsIds

\* When the tick is over nothing is queued, so the message may lose its id.
LEMMA SendDoneKeepsIds ==
  ASSUME IdsInv, FewAreNew', AllSent, UNCHANGED clientVars, SendDone
  PROVE  IdsInv'
  <1>1. /\ UNCHANGED <<toClient, registryVars, live, conn, tags, toSend>>
        /\ phase = "send" /\ todo = {}
    BY DEF SendDone, ecs, link
  <1>2. registered' = registered
    BY <1>1 DEF registryVars, registry, registered
  <1>3. \A e \in registered' : Registry!GetClientId(e)' = Registry!GetClientId(e)
    BY <1>1, IdsStay
  <1>4. ASSUME NEW e \in live', e \in Linked' PROVE ~HasMessage(toSend'[e], "InitializeClient")
    <2>1. e \in live /\ "Connected" \in tags[e] /\ "PendingDisconnect" \notin tags[e]
      BY <1>1, <1>4 DEF Linked, With
    <2>2. toSend'[e] = <<>>
      BY <1>1, <2>1 DEF AllSent
    <2>3. QED
      BY <2>2 DEF HasMessage
  <1>5. QED
    BY <1>1, <1>2, <1>3, <1>4, QuietStepKeepsIds

\* The next client gets the next id, and all messages of this tick with it.
LEMMA InitializeKeepsIds ==
  ASSUME IdsInv, FewAreNew', TagInv, QuietInv, Typed, ServerInv, UNCHANGED clientVars,
         NEW e \in Entities, InitializeNewClient(e)
  PROVE  IdsInv'
  <1>0. /\ live \subseteq Entities /\ toSend \in [Entities -> Seq(Messages)]
        /\ tags \in [Entities -> SUBSET Tags] /\ initMessage \in Nat
        /\ nextClientId \in Nat /\ MaxAccepted \in Nat /\ MaxAccepted >= 1
    BY ServerAssumption
    DEF Typed, ServerTyped, ServerInv, TablesTyped, ServerAssumption, InitializeNewClient,
        Registry!ClientIds
  <1>1. /\ phase = "initialize" /\ phase' = "initialize" /\ e \in todo /\ e \in live
        /\ todo' = todo \ {e} /\ UNCHANGED <<live, conn, link>>
        /\ initMessage' = nextClientId /\ nextClientId' = nextClientId + 1
        /\ \A d \in Entities \ {e} : toSend'[d] = toSend[d]
        /\ tags' = [tags EXCEPT ![e] = @ \cup {"WaitingClientIsReady"}]
    BY <1>0 DEF InitializeNewClient, Visited, GivenId, ServerInv, TablesTyped
  <1>2. "NewConnection" \in tags[e] /\ e \notin registered
    BY <1>1 DEF ServerInv, OnlyNewAreInitialized, NewIsRegisteredOnce
  <1>3. /\ registered' = registered \cup {e}
        /\ Registry!GetClientId(e)' = nextClientId
        /\ \A d \in registered : Registry!GetClientId(d)' = Registry!GetClientId(d)
    BY <1>2 DEF InitializeNewClient, Registry!AddClientId, Registry!InsertOrAssign,
       Registry!GetClientId, registered
  <1>4. \A d \in registered : Registry!GetClientId(d) \in Nat
    BY RegistryLookups DEF Registry!ClientIds
  <1>5. /\ IsFiniteSet(todo) /\ Cardinality(todo) \in Nat /\ Cardinality(todo) <= MaxAccepted
        /\ Cardinality(todo) >= 1 /\ Cardinality(todo') = Cardinality(todo) - 1
    <2>1. IsFiniteSet(todo) /\ Cardinality(todo) \in Nat /\ Cardinality(todo) <= MaxAccepted
      BY <1>1, FS_CardinalityType DEF IdsInv, FewAreNew
    <2>2. Cardinality(todo') = Cardinality(todo) - 1 /\ Cardinality(todo) # 0
      BY <1>1, <2>1, FS_RemoveElement, FS_EmptySet
    <2>3. QED
      BY <2>1, <2>2
  <1>6. QueuedId(e)'
    <2>1. Near(initMessage, e)'
      BY <1>0, <1>1, <1>3 DEF Near
    <2>2. initMessage' + Cardinality(todo') < Registry!GetClientId(e)' + MaxAccepted
      BY <1>0, <1>1, <1>3, <1>5
    <2>3. QED
      BY <1>1, <2>1, <2>2 DEF QueuedId, GivenInTick
  <1>7. ASSUME NEW d \in live \cap registered, d # e PROVE QueuedId(d)'
    <2>1. d \in Linked' => d \in Linked
      BY <1>0, <1>1, <1>7 DEF Linked, With
    <2> SUFFICES ASSUME d \in Linked, HasMessage(toSend[d], "InitializeClient")
                 PROVE  GivenInTick(d)'
      BY <1>0, <1>1, <1>7, <2>1 DEF QueuedId
    <2>2. /\ Near(initMessage, d) /\ initMessage + 1 = nextClientId
          /\ initMessage + Cardinality(todo) < Registry!GetClientId(d) + MaxAccepted
      BY <1>1, <1>7 DEF IdsInv, QueuedId, GivenInTick
    <2>3. /\ Registry!GetClientId(d) \in Nat /\ Registry!GetClientId(d) <= initMessage
          /\ Registry!GetClientId(d)' = Registry!GetClientId(d)
      BY <1>0, <1>3, <1>4, <1>7, <2>2 DEF Near
    <2>4. initMessage' = initMessage + 1
      BY <1>1, <2>2
    <2>5. /\ initMessage' + Cardinality(todo') < Registry!GetClientId(d)' + MaxAccepted
          /\ initMessage' + 1 = nextClientId'
      BY <1>0, <1>1, <1>5, <2>2, <2>3, <2>4
    <2>6. Near(initMessage, d)'
      <3>1. initMessage' \in Registry!GetClientId(d)..(Registry!GetClientId(d) + MaxAccepted - 1)
        BY <1>0, <1>5, <2>2, <2>3, <2>4
      <3>2. QED
        BY <2>3, <3>1 DEF Near
    <2>7. QED
      BY <1>1, <2>5, <2>6 DEF GivenInTick
  <1>8. ASSUME NEW c \in Conns, conn'[e] = c PROVE ToldId(c, e)'
    <2>1. ~Begun(e)
      BY <1>1 DEF TagInv, LoopsOverTags
    <2>2. Quiet(c)
      BY <1>1, <1>8, <2>1 DEF QuietInv, NotBegunIsQuiet
    <2>3. toClient'[c] = <<>> /\ clientReceived'[c] = <<>> /\ ~IsReady(c)'
      BY <1>1, <2>2 DEF Quiet, link, clientVars, IsReady
    <2>4. QED
      BY <2>3 DEF ToldId, NamesNear
  <1>9. ASSUME NEW d \in live \cap registered, NEW c \in Conns, conn'[d] = c PROVE ToldId(c, d)'
    <2>1. ToldId(c, d) /\ Registry!GetClientId(d)' = Registry!GetClientId(d)
      BY <1>1, <1>3, <1>9 DEF IdsInv
    <2>2. QED
      BY <1>1, <2>1 DEF ToldId, NamesNear, Near, IsReady, clientVars, link
  <1>10. QED
    BY <1>1, <1>2, <1>3, <1>6, <1>7, <1>8, <1>9 DEF IdsInv

\* SendTcpMessageSystem visits connections that work.
SendsLinked == phase = "send" => todo \subseteq Linked

\* The loop of SendTcpMessageSystem keeps to them: nothing breaks a connection
\* it has still to visit.
LEMMA NextSendsLinked ==
  ASSUME SendsLinked, ServerInv, [Next]_vars
  PROVE  SendsLinked'
  <1>0. tags \in [Entities -> SUBSET Tags] /\ live \subseteq Entities /\ todo \subseteq live
    BY DEF ServerInv, TablesTyped
  <1>1. CASE SendSnapshots
    BY <1>1 DEF SendSnapshots, Enter, SendsLinked, Linked, With
  <1>2. ASSUME NEW e \in Entities, SendTcpMessages(e) PROVE SendsLinked'
    <2>1. phase = "send" /\ todo' = todo \ {e} /\ live' = live
      BY <1>2 DEF SendTcpMessages, Visited
    <2>2. \A d \in Entities \ {e} : tags'[d] = tags[d]
      BY <1>0, <1>2 DEF SendTcpMessages
    <2>3. QED
      BY <1>0, <2>1, <2>2 DEF SendsLinked, Linked, With
  <1>3. CASE UNCHANGED serverVars
    BY <1>3 DEF serverVars, ecs, SendsLinked, Linked, With
  <1>4. CASE \/ Start \/ Stop \/ DisconnectSystem \/ PendingDisconnectSystem
             \/ ForgetNewConnections \/ AcceptedSocketFails \/ AcceptDone \/ ReceiveDone
             \/ ServerApp \/ EndUpdate \/ ReportDone \/ ReadyDone \/ InitializeDone
             \/ SendNewSpawnDespawn \/ SendDone
    <2>1. phase' # "send"
      BY <1>4 DEF Start, Stop, DisconnectSystem, PendingDisconnectSystem, ForgetNewConnections,
         AcceptedSocketFails, AcceptDone, ReceiveDone, ServerApp, CreateNetworkEntity,
         DestroyNetworkEntity, SendTcpMessage, EndUpdate, ReportDone, ReadyDone, InitializeDone,
         SendNewSpawnDespawn, SendDone, Enter
    <2>2. QED
      BY <2>1 DEF SendsLinked
  <1>5. ASSUME NEW e \in Entities,
               \/ AcceptConnection(e) \/ ReceiveTcpMessages(e) \/ ReceiveFails(e)
               \/ DisconnectedClient(e) \/ SetClientReady(e) \/ InitializeNewClient(e)
        PROVE  SendsLinked'
    <2>1. phase' # "send"
      BY <1>5 DEF AcceptConnection, ReceiveTcpMessages, ReceiveFails, DisconnectedClient,
         SetClientReady, InitializeNewClient, Visited
    <2>2. QED
      BY <2>1 DEF SendsLinked
  <1>6. QED
    BY <1>1, <1>2, <1>3, <1>4, <1>5
    DEF Next, ServerStep, ServerNext, ServerTick, ClientStep, Breaks, Finished, vars

\* A message is serialized with the id of a client of this tick.
LEMMA SendKeepsIds ==
  ASSUME IdsInv, FewAreNew', SendsLinked, ConnInv, Typed, ServerInv, UNCHANGED clientVars,
         NEW e \in Entities, SendTcpMessages(e)
  PROVE  IdsInv'
  <1> DEFINE b == conn[e]
  <1>0. /\ tags \in [Entities -> SUBSET Tags] /\ live \subseteq Entities /\ e \in live
        /\ e \in todo
        /\ toSend \in [Entities -> Seq(Messages)] /\ toSend[e] \in Seq(Messages)
        /\ toClient \in [Conns -> Seq(Messages)] /\ b \in Conns /\ toClient[b] \in Seq(Messages)
        /\ initMessage \in 0..MaxClientId
    BY ServerAssumption
    DEF Typed, LinkTyped, ServerTyped, ServerInv, TablesTyped, ServerAssumption,
       SendTcpMessages
  <1>1. PICK k \in SentCounts(toClient[b], clientEnd[b] = "open", toSend[e]) :
          /\ ServerSends(b, Serialized(Take(toSend[e], k)))
          /\ toSend' = [toSend EXCEPT ![e] = Drop(@, k)]
          /\ tags' = [tags EXCEPT ![e] = IF k < Len(toSend[e]) THEN @
               \cup {"PendingDisconnect"} ELSE @]
    BY DEF SendTcpMessages
  <1>2. k \in 0..Len(toSend[e])
    <2>1. Len(toClient[b]) <= Capacity
      BY <1>0 DEF Typed, LinkTyped
    <2>2. QED
      BY <1>0, <1>1, <2>1, SentCountsBound
  <1> DEFINE sent == Serialized(Take(toSend[e], k))
             left == Drop(toSend[e], k)
  <1>3. /\ UNCHANGED <<live, conn, registryVars, initMessage>>
        /\ phase = "send" /\ phase' = "send"
        /\ toSend'[e] = left /\ \A d \in Entities \ {e} : toSend'[d] = toSend[d]
        /\ toClient'[b] \in {toClient[b] \o sent, toClient[b]}
        /\ \A c \in Conns \ {b} : toClient'[c] = toClient[c]
        /\ \A d \in Entities \ {e} : tags'[d] = tags[d]
        /\ tags'[e] = IF k < Len(toSend[e]) THEN tags[e] \cup {"PendingDisconnect"} ELSE tags[e]
    BY <1>0, <1>1 DEF ServerSends, SendTcpMessages, Visited
  <1>4. registered' = registered
    BY <1>3 DEF registryVars, registry, registered
  <1>5. \A d \in registered : Registry!GetClientId(d)' = Registry!GetClientId(d)
    BY <1>3, <1>4, IdsStay
  <1>6. left = <<>> \/ k < Len(toSend[e])
    BY <1>0, <1>2 DEF Drop
  <1>7. Take(toSend[e], k) \in Seq(Messages) /\ sent \in Seq(Messages)
    BY <1>0, <1>2, TakeDrop, SerializedType
  <1>8. ASSUME e \in registered PROVE NamesNear(sent, e)
    <2>1. HasMessage(Take(toSend[e], k), "InitializeClient") =>
            HasMessage(toSend[e], "InitializeClient")
      BY <1>0, <1>2, HasMessageParts
    <2>2. HasMessage(toSend[e], "InitializeClient") => Near(initMessage, e)
      BY <1>0, <1>3, <1>8 DEF IdsInv, QueuedId, GivenInTick, SendsLinked
    <2>3. QED
      BY <1>0, <1>7, <2>1, <2>2, SerializedNames
  <1> HIDE DEF sent, left, b
  <1>9. ASSUME NEW d \in live \cap registered PROVE QueuedId(d)'
    <2>1. CASE d = e
      <3>1. e \notin Linked' \/ ~HasMessage(toSend'[e], "InitializeClient")
        BY <1>3, <1>6 DEF Linked, With, HasMessage
      <3>2. QED
        BY <2>1, <3>1 DEF QueuedId
    <2>2. CASE d # e
      <3>1. tags'[d] = tags[d] /\ toSend'[d] = toSend[d]
        BY <1>0, <1>3, <2>2
      <3>2. d \in Linked' => d \in Linked
        BY <1>3, <3>1 DEF Linked, With
      <3>3. GivenInTick(d) => GivenInTick(d)'
        BY <1>3, <1>5 DEF GivenInTick, Near
      <3>4. QED
        BY <3>1, <3>2, <3>3 DEF IdsInv, QueuedId
    <2>3. QED
      BY <2>1, <2>2
  <1>10. ASSUME NEW d \in live \cap registered, NEW c \in Conns, conn[d] = c PROVE ToldId(c, d)'
    <2>1. ToldId(c, d) /\ Registry!GetClientId(d)' = Registry!GetClientId(d)
      BY <1>5, <1>10 DEF IdsInv
    <2>2. NamesNear(toClient'[c], d)
      <3>1. CASE toClient'[c] = toClient[c]
        BY <2>1, <3>1 DEF ToldId
      <3>2. CASE c = b /\ toClient'[c] = toClient[c] \o sent
        <4>1. d = e
          BY <1>0, <1>10, <3>2 DEF ConnInv, EntitiesHoldConns, b
        <4>2. NamesNear(toClient[c], d) /\ NamesNear(sent, d)
          BY <1>8, <1>10, <2>1, <4>1 DEF ToldId
        <4>3. toClient[c] \in Seq(Messages)
          BY <1>0
        <4>4. NamesNear(toClient[c] \o sent, d)
          BY <1>7, <4>2, <4>3, NamesNearConcat
        <4>5. QED
          BY <3>2, <4>4
      <3>3. QED
        BY <1>3, <3>1, <3>2
    <2>3. \A id : Near(id, d)' <=> Near(id, d)
      BY <2>1 DEF Near
    <2>4. QED
      BY <2>1, <2>2, <2>3 DEF ToldId, NamesNear, Near, IsReady, clientVars
  <1>11. QED
    BY <1>3, <1>4, <1>9, <1>10 DEF IdsInv

\* What every step of the server does to the ids.
LEMMA ServerKeepsIds ==
  ASSUME IdsInv, FewAreNew', SendsLinked, AllSent, FullInv, ServerNext, UNCHANGED clientVars
  PROVE  IdsInv'
  <1>0. Typed /\ ServerInv /\ Spawns!SpawnInv /\ TagInv /\ ConnInv /\ QuietInv
    BY DEF FullInv, SessionInv
  <1>1. CASE \/ Start \/ Stop \/ DisconnectSystem \/ PendingDisconnectSystem
             \/ ForgetNewConnections \/ AcceptedSocketFails \/ AcceptDone \/ ReceiveDone
             \/ CreateNetworkEntity \/ (\E n \in Spawns!NetworkIds : DestroyNetworkEntity(n))
             \/ EndUpdate \/ ReportDone \/ ReadyDone \/ InitializeDone
             \/ \E e \in Entities : DisconnectedClient(e)
    BY <1>0, <1>1, PhasesKeepIds DEF QuietInv
  <1>2. CASE \/ \E id \in Registry!ClientIds : SendTcpMessage(id)
             \/ SendNewSpawnDespawn \/ SendSnapshots
    BY <1>0, <1>2, BroadcastKeepsIds
  <1>3. CASE SendDone
    BY <1>3, SendDoneKeepsIds
  <1>4. ASSUME NEW e \in Entities,
               \/ AcceptConnection(e) \/ ReceiveTcpMessages(e) \/ ReceiveFails(e)
               \/ SetClientReady(e)
        PROVE  IdsInv'
    BY <1>0, <1>4, VisitsKeepIds
  <1>5. ASSUME NEW e \in Entities, InitializeNewClient(e) PROVE IdsInv'
    BY <1>0, <1>5, InitializeKeepsIds
  <1>6. ASSUME NEW e \in Entities, SendTcpMessages(e) PROVE IdsInv'
    BY <1>0, <1>6, SendKeepsIds
  <1>7. QED
    BY <1>1, <1>2, <1>3, <1>4, <1>5, <1>6 DEF ServerNext, ServerTick, ServerApp

\* What the client of connection b was told.
ToldAt(b) == \A e \in live \cap registered : conn[e] = b => ToldId(b, e)

\* A client that reads nothing and does not take an id.
LEMMA OthersKeepIds ==
  ASSUME NEW b \in Conns, ToldAt(b), UNCHANGED serverVars,
         clientReceived'[b] = clientReceived[b] \/ clientReceived'[b] = <<>>,
         toClient'[b] = toClient[b] \/ toClient'[b] = <<>>,
         IsReady(b)' => IsReady(b) /\ clientId'[b] = clientId[b]
  PROVE  ToldAt(b)'
  <1>1. /\ UNCHANGED <<live, conn>> /\ registered' = registered
        /\ \A e : Registry!GetClientId(e)' = Registry!GetClientId(e)
    BY DEF serverVars, ecs, registryVars, registry, registered, Registry!GetClientId
  <1>2. \A id, e : Near(id, e)' <=> Near(id, e)
    BY <1>1 DEF Near
  <1>3. ASSUME NEW e \in live \cap registered, conn[e] = b PROVE ToldId(b, e)'
    <2>1. ToldId(b, e)
      BY <1>3 DEF ToldAt
    <2>2. \A msgs : NamesNear(msgs, e)' <=> NamesNear(msgs, e)
      BY <1>2 DEF NamesNear
    <2>3. NamesNear(<<>>, e)
      BY DEF NamesNear
    <2>4. NamesNear(toClient'[b], e) /\ NamesNear(clientReceived'[b], e)
      BY <2>1, <2>3 DEF ToldId
    <2>5. NamesNear(toClient[b], e)' /\ NamesNear(clientReceived[b], e)'
      BY <1>2, <2>4 DEF NamesNear
    <2>6. IsReady(b)' => Near(clientId[b], e)'
      BY <1>1, <2>1 DEF ToldId, Near
    <2>7. QED
      BY <2>5, <2>6 DEF ToldId
  <1>4. QED
    BY <1>1, <1>3 DEF ToldAt

\* A connection that is made has no entity.
LEMMA ConnectingTellsNothing ==
  ASSUME NEW b \in Conns, ConnInv, clientPhase[b] = "off", UNCHANGED serverVars
  PROVE  ToldAt(b)'
  <1>1. \A e \in live : conn[e] # b
    BY DEF ConnInv, UnusedConnections, EntitiesHoldConns
  <1>2. QED
    BY <1>1 DEF ToldAt, serverVars, ecs

\* A client that receives, and one that takes its id.
LEMMA ReadingKeepsIds ==
  ASSUME NEW c \in Conns, ToldAt(c), Typed, UNCHANGED serverVars,
         BeginUpdate(c) \/ EndUpdateInitializes(c)
  PROVE  ToldAt(c)'
  <1>0. /\ clientReceived \in [Conns -> Seq(Messages)] /\ toClient \in [Conns -> Seq(Messages)]
        /\ toClient[c] \in Seq(Messages) /\ clientTags \in [Conns -> SUBSET Tags]
        /\ clientId \in [Conns -> 0..MaxClientId]
    BY DEF Typed, LinkTyped, ClientTyped
  <1>1. /\ UNCHANGED <<live, conn>> /\ registered' = registered
        /\ \A e : Registry!GetClientId(e)' = Registry!GetClientId(e)
    BY DEF serverVars, ecs, registryVars, registry, registered, Registry!GetClientId
  <1>2. \A id, e : Near(id, e)' <=> Near(id, e)
    BY <1>1 DEF Near
  <1>3. ASSUME NEW e \in live \cap registered, conn[e] = c PROVE ToldId(c, e)'
    <2>1. ToldId(c, e)
      BY <1>3 DEF ToldAt
    <2>2. CASE EndUpdateInitializes(c)
      <3>1. PICK i \in 1..Len(clientReceived[c]) :
              /\ clientReceived[c][i].type = "InitializeClient"
              /\ clientId' = [clientId EXCEPT ![c] = clientReceived[c][i].id]
        BY <2>2 DEF EndUpdateInitializes, IsFirst
      <3>2. Near(clientId'[c], e)
        BY <1>0, <2>1, <3>1 DEF ToldId, NamesNear
      <3>3. UNCHANGED <<clientReceived, toClient>>
        BY <2>2 DEF EndUpdateInitializes, link
      <3>4. NamesNear(toClient[c], e)' /\ NamesNear(clientReceived[c], e)'
        BY <1>2, <2>1, <3>3 DEF ToldId, NamesNear
      <3>5. Near(clientId[c], e)'
        BY <1>1, <3>2 DEF Near
      <3>6. QED
        BY <3>4, <3>5 DEF ToldId
    <2>3. CASE BeginUpdate(c)
      <3>1. NamesNear(toClient'[c], e) /\ NamesNear(clientReceived'[c], e)
        <4>1. ASSUME NEW k \in 0..Len(toClient[c]),
                     clientReceived' = [clientReceived EXCEPT ![c] = Take(toClient[c], k)],
                     ClientReceives(c, k)
              PROVE  NamesNear(toClient'[c], e) /\ NamesNear(clientReceived'[c], e)
          <5>1. clientReceived'[c] = Take(toClient[c], k) /\ toClient'[c] = Drop(toClient[c], k)
            BY <1>0, <4>1 DEF ClientReceives
          <5>2. NamesNear(toClient[c], e)
            BY <2>1 DEF ToldId
          <5>3. NamesNear(Take(toClient[c], k), e) /\ NamesNear(Drop(toClient[c], k), e)
            BY <1>0, <5>2, NamesNearParts
          <5>4. QED
            BY <5>1, <5>3
        <4>2. CASE clientReceived' = [clientReceived EXCEPT ![c] = <<>>] /\ UNCHANGED link
          <5>1. clientReceived'[c] = <<>> /\ toClient'[c] = toClient[c]
            BY <1>0, <4>2 DEF link
          <5>2. QED
            BY <2>1, <5>1 DEF ToldId, NamesNear
        <4>3. QED
          BY <2>3, <4>1, <4>2 DEF BeginUpdate
      <3>2. NamesNear(toClient[c], e)' /\ NamesNear(clientReceived[c], e)'
        BY <1>2, <3>1 DEF NamesNear
      <3>3. clientId' = clientId /\ (IsReady(c)' <=> IsReady(c))
        BY <1>0, <2>3 DEF BeginUpdate, IsReady
      <3>4. IsReady(c)' => Near(clientId[c], e)'
        BY <1>1, <2>1, <3>3 DEF ToldId, Near
      <3>5. QED
        BY <3>2, <3>4 DEF ToldId
    <2>4. QED
      BY <2>2, <2>3
  <1>4. QED
    BY <1>1, <1>3 DEF ToldAt

\* The steps of clients.
LEMMA ClientKeepsIds ==
  ASSUME \A b \in Conns : ToldAt(b), Typed, ConnInv, UNCHANGED serverVars, NEW c \in Conns,
         \/ ConnectTo(c) \/ (\E d \in Conns : ConnectAgain(c, d)) \/ ConnectAgainFails(c)
         \/ ClientTick(c) \/ Disconnect(c) \/ Exit(c),
         NEW b \in Conns
  PROVE  ToldAt(b)'
  <1>0. /\ clientPhase \in
             [Conns -> {"off", "idle", "app", "end", "disconnected", "left", "exited"}]
        /\ clientReceived \in [Conns -> Seq(Messages)] /\ toClient \in [Conns -> Seq(Messages)]
        /\ clientTags \in [Conns -> SUBSET Tags] /\ clientId \in [Conns -> 0..MaxClientId]
        /\ ToldAt(b)
    BY DEF Typed, LinkTyped, ClientTyped
  <1>1. CASE ConnectTo(c)
    <2>1. CASE b = c
      BY <1>1, <2>1, ConnectingTellsNothing DEF ConnectTo
    <2>2. CASE b # c
      BY <1>0, <1>1, <2>2, OthersKeepIds DEF ConnectTo, Connect, IsReady
    <2>3. QED
      BY <2>1, <2>2
  <1>2. ASSUME NEW d \in Conns, ConnectAgain(c, d) PROVE ToldAt(b)'
    <2>1. /\ clientPhase[d] = "off"
          /\ clientReceived' = [clientReceived EXCEPT ![c] = <<>>]
          /\ clientTags' = [clientTags EXCEPT ![c] = {}, ![d] = {"Connected"}]
          /\ clientId' = [clientId EXCEPT ![c] = 0, ![d] = clientId[c]]
          /\ UNCHANGED toClient
      BY <1>0, <1>2 DEF ConnectAgain, Connect, ConnInv, UnclaimedIsOff
    <2>2. CASE b = d
      BY <2>1, <2>2, ConnectingTellsNothing
    <2>3. CASE b # d
      <3>1. clientReceived'[b] = clientReceived[b] \/ clientReceived'[b] = <<>>
        BY <1>0, <2>1
      <3>2. IsReady(b)' => IsReady(b) /\ clientId'[b] = clientId[b]
        BY <1>0, <2>1, <2>3 DEF IsReady
      <3>3. QED
        BY <1>0, <2>1, <3>1, <3>2, OthersKeepIds
    <2>4. QED
      BY <2>2, <2>3
  <1>3. CASE ConnectAgainFails(c) \/ Disconnect(c) \/ Exit(c)
    <2>1. /\ clientReceived' = [clientReceived EXCEPT ![c] = <<>>]
          /\ clientTags' = [clientTags EXCEPT ![c] = {}]
          /\ \A a \in Conns \ {c} : clientId'[a] = clientId[a]
          /\ toClient'[b] = toClient[b] \/ toClient'[b] = <<>>
      BY <1>0, <1>3 DEF ConnectAgainFails, Disconnect, Exit, HasDestroyFunc, CloseClientEnds, link
    <2>2. clientReceived'[b] = clientReceived[b] \/ clientReceived'[b] = <<>>
      BY <1>0, <2>1
    <2>3. IsReady(b)' => IsReady(b) /\ clientId'[b] = clientId[b]
      BY <1>0, <2>1 DEF IsReady
    <2>4. QED
      BY <1>0, <2>1, <2>2, <2>3, OthersKeepIds
  <1>4. CASE BeginUpdate(c) \/ EndUpdateInitializes(c)
    <2>1. CASE b = c
      BY <1>0, <1>4, <2>1, ReadingKeepsIds
    <2>2. CASE b # c
      <3>1. /\ clientReceived'[b] = clientReceived[b] /\ toClient'[b] = toClient[b]
            /\ clientTags'[b] = clientTags[b] /\ clientId'[b] = clientId[b]
        <4>1. CASE BeginUpdate(c)
          BY <1>0, <2>2, <4>1 DEF BeginUpdate, ClientReceives, link
        <4>2. CASE EndUpdateInitializes(c)
          BY <1>0, <2>2, <4>2 DEF EndUpdateInitializes, link
        <4>3. QED
          BY <1>4, <4>1, <4>2
      <3>2. QED
        BY <1>0, <3>1, OthersKeepIds DEF IsReady
    <2>3. QED
      BY <2>1, <2>2
  <1>5. CASE BeginUpdateDisconnects(c) \/ Application(c) \/ EndUpdateSends(c)
    <2>1. UNCHANGED <<clientReceived, toClient, clientId>>
      BY <1>5 DEF BeginUpdateDisconnects, Application, EndUpdateSends, ClientSends, link
    <2>2. IsReady(b)' => IsReady(b)
      <3>1. CASE BeginUpdateDisconnects(c)
        BY <1>0, <3>1 DEF BeginUpdateDisconnects, LostTags, IsReady
      <3>2. CASE Application(c)
        BY <3>2 DEF Application, IsReady
      <3>3. CASE EndUpdateSends(c)
        <4>1. CASE UNCHANGED clientTags
          BY <4>1 DEF IsReady
        <4>2. CASE \E k : clientTags' = [clientTags EXCEPT ![c] =
                     IF k < Len(clientToSend[c]) THEN @ \cup {"PendingDisconnect"} ELSE @]
          BY <1>0, <4>2 DEF IsReady
        <4>3. QED
          BY <3>3, <4>1, <4>2 DEF EndUpdateSends
      <3>4. QED
        BY <1>5, <3>1, <3>2, <3>3
    <2>3. QED
      BY <1>0, <2>1, <2>2, OthersKeepIds
  <1>6. QED
    BY <1>1, <1>2, <1>3, <1>4, <1>5 DEF ClientTick

\* Every step keeps the ids.
LEMMA NextIdsInv ==
  IdsInv /\ SendsLinked /\ FullInv /\ NewsInv /\ [Next]_vars => IdsInv' /\ SendsLinked'
  <1> SUFFICES ASSUME IdsInv, SendsLinked, FullInv, NewsInv, [Next]_vars
               PROVE  IdsInv' /\ SendsLinked'
    OBVIOUS
  <1>0. Typed /\ ServerInv /\ ConnInv /\ AllSent
    BY DEF FullInv, SessionInv, NewsInv
  <1>1. FewAreNew' /\ SendsLinked'
    BY <1>0, NextFewAreNew, NextSendsLinked DEF IdsInv
  <1>2. \A b \in Conns : ToldAt(b)
    BY DEF IdsInv, ToldAt
  <1>3. CASE ServerStep
    BY <1>0, <1>1, <1>3, ServerKeepsIds DEF ServerStep
  <1>4. ASSUME UNCHANGED serverVars, \A b \in Conns : ToldAt(b)' PROVE IdsInv'
    <2>1. \A e : QueuedId(e)' <=> QueuedId(e)
      BY <1>4 DEF serverVars, ecs, registryVars, registry, QueuedId, GivenInTick, Near, Linked,
         With, Registry!GetClientId
    <2>2. UNCHANGED live /\ registered' = registered
      BY <1>4 DEF serverVars, ecs, registryVars, registry, registered
    <2>3. QED
      BY <1>1, <1>4, <2>1, <2>2 DEF IdsInv, ToldAt
  <1>5. ASSUME NEW c \in Conns, ClientStep(c) PROVE IdsInv'
    <2>1. \A b \in Conns : ToldAt(b)'
      BY <1>0, <1>2, <1>5, ClientKeepsIds DEF ClientStep
    <2>2. QED
      BY <1>4, <1>5, <2>1 DEF ClientStep
  <1>6. CASE UNCHANGED <<serverVars, clientVars, toClient>>
    <2>1. \A b \in Conns : ToldAt(b)'
      BY <1>2, <1>6, OthersKeepIds DEF clientVars, IsReady
    <2>2. QED
      BY <1>1, <1>4, <1>6, <2>1
  <1>7. ASSUME NEW c \in Conns, Breaks(c) PROVE IdsInv'
    BY <1>6, <1>7 DEF Breaks, Break
  <1>8. CASE UNCHANGED vars
    BY <1>6, <1>8 DEF vars, link
  <1>9. IdsInv'
    BY <1>3, <1>5, <1>7, <1>8 DEF Next, Finished
  <1>10. QED
    BY <1>1, <1>9

\* IdsInv holds in every session.
LEMMA SpecIdsInv == Spec => [](FullInv /\ IdsInv)
  <1>1. Init => SendsLinked
    BY DEF Init, ServerInit, SendsLinked
  <1>2. QED
    BY <1>1, SpecNewsInv, InitIdsInv, NextIdsInv, PTL DEF Spec

\* What IdsInv says of a client that is ready.
LEMMA InvIdsWithinTick == FullInv /\ IdsInv => IdsWithinTick
  <1> SUFFICES ASSUME FullInv, IdsInv, NEW c \in Conns, NEW e \in Peers(c), IsReady(c),
                      e \in Registry!Registered
               PROVE  Near(clientId[c], e)
    BY DEF IdsWithinTick, Near
  <1>1. e \in registered
    BY DEF FullInv, SessionInv, ServerInv, Facts!RegistryInv, Facts!TypeOK, Registry!Registered,
           registered
  <1>2. QED
    BY <1>1 DEF IdsInv, ToldId, Peers

\* A ready client believes in its own id or in that of a client that was accepted
\* after it in the same tick, whatever is sent, received or lost.
THEOREM SpecIdsWithinTick == Spec => []IdsWithinTick
  BY SpecIdsInv, InvIdsWithinTick, PTL
=============================================================================
