# Travelers-Netcode in TLA+

TLA+ specifications of the netcode library under `src/`, the TLC
configurations that model-check them, and TLAPS proofs. Line numbers below are
those of `src/`; `PROJECT.json` maps every definition to the lines it models.

Contents: 1 the system, 2 the modules, 3 the runs, 4 disagreements between the
code and what it says, 5 the proofs, 6 what is not modelled, 7 the plan.

## 1. The system

A server process and its client processes exchange messages over TCP. Each
process is one thread that runs a loop of ticks: `beginUpdate` receives, the
application acts, `endUpdate` sends. All state is in an ECS world: an entity
per connection, with tags that say where the connection is in its life.

| component | source | state | operations | who uses it |
|---|---|---|---|---|
| ClientEntityRegistry | `Server/src/clientEntityRegistry.cpp` | dense vector of (id, entity), two lookup tables | add, remove by id or entity, get both ways, clear | Server |
| Server spawn/despawn manager, NetworkIdManager | `Server/src/spawnDespawnManager.cpp`, `Engine/src/networkIdManager.cpp` | all spawns with their positions, the news of the tick; ids in use and next id | add spawn/despawn, clear the news, clear | Server, application |
| Server | `Server/src/server.cpp` | registry, spawns, next client id, lists of new and disconnected clients | start, stop, beginUpdate, endUpdate, sendTcpMessage, getTcpMessages, create/destroyNetworkEntity | application |
| connection systems | `Engine/src/{disconnect,pendingDisconnect,acceptConnection}System.cpp` | the tags of the entities | one `update` each, per tick | engine, in the order of `networkSystemRegistrar.cpp:13-25` |
| TCP message systems | `Engine/src/messageSystem.cpp`, `messageSerializer.cpp`, `messageFactory.cpp` | per connection: messages queued, serialized, offset of a partial send, receive buffer, received messages | send, receive | engine |
| snapshot systems | `Engine/src/snapshotSystem.cpp` | two merged snapshots of component data | send, receive | engine |
| serialization | `Engine/src/{fieldSerializer,serializable,messageFactory,networkComponentFactory}.cpp`, `message.hpp`, `networkComponent.hpp` | the fields registered for each type | serialize, create from bytes | message and snapshot systems |
| Client | `Client/src/client.cpp` | its connection, id, ready tag, queues of spawns and despawns | connectTo, disconnect, beginUpdate, endUpdate, sendTcpMessage | application |
| NetworkEngine | `Engine/src/networkEngine.cpp` | the self entity with the sockets, elapsed time and tick, ids of entities | start/stop listening, connect, stop, updateElapsedTime, begin and end a tick | Server, Client |
| TcpSocket, UdpSocket | `Core/src/{tcp,udp}Socket.cpp` | descriptor, port, mode, mutex | connect, bind, listen, accept, send, receive, close, set the mode | engine; nothing uses UdpSocket |
| the rest | `Core` utilities, test programs, ECS library | | | see section 6 |

How they interact in one tick of the server:

```
beginUpdate  DisconnectSystem          destroy entities reported last tick
             PendingDisconnectSystem   failed last tick -> Disconnected
             AcceptConnectionSystem    old connections are no longer new; accept
             ReceiveTcpMessageSystem   bytes -> messages, or PendingDisconnect
application  create/destroy entities, read and send messages
endUpdate    disconnectedClient        report, leave the registry
             setClientReady            ClientIsReadyMessage -> all spawns
             initializeNewClient       id, InitializeClientMessage
             sendNewSpawnDespawnMessage  the news to every ready client
             SendSnapshotSystem, SendTcpMessageSystem
```

A client answers `InitializeClientMessage` with `ClientIsReadyMessage`; from
then on it reads `SpawnDespawnMessage`s.

What is hard in it, and what makes each part correct:

* **ordering in a tick.** A connection fails, is reported, is removed from the
  registry and is destroyed by four functions over two ticks that meet only in
  the tags. Correct: nothing refers to a destroyed entity, the application
  hears of each client once and in order.
* **interleaving** of the server's tick with every client's, and of both with
  the network, which delivers any part of what was sent. Correct: both ends
  agree on who is ready and under which id, and a client's picture of the
  network entities is exact.
* **failure** of a connection between any two steps, the end of a process, a
  send to a peer that does not read, a server that stops and starts. Correct:
  loss is reported, and nothing of the old session shows in the new one.
* **table updates**: removal from the dense vectors moves their last element,
  so every removal changes the position of another entry.
* **byte streams**: partial sends, messages split or joined on the way; fields
  written and read by offsets that nothing checks.
* **a second session in the same object**: `Client` and `Server` live as long as
  their process, so what one session leaves is there in the next.
* **resources**: descriptors on every path of connect, bind, listen and accept
  that fails, WSA that several engines initialize, a mutex held in a system call.
* **time**: a tick that takes too long, one that was begun and not ended, a rate
  that is zero or not known yet.
* **progress**: the handshake ends, losses are reported, news arrives.

`PROJECT.json` lists these hazards at the lines where they bite, with the
properties that cover each.

## 2. The modules

Protocol, composed in `Session`:

| module | models | correspondence |
|---|---|---|
| `Maps` | `std::unordered_map` | functions on a finite domain, add and remove |
| `ClientEntityRegistry` | the class, and its use by Server | `entities` is `m_entities`, a sequence; C++ positions from 0 are kept in the two lookups, `+ 1` where the sequence is read; one action per call of Server |
| `ClientMap` | abstract: what a registry is, a one-to-one map of ids to entities | refined by `ClientEntityRegistry` |
| `SpawnDespawnManager` | the manager, and NetworkIdManager, which Server always changes with it | `spawns`, `newSpawns`, `newDespawns` are its vectors, `spawnLookup` its table; owner and tag of a spawn are payload and left out |
| `SharedWorld` | abstract: a set of entities, and those added and removed since the last tick | refined by `SpawnDespawnManager` |
| `Snapshots` | the network components of entities, the snapshot systems at both ends, and the application's calls; extends the manager | `componentIds` is the sorted `m_componentsId`, `components` what the ECS has, `snapshots` the two maps of `SnapshotComponent`, `stream` the snapshots between the two systems |
| `Link` | the operating system's sockets | accept queue, two streams and two ends of each connection |
| `Server` | `server.cpp` on the engine's systems | `phase` is the function or system that is running; a loop over the entities of a query is a step per entity, in any order |
| `Client` | `client.cpp` on the engine | connectTo, first and again, from any point of the tick without a connection; two receiving forms of `beginUpdate`, the application, two forms of `endUpdate`; `inherited` is history: the connections whose session began with news of an earlier one |
| `Session` | server, clients and network composed; properties and fairness | |
| `ClientLifecycle` | abstract: what Server promises of an id: unused, waiting, ready, gone | refined by `Session` |

Bytes, composed in `MessageExchange`:

| module | models | correspondence |
|---|---|---|
| `TcpFraming` | the two TCP message systems and the bytes between them, in one direction | one step per turn of their loops; `partialSends` counts for the bound `MaxPartialSends`, `trusted` is history: the last message whose bytes are all sent once and in order |
| `FieldSerializer` | `serializeField`/`deserializeField` of every kind of field, `serialize` and `createFromBytes` of an object | pure operators on sequences of bytes, recursive functions where the code has a loop; reading moves an offset, and behind the last byte there is no value. `IsValue` says which values a field has |
| `MessageExchange` | the objects of the messages of `TcpFraming`: every message of the two libraries, HelloWorld, snapshots with components, and a message with a string | `payloads` is what `serialize` makes, `received` what `deserialize` makes of it; `copies` how often each end registered the protocol's fields |
| `Channel` | abstract: a FIFO channel that may be lost | refined twice, by the numbers of the messages and by the objects themselves, up to the trusted message |

One process on its own:

| module | models | correspondence |
|---|---|---|
| `Sockets` | every method of TcpSocket and UdpSocket, as the set of its results | an object (`m_socket`, `m_port`, `m_isBlocking`) and the table of the process's descriptors; every system call may fail |
| `SocketThreads` | threads that share such objects | `holder` is `m_mutex`; a step is a whole call, up to a system call that blocks or the second lock of a mutex |
| `EngineHost` | a process with a Server and a Client that start, fail, stop and start again; extends `Sockets` | `wsa` counts WSAStartup, `left` are the descriptors whose component left the ECS world |
| `TickClock` | the time of a NetworkEngine and the loops of TestServer and TestClient | the members of the same names; `resetAt`, `ended` and `early` are history |

`MCSession`, `MCTcpFraming`, `MCMessageExchange` and `MCProcess` give TLC
symmetry, message lengths and objects; `MCProcess` puts the registry, the clock,
the engines and the threads into one run: they share no variable, and one of
them takes steps in each behaviour. `ClientEntityRegistryProofs`,
`SpawnDespawnManagerProofs`, `SessionProofs`, `SnapshotsProofs`,
`MessageExchangeProofs` (byte stream and serializer), `SocketsProofs` and
`NetworkEngineProofs` (clock and engines) hold the proofs, `Induction` three
lemmas they share.

Where detail is abstracted, and why nothing is lost:

* **Streams of whole messages.** `Session` sends messages, not bytes. That is
  what `TcpFraming` is shown to provide (`ImplementsChannel`): in order, once,
  until the connection is lost. It does so up to the trusted message, which is
  the first that is sent in part, or, if that is sent in part again, the one
  before it; what happens to those after it is section 4. While no send is
  partial every message is trusted. A receive returns any prefix of what is on
  its way.
* **The shared message object.** `m_clientId` of an `InitializeClientMessage`
  in a queue is not part of the queue: the queue holds pointers to one object,
  `initMessage`, and `SendTcpMessageSystem` writes the id it holds *then*.
* **Destructors.** The ECS registers a destroy function for a component only
  if its type is not destructible (`extLibs/header/TRA/ecs/componentLibrary.hpp:42`);
  `HasDestroyFunc` says so, and with it no step that destroys an entity closes
  its socket.
* **Bounds.** `MaxClientId`, `MaxNetworkId` and `MaxStarts` bound counters in
  the guards of `InitializeNewClient`, `CreateNetworkEntity` and `Start`.
  `Capacity` bounds a stream: a send beyond it fails, as a non-blocking send
  does. `MaxPartialSends` bounds how often a `send()` takes a part.
* **Failures** names what may go wrong in a run: `accept` (a connection cannot
  be taken), `break` (a connection breaks), `disconnect` (`Client::disconnect`),
  `exit` (a client process ends) and `stop` (`Server::stop`).
* **Failures** also has `reconnect`: a process that lost or gave up its
  connection calls `Client::connectTo` again. It may do so at any point of its
  tick, since `connectTo` asks only whether it is connected. The new connection
  is another element of `Conns`, and takes over what belongs to the Client
  object as it is, its id and the queues of its SpawnDespawnManager included.
  `disconnect` clears those queues, `connectTo` does not.
* **Traffic** names the messages beyond the protocol: `app`, those of the
  applications, and `snapshot`, which the code sends in every tick. Only
  `ReceiveSnapshotSystem` reads a snapshot, so without them the other messages
  come in the same order, and streams fill later.
* **Numbers** in `FieldSerializer` have digits of any base and any width:
  `MessageExchange` is checked with digits 0 to 7, one byte for every type but
  `size_t`, which has two, as on a 64-bit build it has twice a `uint32_t`.
  `Outside` is what `memcpy` takes from behind the end: no value at all, so
  that nothing compares equal to it by accident.
* **Time** in `TickClock` is whole: a tick of every rate takes a whole number
  of units, and the rounding of `float` is left out. A client's inner loop does
  not end before it knows the rate; `MaxEarly` bounds it.
* **System calls** may fail whenever the code handles a failure. Which error it
  was is left out unless the code asks (would block, connection closed).
  `MaxAddresses` bounds what `getaddrinfo` finds, `MaxWsa` the starts.
* **Watched.** `Snapshots` follows the components of one entity; those of
  others are merged, sent and sorted independently. Values are the tick they
  were sent in, the last of which stands for all later ones (`MaxTicks`).
  `Capacity` is three, so that a tick can receive a snapshot it drops.
* **Interleaving.** With `TRUE` clients and server step in any order. With
  `FALSE` clients take their tick whole, and only before the server's tick or
  in `broadcast`, between its receive and its send. The server touches a
  connection when it accepts, receives and sends, so its other steps commute
  with those of clients; a client touches its own connection only, when it
  receives and when it sends. A step of a client elsewhere can therefore be
  moved to one of the two places. `SessionLiveness` has all interleavings, and
  the theorems of section 5 hold for them; a violation found with `FALSE` is a
  behaviour either way.

Deadlock is checked in every run. Where a behaviour can end, a `Finished`
disjunct names exactly the states it may end in: the server stopped for the
last time, no client running; both ends of a connection over. Any other stop
is an error.

## 3. The runs

Each run takes less than three minutes. "States" are distinct states.

| run | module | states | what it shows |
|---|---|---|---|
| `Process` | `MCProcess` | 1 632 000 | Registry, 4 entities and 5 ids: both tables agree with the vector after any adds, removals and restarts (`RegistryInv`, of which `LookupsAgree` and `EachClientListedOnce` are consequences), and it is a `ClientMap`. Clock, rates 0, 2, 3 and not yet known: no time is lost, ticks are paired, the loop catches up. Engines, 3 descriptors: WSA covers every engine, every descriptor is accounted for, none an engine uses blocks, a stopped server does not listen. Threads, 2 of them, 3 sockets: no descriptor is leaked or closed twice, a `UdpSocket` reports the port it is bound to (a `TcpSocket` reports 0, whatever it is bound to), and only a `listenSocket` that fails or a blocking descriptor keeps a mutex |
| `Snapshots` | itself | 892 000 | 3 network ids, 2 component types: spawn tables agree, the news of a tick is exactly the difference to the last tick, and the manager is a `SharedWorld`; ids of components are those the ECS has and stay sorted, so that the binary search finds them; what a client shows is one snapshot, goes back to an older value only for a component the server does not have any more, and under fairness comes to be the latest of all that stays, however many snapshots a tick receives |
| `MessageExchange` | `MCMessageExchange` | 246 000 | 3 exchanges of 3 messages, 7 objects among them, also an empty string and an empty vector, each end registering the protocol once or twice, the second and the third message sent in parts, 2 partial sends at most, bytes cut anywhere by the receiver, sends that fail: every byte stays in its place until a send is partial; up to the trusted message the two systems are a `Channel` of messages, the two applications a `Channel` of objects, and each message arrives unless the connection fails; reading the fields of a message stays inside its payload unless the reader registered more than the writer, and of a message with a string the fields before the string are read as they were sent |
| `SessionLifecycle` | `MCSession` | 1 104 000 | 2 clients that may be accepted in one tick, an entity that comes and goes, 2 starts, connections that cannot be taken or are given up, processes that end: no destroyed entity in the registry, reports never contradict each other, Server uses the registry and the spawn manager as their specifications assume, and is a `ClientLifecycle`; a client takes itself for itself or for one accepted with it, and a ready client's picture is exact |
| `SessionReconnect` | `MCSession` | 4 583 000 | 1 process that connects twice, at any point of its tick, 2 connections that may be accepted in one tick, application messages, streams that fill, a server that restarts: the server holds a client ready only if it is; a session has news of the last only when the Client connected again before its application could take them; without such news the picture of the second session is exact |
| `SessionLiveness` | `Session` | 137 000 | 1 client, 1 entity, a snapshot in every tick, all failures but `accept`, all interleavings, under `FairSpec`: nothing comes before `InitializeClientMessage`, the handshake ends, a loss is reported, the picture follows the entities |

The bounds: two clients are the fewest that can share a tick, a message object
or a table; three add permutations only, and the registry, where positions move,
is checked on its own with four. One network entity is enough for a client to
miss, repeat or keep one, and `Snapshots` covers how several move: with three,
a table can still be wrong after a removal that looked right, with two not.
Two starts, and two connections of one process, show what a first leaves to a
second. A stream of one or two messages fills when its reader stops reading,
which makes a send fail. The clock runs for seven units with ticks of two and
three: ticks on time, late, several due at once and a remainder. Three
descriptors and two addresses let a socket fail on the first address, succeed on
the second and have a third taken by another; two threads are what a mutex
needs. Of three messages the second can be sent in three parts, which is one too
many, in two with the third behind it, or with the third in parts as well; that
nothing depends on which message it is, and how often, is proved.

**Fairness** (`Session!Fairness`). The server's thread and each client process
keep running their loops: weak fairness of a tick's steps, though not of what
applications and failures choose to do. What was sent, and the end of a stream,
arrive some day: strong fairness of a receive that takes everything and of one
that finds the end, because a tick offers them only while it is at its receive.
Neither is fairness of the operating system beyond TCP's own promise. In
`TcpFraming` (and with it `MessageExchange`) and `Snapshots`: both loops are run
again and again, and what was sent arrives, in any pieces. The liveness
properties except `Lost`: after a break, a stop or an exit nothing is
promised but that it is reported (`LossIsReported`).

Every property of a passing run has a mutant in `PROJECT.json`: a definition
replaced as a plausible mistake in the code would change it, which the run must
then find.

## 4. Where code and documentation disagree

Each run checks one property a comment, log message or test states, and TLC
finds it violated. The quotes are in `PROJECT.json` under `findings`.

| run | property | what happens |
|---|---|---|
| `SharedInitialize` | `IdsAgree` | Two connections accepted in one tick are sent one message object; both are told the id of the second. (`IdsWithinTick` says how far the ids can be apart.) |
| `LeftoverNews` | `FreshSession` | A client whose last send failed reads the messages of the tick before once more. When it connects again before its application took those news, the new session begins with entities of the old one. (`NewsAreTaken` says that this is the only way it can.) |
| `JoinRace` | `NewsFit` | A client that becomes ready in the tick of a spawn is told of it twice; in the tick of a despawn, it is told to despawn what it never knew. (`ReplicaExact` holds nevertheless: as a set the picture is right.) |
| `EarlyMessage` | `AppMessagesReadable` | An application message that arrives with `ClientIsReadyMessage` is refused to the application in that tick and cleared in the next. |
| `SocketLeak` | `SocketsAreOwned` | The socket of a client that disconnects, and of a connection the server gives up, is not closed; the other end is not told. |
| `PartialSend` | `DeliveredInOrder` | The offset of a partial send is overwritten instead of increased, and never reset: bytes repeat, or the next message starts in its middle; what the receiver then reads is a message that was never sent, or an exception nobody catches. |

## 5. The proofs

Checked by TLAPS with no assumption but the `ASSUME`s of the modules and what
the parameters are. They hold for any set of entities and any bound on ids.

**`ClientEntityRegistryProofs`**: `Spec => []TypeOK`, `[]RegistryInv`,
`[]LookupsAgree`, `[]EachClientListedOnce`, and that the registry implements
`ClientMap`. The properties are not inductive. Removal looks up the entry it
moves through the *other* table and compares a position in the vector with that
table's size; that this does what it should needs all of `RegistryInv` at once:
position, client and entity lead to each other in every direction, the table of
ids is as long as the vector, and ids are below `nextClientId`, which makes the
next id new. Each operation is a lemma; the one of removal splits on whether
the removed entry is the last one.

**`SpawnDespawnManagerProofs`**: `Spec => []TypeOK`, `[]TablesAgree`,
`[]DeltaIsExact`, and that it implements `SharedWorld`. `SpawnInv` adds that
ids are below `nextNetworkId` whether they are in use or announced as destroyed,
so that none comes back in the tick it was destroyed, that no id is both in use
and announced as destroyed, and that what is announced as new is one or the
other: without it the difference announced in a tick could resurrect an entity
that was created and destroyed in it.

`UsesRegistry` and `UsesSpawnManager` check that `Session` drives the two
components only by the actions these theorems are about, so that what is proved
there holds of the server.

**`SessionProofs`**: for any number of connections, clients, ids and network
entities, whatever fails, and whoever takes a step next:

* `RegisteredAreLive`, and that every behaviour of the composed system is one of
  the registry and one of the spawn manager (`UsesRegistry`, `UsesSpawnManager`),
  so that what is proved of the two components holds of the server;
* `TypeOK`, `InitializedFirst`, `ReadyAgreement`, `NewsAreTaken`,
  `NeverNewAndGone` and `ReplicaExact`;
* `IdsWithinTick`, for any number of connections a server accepts in a tick;
* that the server implements `ClientLifecycle` (`ImplementsLifecycle`).

Hardly a step checks any of it. Server registers an entity without asking whether
it is registered already, a client takes any message whenever it comes, and the
broadcast goes to clients that were told of everything in the same tick. What
keeps them right is the order of the phases and what is still on its way; the
proof is twelve invariants that say so, each resting on those before:

| invariant | what it says | without it |
|---|---|---|
| `ServerInv` | `RegistryInv`; registered entities are live; one of them is `Disconnected` only from `PendingDisconnectSystem` to its report; what `initializeNewClient` has still to visit is new and not registered | an entity is registered twice |
| `SpawnInv` | that of `SpawnDespawnManagerProofs`, carried over by `UsesSpawnManager` | an id comes back |
| `Typed` | types, and that an entity has a connection exactly while it lives | |
| `TagInv` | which tags exclude each other, what the entities of each loop have, and that only a connection made in this tick is not registered | a client is initialized twice |
| `ConnInv` | a connection was accepted at most once and has at most one entity | two entities share a stream |
| `QuietInv` | nothing was sent to or by a client before its entity is initialized | a client hears something before its id |
| `HandshakeInv` | a client that waits has heard, with what is on its way and what is queued, either nothing or an `InitializeClientMessage` and no other before it; one that is ready hears none again | it starts twice, or late |
| `QueuesTaken` | a client whose session did not begin with news of another has news in its queues only while its application runs, or after a connect that failed | sessions inherit news in more ways |
| `AnswerInv` | a `ClientIsReadyMessage` the server has read is handled before the next receive clears it; an entity is registered from initialization to report | an answer is lost |
| `ListsInv` | the two lists for the application name nobody twice; who is in the one has left the registry, who is in the other is ready | a client comes and goes in one tick |
| `NewsInv` | see below | |
| `IdsInv` | at most `MaxAccepted` entities are new, or wait to be initialized; as long as an `InitializeClientMessage` is queued the shared message holds the id of its entity or one given after it in the same tick, and whatever is on its way, received or believed is such an id | a client is told the id of another tick |

`ReplicaExact` speaks of the moment between two ticks of the server; `NewsInv` says
what it comes from, at any moment. What a ready client will know when it has
handled its queues, what is on its way and what is queued for it, is `Announced`:
the entities as they were at the last broadcast. Until the broadcast of this
tick, a client that became ready in the tick may have all entities instead, the
new ones among them, which is why it is told of those twice (`NewsFit`, section
4). That telling twice, or despawning what a client never knew, does no harm is the rest of it:
what was despawned is neither there nor announced and never comes back
(`Forgotten`), so that no spawn in any queue follows a despawn of the same
entity (`InOrder`); and a client that has not yet received again knows what its
last messages spawned (`Handled`), so that reading them again adds nothing. A
client that is not ready knows nothing and was sent nothing (`Uninformed`). All of
it is said while the connection works and both ends are up (`Intact`): a client
that is lost keeps the picture it has. Nor is it said of a session that began
with news of another one: its picture is wrong (`LeftoverNews`, section 4).

There is a lemma for each group of steps that leaves an invariant's variables
alone, and one for each step that does not. The registry's and the manager's own
lemmas are used through an `INSTANCE`. For the refinement, the state of an id in
`ClientLifecycle` is computed from the registry, the tags and `nextClientId`, and
each step of a session is a step of it or none (`NextLifecycle`).

**`SnapshotsProofs`**: `CurrentIsShown`, `OnlyTheGoneGoBack` and `IdsMatchComponents`, for any number of
entities, components and ticks. `ShownInv` says
that the snapshots on their way are in the order of their ticks and not later
than the server, that nothing in either of the client's two snapshots is later
than what is still on its way, and that what the snapshot shown last holds is
read with the values of its tick. `SnapshotsUseManager` lifts the manager's theorems to this module.
`IdsMatchComponents` is inductive with its types; what has to be shown is that the
library calls keep it. `LowerBound` halves as `std::lower_bound` does: in sorted ids
every half left out lies on the other side of the place that is looked for, so
that the search ends there. That such a function exists at all is part of the
proof, since a recursive definition only chooses one; the place itself is one, and
induction over the length of what is left (`SmallestNumber`) shows it is the only
one. `Sorted` is any order of the ids in which none is less than one before it, which
is what `std::sort` promises; of ids that differ there is one, and the pushed id is
where `LowerBound` would look for it.

**`MessageExchangeProofs`**, the byte stream: `StreamInv` for any header size, any
sizes of messages and any pieces in which the bytes arrive, and, whichever
messages are sent in part and how often, that the two systems are a `Channel`
(`ImplementsChannel`). A channel ends with the trusted message, as if the
connection were lost there: `PartialSend` shows that nothing can be promised of
the messages after it. That the first bytes of the buffer are a whole message
follows from "each byte follows the one before" only by induction over the bytes.
`Whole` says it for each byte outright: the rest of its message is in the stream.
Sending appends a message to such a stream (`AppendMessage`), decoding drops one
(`DropMessage`), and what arrives only moves from the wire to the buffer.

After a partial send the stream as a whole is not in its place any more.
`FramingInv` says what is left of it. What waits to be sent are the last messages
that were queued, in their order (`WaitsInOrder`); the trusted message is past, or
it is the first of these and its beginning is on its way (`TrustedIsSent`); and the
stream begins with the rest of the trusted messages, whole, or, as long as the
last of them is still to be continued, with the bytes of it that were sent
(`RightStream`). Whatever bytes follow, the receiver decodes that beginning as it
would without them.

The serializer: `ReadsStayInside`, `FieldsBeforeStringAreRead`, and that the objects
of the two applications go through a `Channel` up to the trusted message
(`ImplementsObjectChannel`), again whatever is sent in part. They hold for any number of values of a byte, any
bytes of the types of numbers (a `uint32_t` has no more than a `size_t`), any ids
of the types and any objects: messages whose fields have values of their types,
and snapshots of any entities with any components. What has to be assumed of the
objects is what a program cannot violate, that a number fits its type, that a
`size_t` can count the elements of a vector and the bytes of a snapshot, and a
`uint32_t` the bytes of a component (`IsValue`, `IsComponent`, `IsSnapshot`).
`ReadsStayInside` is about the fields of a message in its payload; the components
inside of a snapshot are covered by `ImplementsObjectChannel`, which says that
they are read as they were written.

The argument goes up one layer at a time, each with the same lemma: *what the data
holds at an offset is read there, and the offset moves to its end*
(`NumberIsRead`, `ElementIsRead`, `FieldIsRead`, `FieldsAreRead`, `ObjectIsRead`,
`ComponentIsRead`, `EntityIsRead`, `SnapshotIsRead`). Between the layers
`Flattened` says where the parts of a sequence of sequences are. A number is what
is left of it after each byte (`Left`), read back from the last byte to the first.
An object that was registered twice is written and read as twice its fields, of
which the last count; one that was registered twice by the sender only is read
from its first half. A string is read with the low bytes of its length, and a
number is never less than its low bytes (`TextIsInside`): that is why even a
misread string does not leave the payload. The loops over entities and components
turn as often as what they read says, and the snapshot's ends when no byte is
left, after as many turns as entities were shown.

`ExchangeInv` joins this with the byte stream: each payload is the bytes of its
object, and what was received is what the payloads delivered read as. `FramingInv`
says which payload that is up to the trusted message: the next that was sent
(`StepInNumbers`). So each step of the byte stream's `Channel` is one of the
objects' (`StepOfObjectChannel`).

**`SocketsProofs`**: one lemma for each method of TcpSocket and UdpSocket, on what
any of its results does to the object and to the descriptors; from them
`OneOwner`, `PortsReported` and `OnlyTheseHang` of `SocketThreads`, for any
threads, sockets, descriptors and addresses. `ThreadsInv` adds what the
properties leave out: who holds a mutex is in a call on that socket, and a call
that blocks in the system does so on a descriptor of its own. The loop of
`connectTo` over the addresses is a recursive function; `AfterFailed` shows by
induction over the addresses left that every one that failed closed its
descriptor.

**`NetworkEngineProofs`**: of the clock `TimeIsAccounted`, `TicksArePaired` and
`CaughtUp` from `ClockInv`, for all rates and times; `CaughtUp` is the division
theorem: what is left over is less than a tick. Of the engines
`WsaCoversEngines`, because a cleanup happens only where an engine ends, and,
from the methods' lemmas, `DescriptorsAccounted`, `EnginesNeverBlock` and
`StoppedIsSilent`. `HostInv` says for each engine which of its sockets exist in
which state, that all of them have descriptors of their own, and that the
descriptor that listens is the one of a server that is started.

**`Induction`**: a set of numbers that holds 0, and with each number below a bound
the next, holds all up to the bound. Stated of a set it needs no operator as a
parameter, which no prover here can instantiate. With it, a function defined by
recursion over the numbers exists and has the values its definition gives
(`Recursion`): the folds of the serializer rest on it.

Every invariant was checked with TLC before it was proved, on the instances of
the runs above; where a run checks only what follows from it, the run says less
than the theorem.

Model-checked only:

* Liveness: `EventuallyReady`, `LossIsReported`, `ReplicaFollows` and those of
  `Snapshots` and `TcpFraming`. Fairness and ENABLED are out of the prover's reach.

A string, and what follows it, is read with half of the bytes of its length, and
mostly misread. The model reads it as the code does, but no property says what
comes out: for some strings, an empty one among them, it is what was sent.

## 6. What is not modelled

* **The ECS library** (`extLibs`) is third-party: headers of templates over a
  binary that is not in the repository. Entities, tags and components are sets
  and functions, queries visit entities in any order, and the one thing its
  header shows that matters, when a component is destroyed, is `HasDestroyFunc`.
* **The UDP code of NetworkEngine** is commented out; UdpSocket itself is in
  `Sockets` and `SocketThreads`, without the contents of datagrams.
* **`float`**: the rounding of elapsed times. `TickClock` counts whole units;
  the drift that repeated subtraction of `1.f / rate` causes is below it.
* **Hashes of type names** are any ids, different for each type: the two hash
  functions are not modelled, and neither is a collision.
* **Core utilities**: `isValidPort` compares a `uint16_t` with 65535 and is
  always true; the address check is one of the ways a connect fails at once;
  `networkInclude.hpp` gives names to what differs between systems.
* **`isBlocking`, `isConnected`, `createSockAddr`** of the sockets: nothing
  calls them and they change nothing.
* **Getters, logging, profiling, build files**: no state of the protocol.
* **Test programs**: what they print. The order of their calls is that of
  `Server`, `Client` and `TickClock`, their declarations are in
  `MessageExchange`.

## 7. The plan

The order was that of importance: what the protocol promises first, the parts
it rests on next, the edges last.

1. *Done*: registry, spawn manager, link, server, client, session; lifecycle
   and the abstract specifications; byte stream; snapshots; the proofs of the
   registry and the spawn manager.
2. *Done*: sockets and threads, engine start and stop, the tick clock, a client
   that connects again, the field serializer and messages as objects; the
   proofs of the clock, the engines, the snapshots, the byte stream and of how
   the server uses its components.
3. *Done*: the proofs of the sockets and threads; of `Session`, all safety
   properties that hold in it and the refinement of `ClientLifecycle`.
   The sort and the search of `Snapshots`.
4. *Done*: the proofs of the serializer, and that objects go through a channel,
   also when messages are sent in part; a client that connects again before it
   took its news.
