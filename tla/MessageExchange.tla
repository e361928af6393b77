-------------------------- MODULE MessageExchange --------------------------
(***************************************************************************)
(* Message objects from one application to the other: FieldSerializer      *)
(* turns them into the payloads that TcpFraming sends and receives.        *)
(*                                                                         *)
(* The fields of a message type are registered when a library or program   *)
(* that declares the type is loaded.  The server's and the client's        *)
(* library both declare the messages of the protocol.  Where each library  *)
(* has its own copy of an inline variable, as on Windows, a process that   *)
(* loads both registers the fields of these messages twice.                *)
(***************************************************************************)
EXTENDS TcpFraming, FieldSerializer

CONSTANTS
  Objects,    \* message objects; the values of a SnapshotMessage are the
              \* entities with their network components
  Exchanges,  \* what an application may send: an object for each message
  TypeIds,    \* hashTypeName of the types
  Copies      \* how often the sender and the receiver register the protocol

Uint32 == Element(Number("uint32_t"))

\* An int and a float have the bytes of a uint32_t.
Fields ==
  [InitializeClientMessage |-> <<Uint32, Uint32>>,
   ClientIsReadyMessage    |-> <<>>,
   SpawnDespawnMessage     |-> <<Vector(Spawn), Vector(Despawn)>>,
   SnapshotMessage         |-> <<Vector(Number("uint8_t"))>>,
   HelloWorld              |-> <<Vector(Number("uint32_t"))>>,
   TestNetworkComponent    |-> <<Uint32, Uint32>>,
   Text                    |-> <<Uint32, String, Uint32>>]

Types == DOMAIN Fields

\* The messages both libraries declare.  Text is any message of an application
\* that has a string.
ProtocolTypes == {"InitializeClientMessage", "ClientIsReadyMessage", "SpawnDespawnMessage"}

VARIABLES
  objects,   \* the objects the application sends, in order
  copies,    \* how often either end registered the protocol
  payloads,  \* the objects as bytes
  received   \* the objects made of the messages that were delivered

exchangeVars == <<vars, objects, copies, payloads, received>>

Repeat(s, n) == IF n = 1 THEN s ELSE s \o s

\* registerSerializer, registerDeserializer: one entry for a field each time.
Registered(type, n) == IF type \in ProtocolTypes THEN Repeat(Fields[type], n) ELSE Fields[type]

\* MessageFactory::serialize
Serialize(o, n) ==
  ObjectBytes(TypeIds[o.type], Registered(o.type, n),
              Repeat(o.values, IF o.type \in ProtocolTypes THEN n ELSE 1))

\* The types whose id comes first: one, or none.
TypesAt(data) == {t \in Types : TypeIds[t] = NumberAt("uint32_t", data, 0)}
TypeAt(data) == CHOOSE t \in TypesAt(data) : TRUE

\* What an unknown id gives: an exception.
NoObject == [type |-> "none", values |-> <<>>]

\* Where the reading of all fields ends.
ReadEnd(data, n) == ObjectAt(Registered(TypeAt(data), n), data).offset

\* MessageFactory::deserialize: a field that is registered twice is read twice
\* and keeps the value read last.
Deserialize(data, n) ==
  LET type   == TypeAt(data)
      values == ObjectAt(Registered(type, n), data).values
  IN IF TypesAt(data) = {} THEN NoObject
     ELSE [type   |-> type,
           values |-> SubSeq(values, Len(values) - Len(Fields[type]) + 1, Len(values))]

-----------------------------------------------------------------------------
(* A snapshot: m_data of a SnapshotMessage has, for each entity with       *)
(* components, its network id and the number of components, then each      *)
(* component with a header of its own.                                     *)

\* serializeForNetwork.
Framed(payload) == NumberBytes("uint32_t", Len(payload)) \o payload

EntityBytes(entity) ==
  NumberBytes("uint32_t", entity.id)
    \o NumberBytes("size_t", Len(entity.components))
    \o FlattenSeq([i \in DOMAIN entity.components |->
                     Framed(Serialize(entity.components[i], 1))])

\* The entities that have components: only they are in a snapshot.
Shown(world) ==
  LET shown[i \in 0..Len(world)] ==
        IF i = 0 THEN <<>>
        ELSE IF world[i].components = <<>> THEN shown[i - 1]
        ELSE Append(shown[i - 1], world[i])
  IN shown[Len(world)]

SnapshotData(world) ==
  FlattenSeq([i \in DOMAIN Shown(world) |-> EntityBytes(Shown(world)[i])])

\* The loop over the components of an entity: it ends early when the bytes of
\* a component are not there.
ReadComponent(read) ==
  LET payload == NumberAt("uint32_t", read.left, 0)
      end     == HeaderSize + payload
  IN IF payload = Outside \/ end > Len(read.left) THEN read
     ELSE [components |-> Append(read.components,
                            Deserialize(SubSeq(read.left, HeaderSize + 1, end), 1)),
           left |-> SubSeq(read.left, end + 1, Len(read.left))]

\* One turn of the loop over the entities: m_firstSnapshot and m_secondSnapshot
\* get the components under the network id.
ReadEntity(read) ==
  LET id    == NumberAt("uint32_t", read.left, 0)
      count == NumberAt("size_t", read.left, Sizeof["uint32_t"])
      rest  == SubSeq(read.left, Sizeof["uint32_t"] + Sizeof["size_t"] + 1, Len(read.left))
      turn[i \in 0..count] ==
        IF i = 0 THEN [components |-> <<>>, left |-> rest] ELSE ReadComponent(turn[i - 1])
      end   == turn[count]
  IN IF read.left = <<>> THEN read
     ELSE IF count = Outside THEN [world |-> Append(read.world, Outside), left |-> <<>>]
     ELSE [world |-> Append(read.world, [id |-> id, components |-> end.components]),
           left  |-> end.left]

\* A turn takes at least one byte: the loop turns at most once for each.
ReadSnapshot(data) ==
  LET turn[i \in 0..Len(data)] ==
        IF i = 0 THEN [world |-> <<>>, left |-> data] ELSE ReadEntity(turn[i - 1])
  IN turn[Len(data)].world

\* The bytes of an object; SendSnapshotSystem makes m_data of the entities, ...
Written(o, n) ==
  IF o.type = "SnapshotMessage"
  THEN LET data == SnapshotData(o.values)
       IN Serialize([o EXCEPT !.values = <<[i \in DOMAIN data |-> <<data[i]>>]>>], n)
  ELSE Serialize(o, n)

\* ... and ReceiveSnapshotSystem entities of m_data.
Read(data, n) ==
  LET o == Deserialize(data, n)
  IN IF o.type = "SnapshotMessage" /\ ReadEnd(data, n) <= Len(data)
     THEN [o EXCEPT !.values = ReadSnapshot([i \in DOMAIN @[1] |-> @[1][i][1]])]
     ELSE o

-----------------------------------------------------------------------------
\* The objects of a program: each field has a value of its type, and the bytes
\* of a component and of a snapshot can be counted.
IsSeq(s) == s \in Seq({s[i] : i \in DOMAIN s})

HasFields(o) ==
  /\ o = [type |-> o.type, values |-> o.values] /\ o.type \in Types
  /\ IsSeq(o.values) /\ Len(o.values) = Len(Fields[o.type])
  /\ \A i \in DOMAIN o.values : IsValue(Fields[o.type][i], o.values[i])

IsComponent(c) ==
  c.type = "TestNetworkComponent" /\ HasFields(c) /\ Fits("uint32_t", Len(Serialize(c, 1)))

IsEntity(e) ==
  /\ e = [id |-> e.id, components |-> e.components]
  /\ Fits("uint32_t", e.id)
  /\ IsSeq(e.components) /\ Fits("size_t", Len(e.components))
  /\ \A i \in DOMAIN e.components : IsComponent(e.components[i])

IsSnapshot(o) ==
  /\ o = [type |-> "SnapshotMessage", values |-> o.values]
  /\ IsSeq(o.values) /\ Fits("size_t", Len(SnapshotData(o.values)))
  /\ \A i \in DOMAIN o.values : IsEntity(o.values[i])

ASSUME ExchangeAssumption ==
  /\ HeaderSize = Sizeof["uint32_t"]
  /\ TypeIds \in [Types -> Nat]
  /\ \A t \in Types : Fits("uint32_t", TypeIds[t])
  /\ \A s, t \in Types : TypeIds[s] = TypeIds[t] => s = t
  /\ \A o \in Objects : IsSnapshot(o) \/ (o.type # "SnapshotMessage" /\ HasFields(o))
  /\ Exchanges \subseteq [Messages -> Objects]
  /\ Copies \subseteq [sender : {1, 2}, receiver : {1, 2}]

-----------------------------------------------------------------------------
ExchangeInit ==
  /\ copies \in Copies
  /\ objects \in Exchanges
  /\ payloads = [m \in Messages |-> Written(objects[m], copies.sender)]
  /\ received = <<>>
  /\ size = [m \in Messages |-> HeaderSize + Len(payloads[m])]
  /\ Init

\* A message is turned into an object when it is delivered.
ExchangeNext ==
  /\ Next
  /\ received' = IF delivered' = delivered THEN received
                 ELSE Append(received,
                        IF Last(delivered') = Garbage THEN NoObject
                        ELSE Read(payloads[Last(delivered')], copies.receiver))
  /\ UNCHANGED <<objects, copies, payloads>>

ExchangeSpec == ExchangeInit /\ [][ExchangeNext]_exchangeVars

\* With the fairness of the two systems.
ExchangeFairSpec == ExchangeSpec /\ Fairness

-----------------------------------------------------------------------------
HasString(o) == \E i \in DOMAIN Fields[o.type] : Fields[o.type][i].kind = "string"

\* What the two ends have in common: no string, and no field that the receiver
\* registered more often than the sender.
Understood(o) ==
  /\ ~HasString(o)
  /\ o.type \in ProtocolTypes /\ Fields[o.type] # <<>> => copies.receiver <= copies.sender

\* An object as it can be seen from both ends: of one that is not understood
\* only the type, of a snapshot only the entities that have components.
Seen(o, understood) ==
  IF ~understood THEN [o EXCEPT !.values = <<>>]
  ELSE IF o.type = "SnapshotMessage"
       THEN [o EXCEPT !.values = Shown(@)]
       ELSE o

ObjectChannel == INSTANCE Channel WITH
  Messages  <- {Seen(o, understood) : o \in Objects, understood \in BOOLEAN},
  sent      <- [m \in 1..(nextMessage - 1) |-> Seen(objects[m], Understood(objects[m]))],
  delivered <- [i \in Arrived |->
                  Seen(received[i], Understood(objects[delivered[i]]))],
  lost      <- receiver = "failed" \/ Len(delivered) > trusted

\* From one application to the other the objects themselves go through a
\* channel: what sendTcpMessage took on one end is what getTcpMessages gives on
\* the other, field by field, and what a client reads of a snapshot is what the
\* server had, component by component; whatever pieces the bytes arrive in, and
\* also when a process registered fields twice, as long as the reader did not
\* do so more often than the writer.  As in ImplementsChannel it ends with the
\* trusted message.
ImplementsObjectChannel == ObjectChannel!Spec

\* Reading a payload stays inside of it: deserializeField checks no bounds, and
\* memcpy would read what follows the vector.  Only a reader that registered
\* fields more often than the writer leaves it.
ReadsStayInside ==
  \A i \in DOMAIN received :
    copies.receiver <= copies.sender /\ received[i] # NoObject =>
      ReadEnd(payloads[delivered[i]], copies.receiver) <= Len(payloads[delivered[i]])

\* A string is read with half of the bytes of its length.  Whatever string it
\* is, the fields before it are read as they were sent.
FieldsBeforeString ==
  \A i \in DOMAIN received :
    LET o == objects[delivered[i]] IN
      received[i] # NoObject => \A k \in DOMAIN o.values :
        HasString(o) /\ (\A j \in 1..k : Fields[o.type][j].kind # "string") =>
          received[i].values[k] = o.values[k]
=============================================================================
