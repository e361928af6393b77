------------------------ MODULE ClientEntityRegistry ------------------------
(***************************************************************************)
(* The server's table of clients: a vector of the entities of the          *)
(* registered connections and one lookup in each direction.  A client is   *)
(* removed by moving the last entity of the vector into its place.         *)
(*                                                                         *)
(* The first part is the class: its members are the variables, its methods *)
(* the operators.  The specification after it calls the methods the way    *)
(* Server does: initializeNewClient gives a fresh id to an entity that has *)
(* none, disconnectedClient removes one, start replaces the registry.      *)
(* Positions are counted from 1.                                           *)
(***************************************************************************)
EXTENDS Naturals, Sequences, FiniteSets, Maps

CONSTANTS
  Entities,     \* the entities a connection can get
  NullEntity,   \* ecs::Entity()
  MaxClientId   \* bound: ids 1..MaxClientId are handed out in one run

ASSUME RegistryAssumption ==
  /\ NullEntity \notin Entities
  /\ MaxClientId \in Nat

VARIABLES
  entities,            \* m_entities
  clientEntityLookup,  \* m_clientEntityLookup: the position of a client's entity
  entityClientLookup,  \* m_entityClientLookup
  nextClientId         \* Server::m_nextClientId

registry == <<entities, clientEntityLookup, entityClientLookup>>
vars == <<entities, clientEntityLookup, entityClientLookup, nextClientId>>

NullClientId == 0
ClientIds == 1..MaxClientId

-----------------------------------------------------------------------------
\* A new registry is assigned.
ResetRegistry ==
  /\ entities' = <<>>
  /\ clientEntityLookup' = EmptyMap
  /\ entityClientLookup' = EmptyMap

AddClientId(c, e) ==
  /\ entities' = Append(entities, e)
  /\ clientEntityLookup' = InsertOrAssign(clientEntityLookup, c, Len(entities) + 1)
  /\ entityClientLookup' = InsertOrAssign(entityClientLookup, e, c)

\* Mutated form: the swap with the last entity never happens.
AlwaysLast(at) == TRUE

\* The vector is as long as the lookup, so comparing with the size of the
\* lookup asks whether the client is the last one of the vector.
IsLast(at) == at = Cardinality(DOMAIN clientEntityLookup)

\* Mutated form: the last entity is not moved.
KeepHole(at) == entities

FillHole(at) == [entities EXCEPT ![at] = entities[Len(entities)]]

\* Mutated form: pop_back is missing.
KeepLast(s) == s

RemoveLast(s) == SubSeq(s, 1, Len(s) - 1)

\* Mutated form: the removed entity keeps its client.
KeepOwner(at) == entityClientLookup

ForgetOwner(at) == Erase(entityClientLookup, entities[at])

RemoveClientId(c) ==
  LET at    == clientEntityLookup[c]
      moved == entities[Len(entities)]
  IN IF c \notin DOMAIN clientEntityLookup THEN UNCHANGED registry
     ELSE /\ entityClientLookup' = ForgetOwner(at)
          /\ IF IsLast(at)
             THEN /\ entities' = RemoveLast(entities)
                  /\ clientEntityLookup' = Erase(clientEntityLookup, c)
             ELSE /\ entities' = RemoveLast(FillHole(at))
                  /\ clientEntityLookup' =
                       Erase(InsertOrAssign(clientEntityLookup,
                                            entityClientLookup'[moved], at), c)

GetClientId(e) ==
  IF e \in DOMAIN entityClientLookup THEN entityClientLookup[e] ELSE NullClientId

GetEntity(c) ==
  IF c \in DOMAIN clientEntityLookup THEN entities[clientEntityLookup[c]] ELSE NullEntity

\* getAllEntities, as a set: the entities a broadcast goes to.
Registered == {entities[i] : i \in 1..Len(entities)}

-----------------------------------------------------------------------------
Init ==
  /\ entities = <<>>
  /\ clientEntityLookup = EmptyMap
  /\ entityClientLookup = EmptyMap
  /\ nextClientId = 1

\* One turn of the loop of Server::initializeNewClient.  Its query skips the
\* entities that already wait or are ready, which are the registered ones.
Register(e) ==
  /\ nextClientId \in ClientIds
  /\ GetClientId(e) = NullClientId
  /\ AddClientId(nextClientId, e)
  /\ nextClientId' = nextClientId + 1

\* One turn of the loop of Server::disconnectedClient.
Unregister(e) ==
  /\ GetClientId(e) # NullClientId
  /\ RemoveClientId(GetClientId(e))
  /\ UNCHANGED nextClientId

\* Server::start.
Restart ==
  /\ ResetRegistry
  /\ nextClientId' = 1

Next ==
  \/ \E e \in Entities : Register(e) \/ Unregister(e)
  \/ Restart

Spec == Init /\ [][Next]_vars

-----------------------------------------------------------------------------
\* Every variable has its type, and no lookup leads outside the vector, which
\* removeClientId indexes without a check.
TypeOK ==
  /\ entities \in Seq(Entities)
  /\ IsMap(clientEntityLookup, ClientIds, 1..Len(entities))
  /\ IsMap(entityClientLookup, Entities, ClientIds)
  /\ nextClientId \in 1..(MaxClientId + 1)

\* The two lookups are each other's inverse whatever was removed and moved
\* before: a client's entity leads back to that client, and a registered
\* entity to a client that has it.  Server::sendTcpMessage goes one way and
\* setClientReady and disconnectedClient the other.
LookupsAgree ==
  /\ \A c \in DOMAIN clientEntityLookup : GetClientId(GetEntity(c)) = c
  /\ \A e \in DOMAIN entityClientLookup : GetEntity(GetClientId(e)) = e

\* getAllEntities lists the entity of every registered client, once, and no
\* other: sendNewSpawnDespawnMessage neither skips a client nor sends twice.
EachClientListedOnce ==
  /\ Registered = {GetEntity(c) : c \in DOMAIN clientEntityLookup}
  /\ Len(entities) = Cardinality(DOMAIN clientEntityLookup)
  /\ \A i, j \in 1..Len(entities) : entities[i] = entities[j] => i = j

\* What every method relies on and keeps: positions, clients and entities lead
\* to each other in every direction, and the lookup is as long as the vector,
\* which the comparison in removeClientId needs to find the last client.
RegistryInv ==
  /\ TypeOK
  /\ \A i \in 1..Len(entities) :
       /\ entities[i] \in DOMAIN entityClientLookup
       /\ entityClientLookup[entities[i]] \in DOMAIN clientEntityLookup
       /\ clientEntityLookup[entityClientLookup[entities[i]]] = i
  /\ \A c \in DOMAIN clientEntityLookup :
       /\ entityClientLookup[entities[clientEntityLookup[c]]] = c
       /\ c < nextClientId
  /\ \A e \in DOMAIN entityClientLookup :
       /\ entityClientLookup[e] \in DOMAIN clientEntityLookup
       /\ entities[clientEntityLookup[entityClientLookup[e]]] = e
  /\ IsFiniteSet(DOMAIN clientEntityLookup)
  /\ Cardinality(DOMAIN clientEntityLookup) = Len(entities)

\* The registry behaves as a one-to-one map from fresh ids to entities.
clients == [c \in DOMAIN clientEntityLookup |-> GetEntity(c)]

Map == INSTANCE ClientMap

ImplementsClientMap == Map!Spec
=============================================================================
