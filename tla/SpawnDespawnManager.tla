------------------------ MODULE SpawnDespawnManager ------------------------
(***************************************************************************)
(* The server's record of network entities: the vector of all spawns with  *)
(* a lookup into it, and the spawns and despawns since the clients were    *)
(* last told.  With it goes NetworkIdManager, the engine's own table of    *)
(* network ids, which Server updates in the same calls.  A Spawn is        *)
(* represented by its network id; owner and tag are payload.               *)
(*                                                                         *)
(* The specification at the end calls the methods the way Server does:     *)
(* createNetworkEntity, destroyNetworkEntity (of any id the application    *)
(* may hold), the end of a tick, and stop followed by start.               *)
(***************************************************************************)
EXTENDS Naturals, Sequences, FiniteSets, Maps

CONSTANT MaxNetworkId  \* bound: network ids 1..MaxNetworkId exist in one run

ASSUME SpawnAssumption == MaxNetworkId \in Nat

VARIABLES
  spawns,             \* m_spawns
  newSpawns,          \* m_newSpawns
  newDespawns,        \* m_newDespawn
  spawnLookup,        \* m_spawnLookup: the position of a spawn
  networkIds,         \* the keys of NetworkIdManager::m_networkIdEntityLookup
  nextNetworkId       \* NetworkIdManager::m_nextNetworkId

spawnRecord == <<spawns, newSpawns, newDespawns, spawnLookup>>
vars == <<spawns, newSpawns, newDespawns, spawnLookup, networkIds, nextNetworkId>>

NetworkIds == 1..MaxNetworkId

Members(s) == {s[i] : i \in 1..Len(s)}

-----------------------------------------------------------------------------
AddSpawnMessage(n) ==
  /\ newSpawns' = Append(newSpawns, n)
  /\ spawns' = Append(spawns, n)
  /\ spawnLookup' = Insert(spawnLookup, n, Len(spawns) + 1)
  /\ UNCHANGED newDespawns

\* Mutated form: off by one, the last spawn but one counts as the last.
IsLastButOne(at) == at + 1 >= Len(spawns)

IsLast(at) == at = Len(spawns)

\* Mutated form: the position of the spawn that moves is not updated.
KeepPosition(map, n, at) == map

Relocate(map, n, at) == InsertOrAssign(map, n, at)

\* Mutated form: the despawn is recorded only for a spawn already announced.
RecordIfAnnounced(n) ==
  IF n \in Members(newSpawns) THEN newDespawns ELSE Append(newDespawns, n)

RecordDespawn(n) == Append(newDespawns, n)

\* An unknown network id is ignored.
AddDespawn(n) ==
  LET at    == spawnLookup[n]
      last  == Len(spawns)
      moved == spawns[last]
  IN IF n \notin DOMAIN spawnLookup \/ spawns = <<>> THEN UNCHANGED spawnRecord
     ELSE /\ IF IsLast(at)
             THEN /\ spawns' = SubSeq(spawns, 1, last - 1)
                  /\ spawnLookup' = Erase(spawnLookup, n)
             ELSE /\ spawns' = SubSeq([spawns EXCEPT ![at] = moved], 1, last - 1)
                  /\ spawnLookup' = Erase(Relocate(spawnLookup, moved, at), n)
          /\ newDespawns' = RecordDespawn(n)
          /\ UNCHANGED newSpawns

ClearNewSpawnDespawn ==
  /\ newSpawns' = <<>>
  /\ newDespawns' = <<>>
  /\ UNCHANGED <<spawns, spawnLookup>>

ClearAll ==
  /\ newSpawns' = <<>>
  /\ newDespawns' = <<>>
  /\ spawns' = <<>>
  /\ spawnLookup' = EmptyMap

-----------------------------------------------------------------------------
Init ==
  /\ spawns = <<>> /\ newSpawns = <<>> /\ newDespawns = <<>>
  /\ spawnLookup = EmptyMap
  /\ networkIds = {}
  /\ nextNetworkId = 1

\* Server::createNetworkEntity, NetworkEngine::createNetworkEntity and
\* NetworkIdManager::AddEntity.
CreateNetworkEntity ==
  /\ nextNetworkId \in NetworkIds
  /\ networkIds' = networkIds \cup {nextNetworkId}
  /\ nextNetworkId' = nextNetworkId + 1
  /\ AddSpawnMessage(nextNetworkId)

\* Mutated form: the engine keeps the id of a destroyed entity.
KeepNetworkId(n) == networkIds

RemoveNetworkId(n) == networkIds \ {n}

\* Server::destroyNetworkEntity; the engine ignores an unknown id too.
DestroyNetworkEntity(n) ==
  /\ AddDespawn(n)
  /\ networkIds' = RemoveNetworkId(n)
  /\ UNCHANGED nextNetworkId

\* Server::endUpdate, after the new spawns and despawns are queued for sending.
EndOfTick ==
  /\ ClearNewSpawnDespawn
  /\ UNCHANGED <<networkIds, nextNetworkId>>

\* Server::stop clears the manager; the next start makes a new engine.
StopAndStart ==
  /\ ClearAll
  /\ networkIds' = {}
  /\ nextNetworkId' = 1

Next ==
  \/ CreateNetworkEntity
  \/ \E n \in NetworkIds : DestroyNetworkEntity(n)
  \/ EndOfTick
  \/ StopAndStart

Spec == Init /\ [][Next]_vars

-----------------------------------------------------------------------------
\* Every variable has its type, and no lookup leads outside m_spawns.
TypeOK ==
  /\ spawns \in Seq(NetworkIds)
  /\ newSpawns \in Seq(NetworkIds)
  /\ newDespawns \in Seq(NetworkIds)
  /\ IsMap(spawnLookup, NetworkIds, 1..Len(spawns))
  /\ networkIds \subseteq NetworkIds
  /\ nextNetworkId \in 1..(MaxNetworkId + 1)

\* The lookup finds every spawn where it is, whatever was destroyed and moved
\* before, and the engine's table has the same network entities: an id the
\* application holds is known to both or to none.
TablesAgree ==
  /\ \A n \in DOMAIN spawnLookup : spawns[spawnLookup[n]] = n
  /\ \A i \in 1..Len(spawns) : spawns[i] \in DOMAIN spawnLookup /\ spawnLookup[spawns[i]] = i
  /\ DOMAIN spawnLookup = networkIds

\* What the ready clients knew before this tick.
announced == (Members(spawns) \cup Members(newDespawns)) \ Members(newSpawns)

\* The message made of m_newSpawns and m_newDespawn takes a client that knew
\* the announced entities to exactly the entities that exist, also when an
\* entity is created and destroyed in the same tick.
DeltaIsExact ==
  (announced \cup Members(newSpawns)) \ Members(newDespawns) = Members(spawns)

\* What every call relies on and keeps: the tables agree, ids are handed out in
\* increasing order and never again, and what is announced as new either still
\* exists or is announced as destroyed with it.
SpawnInv ==
  /\ TypeOK
  /\ TablesAgree
  /\ \A n \in networkIds \cup Members(newDespawns) : n < nextNetworkId
  /\ networkIds \cap Members(newDespawns) = {}
  /\ Members(newSpawns) \subseteq networkIds \cup Members(newDespawns)

world == Members(spawns)

Shared == INSTANCE SharedWorld

\* The manager keeps the set of entities, and what was announced changes only
\* when it is announced.
ImplementsSharedWorld == Shared!Spec
=============================================================================
