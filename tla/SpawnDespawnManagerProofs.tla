--------------------- MODULE SpawnDespawnManagerProofs ---------------------
(***************************************************************************)
(* The record of network entities is correct for every number of entities: *)
(* SpawnInv is inductive, the properties checked by TLC follow from it,    *)
(* and with it every step of the manager is a step of SharedWorld.         *)
(***************************************************************************)
EXTENDS SpawnDespawnManager, TLAPS

\* Appending to a vector adds one member.
LEMMA MembersAppend ==
  ASSUME NEW S, NEW s \in Seq(S), NEW n \in S
  PROVE  /\ Append(s, n) \in Seq(S)
         /\ Members(Append(s, n)) = Members(s) \cup {n}
  <1>1. /\ Append(s, n) \in Seq(S)
        /\ Len(Append(s, n)) = Len(s) + 1
        /\ \A i \in 1..Len(s) : Append(s, n)[i] = s[i]
        /\ Append(s, n)[Len(s) + 1] = n
        /\ Len(s) \in Nat
    OBVIOUS
  <1>2. \A i \in 1..(Len(s) + 1) : i \in 1..Len(s) \/ i = Len(s) + 1
    BY <1>1
  <1>3. QED
    BY <1>1, <1>2 DEF Members

\* The lookup and the vector name the same entities.
LEMMA MembersAreNetworkIds == SpawnInv => Members(spawns) = networkIds
  <1> SUFFICES ASSUME SpawnInv PROVE Members(spawns) = networkIds
    OBVIOUS
  <1>1. ASSUME NEW n \in networkIds PROVE \E i \in 1..Len(spawns) : spawns[i] = n
    BY DEF SpawnInv, TablesAgree, TypeOK, IsMap
  <1>2. QED
    BY <1>1 DEF SpawnInv, TablesAgree, Members

\* The same in the next state.
LEMMA NextMembersAreNetworkIds == SpawnInv' => Members(spawns)' = networkIds'
  <1>1. (SpawnInv => Members(spawns) = networkIds)'
    BY MembersAreNetworkIds, PTL
  <1>2. QED
    BY <1>1

\* The initial manager satisfies the invariant.
LEMMA InitSpawnInv == Init => SpawnInv
  <1> SUFFICES ASSUME Init PROVE SpawnInv
    OBVIOUS
  <1>1. DOMAIN spawnLookup = {} /\ Members(spawns) = {} /\ Members(newDespawns) = {}
        /\ Members(newSpawns) = {}
    BY DEF Init, EmptyMap, Members
  <1>2. TypeOK
    BY SpawnAssumption, <1>1 DEF Init, TypeOK, IsMap, EmptyMap, NetworkIds, SpawnAssumption
  <1>3. QED
    BY <1>1, <1>2 DEF Init, SpawnInv, TablesAgree

\* A new network entity has a fresh id and goes to the end of the vector.
LEMMA CreateKeepsInv ==
  ASSUME SpawnInv, CreateNetworkEntity
  PROVE  SpawnInv'
  <1> DEFINE n == nextNetworkId
             len == Len(spawns)
  <1>1. /\ n \in NetworkIds
        /\ n \notin DOMAIN spawnLookup
        /\ networkIds' = networkIds \cup {n}
        /\ nextNetworkId' = n + 1
        /\ newSpawns' = Append(newSpawns, n)
        /\ spawns' = Append(spawns, n)
        /\ newDespawns' = newDespawns
    BY DEF CreateNetworkEntity, AddSpawnMessage, SpawnInv, TablesAgree, NetworkIds
  <1>2. /\ spawnLookup' = InsertOrAssign(spawnLookup, n, len + 1)
    BY <1>1 DEF CreateNetworkEntity, AddSpawnMessage, Insert
  <1>3. /\ spawns' \in Seq(NetworkIds)
        /\ Len(spawns') = len + 1
        /\ len \in Nat
        /\ \A i \in 1..len : spawns'[i] = spawns[i]
        /\ spawns'[len + 1] = n
    BY <1>1 DEF SpawnInv, TypeOK
  <1>4. /\ DOMAIN spawnLookup' = DOMAIN spawnLookup \cup {n}
        /\ spawnLookup'[n] = len + 1
        /\ \A m \in DOMAIN spawnLookup : spawnLookup'[m] = spawnLookup[m]
    BY <1>1, <1>2 DEF InsertOrAssign
  <1>5. /\ newSpawns' \in Seq(NetworkIds)
        /\ Members(newSpawns') = Members(newSpawns) \cup {n}
    BY <1>1, MembersAppend DEF SpawnInv, TypeOK
  <1>6. TypeOK'
    <2>1. IsMap(spawnLookup', NetworkIds, 1..Len(spawns'))
      BY <1>1, <1>2, <1>3 DEF SpawnInv, TypeOK, IsMap, InsertOrAssign
    <2>2. nextNetworkId' \in 1..(MaxNetworkId + 1)
      BY <1>1, SpawnAssumption DEF NetworkIds, SpawnAssumption
    <2>3. QED
      BY <1>1, <1>3, <1>5, <2>1, <2>2 DEF SpawnInv, TypeOK
  <1>7. TablesAgree'
    <2>1. \A m \in DOMAIN spawnLookup' : spawns'[spawnLookup'[m]] = m
      BY <1>3, <1>4 DEF SpawnInv, TablesAgree, TypeOK, IsMap
    <2>2. ASSUME NEW i \in 1..Len(spawns')
          PROVE  spawns'[i] \in DOMAIN spawnLookup' /\ spawnLookup'[spawns'[i]] = i
      BY <1>1, <1>3, <1>4 DEF SpawnInv, TablesAgree
    <2>3. DOMAIN spawnLookup' = networkIds'
      BY <1>1, <1>4 DEF SpawnInv, TablesAgree
    <2>4. QED
      BY <2>1, <2>2, <2>3 DEF TablesAgree
  <1>8. n \notin Members(newDespawns)
    BY DEF SpawnInv, TypeOK, NetworkIds
  <1>9. \A m \in networkIds' \cup Members(newDespawns') : m < nextNetworkId'
    <2>1. \A m \in networkIds \cup Members(newDespawns) : m < n /\ m \in NetworkIds
      BY DEF SpawnInv, TypeOK, Members
    <2>2. QED
      BY <2>1, <1>1 DEF NetworkIds
  <1>10. QED
    BY <1>1, <1>5, <1>6, <1>7, <1>8, <1>9 DEF SpawnInv

\* What a destruction does to the tables when the id is known: the last spawn
\* of the vector takes the place of the one that goes.
LEMMA DestroyEffect ==
  ASSUME SpawnInv, NEW n \in networkIds, DestroyNetworkEntity(n)
  PROVE  /\ spawns' \in Seq(NetworkIds)
         /\ Len(spawns') = Len(spawns) - 1
         /\ \A i \in 1..(Len(spawns) - 1) :
              spawns'[i] = IF i = spawnLookup[n] THEN spawns[Len(spawns)] ELSE spawns[i]
         /\ spawnLookup' = [m \in DOMAIN spawnLookup \ {n} |->
              IF m = spawns[Len(spawns)] THEN spawnLookup[n] ELSE spawnLookup[m]]
         /\ networkIds' = networkIds \ {n}
         /\ newDespawns' = Append(newDespawns, n)
         /\ newSpawns' = newSpawns
         /\ nextNetworkId' = nextNetworkId
  <1> DEFINE at == spawnLookup[n]
             last == Len(spawns)
             moved == spawns[last]
  <1>1. /\ n \in DOMAIN spawnLookup
        /\ last \in Nat /\ at \in 1..last /\ last \in 1..last
        /\ spawns[at] = n
        /\ moved \in NetworkIds /\ moved \in DOMAIN spawnLookup /\ spawnLookup[moved] = last
        /\ spawns # <<>>
    BY DEF SpawnInv, TablesAgree, TypeOK, IsMap
  <1>2. /\ networkIds' = networkIds \ {n}
        /\ newDespawns' = Append(newDespawns, n)
        /\ newSpawns' = newSpawns
        /\ nextNetworkId' = nextNetworkId
    BY <1>1 DEF DestroyNetworkEntity, AddDespawn, RecordDespawn, RemoveNetworkId
  <1>3. CASE at = last
    <2>1. /\ spawns' = SubSeq(spawns, 1, last - 1)
          /\ spawnLookup' = Erase(spawnLookup, n)
      BY <1>1, <1>3 DEF DestroyNetworkEntity, AddDespawn, IsLast
    <2>2. /\ spawns' \in Seq(NetworkIds)
          /\ Len(spawns') = last - 1
          /\ \A i \in 1..(last - 1) : spawns'[i] = spawns[i] /\ i # at
      BY <1>1, <1>3, <2>1 DEF SpawnInv, TypeOK
    <2>3. moved = n
      BY <1>1, <1>3
    <2>4. QED
      BY <1>2, <2>1, <2>2, <2>3 DEF Erase
  <1>4. CASE at # last
    <2>1. /\ spawns' = SubSeq([spawns EXCEPT ![at] = moved], 1, last - 1)
          /\ spawnLookup' = Erase(InsertOrAssign(spawnLookup, moved, at), n)
      BY <1>1, <1>4 DEF DestroyNetworkEntity, AddDespawn, IsLast, Relocate
    <2>2. /\ [spawns EXCEPT ![at] = moved] \in Seq(NetworkIds)
          /\ Len([spawns EXCEPT ![at] = moved]) = last
          /\ \A i \in 1..last : [spawns EXCEPT ![at] = moved][i] =
                                  IF i = at THEN moved ELSE spawns[i]
      BY <1>1 DEF SpawnInv, TypeOK
    <2>3. /\ spawns' \in Seq(NetworkIds)
          /\ Len(spawns') = last - 1
          /\ \A i \in 1..(last - 1) : spawns'[i] = IF i = at THEN moved ELSE spawns[i]
      BY <1>1, <2>1, <2>2
    <2>4. spawnLookup' = [m \in DOMAIN spawnLookup \ {n} |->
                            IF m = moved THEN at ELSE spawnLookup[m]]
      BY <1>1, <2>1 DEF Erase, InsertOrAssign
    <2>5. QED
      BY <1>2, <2>3, <2>4
  <1>5. QED
    BY <1>3, <1>4

\* Destroying a network entity that exists keeps the invariant.
LEMMA DestroyKeepsInv ==
  ASSUME SpawnInv, NEW n \in networkIds, DestroyNetworkEntity(n)
  PROVE  SpawnInv'
  <1> DEFINE at == spawnLookup[n]
             last == Len(spawns)
             moved == spawns[last]
  <1>1. /\ n \in DOMAIN spawnLookup /\ n \in NetworkIds
        /\ last \in Nat /\ at \in 1..last /\ last \in 1..last
        /\ spawns[at] = n
        /\ moved \in NetworkIds /\ moved \in DOMAIN spawnLookup /\ spawnLookup[moved] = last
    BY DEF SpawnInv, TablesAgree, TypeOK, IsMap
  <1>2. /\ spawns' \in Seq(NetworkIds)
        /\ Len(spawns') = last - 1
        /\ \A i \in 1..(last - 1) : spawns'[i] = IF i = at THEN moved ELSE spawns[i]
        /\ spawnLookup' = [m \in DOMAIN spawnLookup \ {n} |->
                             IF m = moved THEN at ELSE spawnLookup[m]]
        /\ networkIds' = networkIds \ {n}
        /\ newDespawns' = Append(newDespawns, n)
        /\ newSpawns' = newSpawns
        /\ nextNetworkId' = nextNetworkId
    BY DestroyEffect
  <1>3. \A m \in DOMAIN spawnLookup :
          /\ spawnLookup[m] \in 1..last
          /\ spawns[spawnLookup[m]] = m
          /\ spawnLookup[m] = at => m = n
          /\ spawnLookup[m] = last => m = moved
    BY <1>1 DEF SpawnInv, TablesAgree, TypeOK, IsMap
  <1>4. /\ newDespawns' \in Seq(NetworkIds)
        /\ Members(newDespawns') = Members(newDespawns) \cup {n}
    BY <1>1, <1>2, MembersAppend DEF SpawnInv, TypeOK
  <1>5. TypeOK'
    <2>1. \A m \in DOMAIN spawnLookup' : spawnLookup'[m] \in 1..(last - 1)
      BY <1>1, <1>2, <1>3
    <2>2. IsMap(spawnLookup', NetworkIds, 1..Len(spawns'))
      BY <2>1, <1>2 DEF SpawnInv, TypeOK, IsMap
    <2>3. QED
      BY <2>2, <1>2, <1>4 DEF SpawnInv, TypeOK
  <1>6. TablesAgree'
    <2>1. ASSUME NEW m \in DOMAIN spawnLookup' PROVE spawns'[spawnLookup'[m]] = m
      BY <1>1, <1>2, <1>3
    <2>2. ASSUME NEW i \in 1..Len(spawns')
          PROVE  spawns'[i] \in DOMAIN spawnLookup' /\ spawnLookup'[spawns'[i]] = i
      <3>1. i \in 1..(last - 1) /\ i \in 1..last /\ i # last
        BY <1>1, <1>2
      <3>2. CASE i = at
        BY <3>1, <3>2, <1>1, <1>2
      <3>3. CASE i # at
        <4>1. /\ spawns[i] \in DOMAIN spawnLookup /\ spawnLookup[spawns[i]] = i
          BY <3>1 DEF SpawnInv, TablesAgree
        <4>2. QED
          BY <4>1, <3>1, <3>3, <1>1, <1>2
      <3>4. QED
        BY <3>2, <3>3
    <2>3. DOMAIN spawnLookup' = networkIds'
      BY <1>2 DEF SpawnInv, TablesAgree
    <2>4. QED
      BY <2>1, <2>2, <2>3 DEF TablesAgree
  <1>7. QED
    BY <1>2, <1>4, <1>5, <1>6 DEF SpawnInv

\* Destroying a network entity that does not exist does nothing.
LEMMA DestroyUnknown ==
  ASSUME SpawnInv, NEW n, n \notin networkIds, DestroyNetworkEntity(n)
  PROVE  UNCHANGED vars
  BY DEF SpawnInv, TablesAgree, DestroyNetworkEntity, AddDespawn, spawnRecord,
         RemoveNetworkId, vars

\* At the end of a tick there is nothing new.
LEMMA EndOfTickKeepsInv ==
  ASSUME SpawnInv, EndOfTick
  PROVE  SpawnInv'
  <1>1. /\ newSpawns' = <<>> /\ newDespawns' = <<>>
        /\ UNCHANGED <<spawns, spawnLookup, networkIds, nextNetworkId>>
    BY DEF EndOfTick, ClearNewSpawnDespawn
  <1>2. Members(newSpawns') = {} /\ Members(newDespawns') = {}
    BY <1>1 DEF Members
  <1>3. QED
    BY <1>1, <1>2 DEF SpawnInv, TypeOK, TablesAgree

\* A server that stopped has no network entities.
LEMMA StopKeepsInv ==
  ASSUME StopAndStart
  PROVE  SpawnInv'
  <1>1. /\ spawns' = <<>> /\ newSpawns' = <<>> /\ newDespawns' = <<>>
        /\ spawnLookup' = EmptyMap
        /\ networkIds' = {} /\ nextNetworkId' = 1
    BY DEF StopAndStart, ClearAll
  <1>2. /\ DOMAIN spawnLookup' = {}
        /\ Members(newSpawns') = {} /\ Members(newDespawns') = {}
    BY <1>1 DEF EmptyMap, Members
  <1>3. TypeOK'
    BY SpawnAssumption, <1>1, <1>2 DEF TypeOK, IsMap, EmptyMap, NetworkIds, SpawnAssumption
  <1>4. QED
    BY <1>1, <1>2, <1>3 DEF SpawnInv, TablesAgree

\* Every call keeps the invariant.
LEMMA NextSpawnInv == SpawnInv /\ [Next]_vars => SpawnInv'
  <1> SUFFICES ASSUME SpawnInv, [Next]_vars PROVE SpawnInv'
    OBVIOUS
  <1>1. CASE CreateNetworkEntity
    BY <1>1, CreateKeepsInv
  <1>2. CASE UNCHANGED vars
    BY <1>2 DEF vars, SpawnInv, TypeOK, TablesAgree, Members
  <1>3. ASSUME NEW n \in NetworkIds, DestroyNetworkEntity(n) PROVE SpawnInv'
    <2>1. CASE n \in networkIds
      BY <1>3, <2>1, DestroyKeepsInv
    <2>2. CASE n \notin networkIds
      BY <1>2, <1>3, <2>2, DestroyUnknown
    <2>3. QED
      BY <2>1, <2>2
  <1>4. CASE EndOfTick
    BY <1>4, EndOfTickKeepsInv
  <1>5. CASE StopAndStart
    BY <1>5, StopKeepsInv
  <1>6. QED
    BY <1>1, <1>2, <1>3, <1>4, <1>5 DEF Next

\* SpawnInv holds in every reachable state, for every number of network ids.
THEOREM SpawnInvariant == Spec => []SpawnInv
  BY InitSpawnInv, NextSpawnInv, PTL DEF Spec

\* No position of the lookup leads outside the vector.
THEOREM SpawnTypeCorrect == Spec => []TypeOK
  BY SpawnInvariant, PTL DEF SpawnInv

\* The lookup, the vector and the engine's table always agree.
THEOREM TablesAlwaysAgree == Spec => []TablesAgree
  BY SpawnInvariant, PTL DEF SpawnInv

\* What the invariant says of the message to the ready clients.
LEMMA InvImpliesDelta == SpawnInv => DeltaIsExact
  BY MembersAreNetworkIds DEF SpawnInv, DeltaIsExact, announced

\* The spawns and despawns of a tick take a client from what was announced to
\* exactly what exists, for every history of creations and destructions.
THEOREM DeltaAlwaysExact == Spec => []DeltaIsExact
  BY SpawnInvariant, InvImpliesDelta, PTL

-----------------------------------------------------------------------------
\* Creating an entity adds it to the world and leaves what was announced.
LEMMA CreateRefines ==
  ASSUME SpawnInv, SpawnInv', CreateNetworkEntity
  PROVE  Shared!Create
  <1> DEFINE n == nextNetworkId
  <1>1. /\ n \in NetworkIds
        /\ networkIds' = networkIds \cup {n}
        /\ nextNetworkId' = n + 1
        /\ newSpawns' = Append(newSpawns, n)
        /\ newDespawns' = newDespawns
    BY DEF CreateNetworkEntity, AddSpawnMessage
  <1>2. Members(spawns) = networkIds /\ Members(spawns)' = networkIds'
    BY MembersAreNetworkIds, NextMembersAreNetworkIds
  <1>3. /\ Members(newSpawns)' = Members(newSpawns) \cup {n}
        /\ Members(newDespawns)' = Members(newDespawns)
    <2>1. newSpawns \in Seq(NetworkIds)
      BY DEF SpawnInv, TypeOK
    <2>2. Members(Append(newSpawns, n)) = Members(newSpawns) \cup {n}
      BY <1>1, <2>1, MembersAppend
    <2>3. QED
      BY <1>1, <2>2 DEF Members
  <1>4. n \notin networkIds \cup Members(newDespawns)
    BY DEF SpawnInv, TypeOK
  <1>5. announced' = announced
    BY <1>1, <1>2, <1>3, <1>4 DEF announced
  <1>6. QED
    BY <1>1, <1>2, <1>5 DEF Shared!Create, world

\* Destroying an entity removes it from the world and leaves what was announced.
LEMMA DestroyRefines ==
  ASSUME SpawnInv, SpawnInv', NEW n \in networkIds, DestroyNetworkEntity(n)
  PROVE  n \in world /\ Shared!Destroy(n)
  <1>1. /\ networkIds' = networkIds \ {n}
        /\ newDespawns' = Append(newDespawns, n)
        /\ newSpawns' = newSpawns
        /\ nextNetworkId' = nextNetworkId
    BY DestroyEffect
  <1>2. Members(spawns) = networkIds /\ Members(spawns)' = networkIds'
    BY MembersAreNetworkIds, NextMembersAreNetworkIds
  <1>3. /\ Members(newDespawns)' = Members(newDespawns) \cup {n}
        /\ Members(newSpawns)' = Members(newSpawns)
    <2>1. newDespawns \in Seq(NetworkIds) /\ n \in NetworkIds
      BY DEF SpawnInv, TypeOK
    <2>2. Members(Append(newDespawns, n)) = Members(newDespawns) \cup {n}
      BY <2>1, MembersAppend
    <2>3. QED
      BY <1>1, <2>2 DEF Members
  <1>4. announced' = announced
    BY <1>1, <1>2, <1>3 DEF announced
  <1>5. QED
    BY <1>1, <1>2, <1>4 DEF Shared!Destroy, world

\* The manager implements SharedWorld: initial states map to initial states,
\* and every step to a step of it or a stutter.
THEOREM ManagerImplementsSharedWorld == Spec => ImplementsSharedWorld
  <1>1. Init => Shared!Init
    BY DEF Init, Shared!Init, world, announced, Members
  <1>2. SpawnInv /\ SpawnInv' /\ [Next]_vars => [Shared!Next]_(Shared!vars)
    <2> SUFFICES ASSUME SpawnInv, SpawnInv', [Next]_vars
                 PROVE  [Shared!Next]_(Shared!vars)
      OBVIOUS
    <2>1. CASE CreateNetworkEntity
      BY <2>1, CreateRefines DEF Shared!Next
    <2>2. CASE UNCHANGED vars
      BY <2>2 DEF vars, Shared!vars, world, announced, Members
    <2>3. ASSUME NEW n \in NetworkIds, DestroyNetworkEntity(n)
          PROVE  [Shared!Next]_(Shared!vars)
      <3>1. CASE n \in networkIds
        BY <2>3, <3>1, DestroyRefines DEF Shared!Next
      <3>2. CASE n \notin networkIds
        BY <2>3, <3>2, <2>2, DestroyUnknown
      <3>3. QED
        BY <3>1, <3>2
    <2>4. CASE EndOfTick
      <3>1. /\ newSpawns' = <<>> /\ newDespawns' = <<>>
            /\ UNCHANGED <<spawns, nextNetworkId>>
        BY <2>4 DEF EndOfTick, ClearNewSpawnDespawn
      <3>2. announced' = world /\ world' = world
        BY <3>1 DEF announced, world, Members
      <3>3. QED
        BY <3>1, <3>2 DEF Shared!Announce, Shared!Next
    <2>5. CASE StopAndStart
      BY <2>5 DEF StopAndStart, ClearAll, Shared!Reset, Shared!Next, world, announced, Members
    <2>6. QED
      BY <2>1, <2>2, <2>3, <2>4, <2>5 DEF Next
  <1>3. QED
    BY <1>1, <1>2, SpawnInvariant, PTL DEF Spec, ImplementsSharedWorld, Shared!Spec
=============================================================================
