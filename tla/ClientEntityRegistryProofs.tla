--------------------- MODULE ClientEntityRegistryProofs ---------------------
(***************************************************************************)
(* The registry is correct for every set of entities and every number of   *)
(* clients: RegistryInv is inductive, the properties checked by TLC follow *)
(* from it, and with it every step of the registry is a step of ClientMap. *)
(***************************************************************************)
EXTENDS ClientEntityRegistry, FiniteSetTheorems, TLAPS

\* insert_or_assign keeps a map well typed.
LEMMA InsertOrAssignIsMap ==
  ASSUME NEW map, NEW keys, NEW values, NEW W, IsMap(map, keys, values), values \subseteq W,
         NEW key \in keys, NEW value \in W
  PROVE  IsMap(InsertOrAssign(map, key, value), keys, W)
  BY DEF IsMap, InsertOrAssign

\* erase keeps a map well typed.
LEMMA EraseIsMap ==
  ASSUME NEW map, NEW keys, NEW values, NEW key, IsMap(map, keys, values)
  PROVE  IsMap(Erase(map, key), keys, values)
  BY DEF IsMap, Erase

\* The initial registry satisfies the invariant.
LEMMA InitRegistryInv == Init => RegistryInv
  <1> SUFFICES ASSUME Init PROVE RegistryInv
    OBVIOUS
  <1>1. DOMAIN clientEntityLookup = {} /\ DOMAIN entityClientLookup = {}
    BY DEF Init, EmptyMap
  <1>2. TypeOK
    BY RegistryAssumption, <1>1
    DEF Init, TypeOK, IsMap, EmptyMap, ClientIds, RegistryAssumption
  <1>3. IsFiniteSet(DOMAIN clientEntityLookup) /\ Cardinality(DOMAIN clientEntityLookup) = 0
    BY <1>1, FS_EmptySet
  <1>4. QED
    BY <1>1, <1>2, <1>3 DEF Init, RegistryInv

\* A fresh id and an unregistered entity keep the invariant.
LEMMA RegisterKeepsInv ==
  ASSUME RegistryInv, NEW e \in Entities, Register(e)
  PROVE  RegistryInv'
  <1> DEFINE c == nextClientId
             n == Len(entities)
  <1>1. /\ e \notin DOMAIN entityClientLookup
        /\ c \in ClientIds
    BY DEF Register, GetClientId, RegistryInv, TypeOK, IsMap, NullClientId, ClientIds
  <1>2. /\ entities' = Append(entities, e)
        /\ clientEntityLookup' = InsertOrAssign(clientEntityLookup, c, n + 1)
        /\ entityClientLookup' = InsertOrAssign(entityClientLookup, e, c)
        /\ nextClientId' = c + 1
    BY DEF Register, AddClientId
  <1>3. c \notin DOMAIN clientEntityLookup
    BY DEF RegistryInv, TypeOK, ClientIds
  <1>4. /\ entities' \in Seq(Entities)
        /\ Len(entities') = n + 1
        /\ n \in Nat
        /\ \A i \in 1..n : entities'[i] = entities[i]
        /\ entities'[n + 1] = e
    BY <1>2 DEF RegistryInv, TypeOK
  <1>5. TypeOK'
    <2>1. IsMap(clientEntityLookup', ClientIds, 1..Len(entities'))
      <3>1. IsMap(clientEntityLookup, ClientIds, 1..n) /\ 1..n \subseteq 1..(n + 1)
        BY <1>4 DEF RegistryInv, TypeOK
      <3>2. n + 1 \in 1..(n + 1)
        BY <1>4
      <3>3. QED
        BY <3>1, <3>2, <1>1, <1>2, <1>4, InsertOrAssignIsMap
    <2>2. IsMap(entityClientLookup', Entities, ClientIds)
      BY <1>1, <1>2, InsertOrAssignIsMap DEF RegistryInv, TypeOK
    <2>3. nextClientId' \in 1..(MaxClientId + 1)
      BY <1>1, <1>2, RegistryAssumption DEF ClientIds, RegistryAssumption
    <2>4. QED
      BY <1>4, <2>1, <2>2, <2>3 DEF TypeOK
  <1>6. ASSUME NEW i \in 1..Len(entities')
        PROVE  /\ entities'[i] \in DOMAIN entityClientLookup'
               /\ entityClientLookup'[entities'[i]] \in DOMAIN clientEntityLookup'
               /\ clientEntityLookup'[entityClientLookup'[entities'[i]]] = i
    BY <1>1, <1>2, <1>3, <1>4 DEF RegistryInv, InsertOrAssign
  <1>7. ASSUME NEW d \in DOMAIN clientEntityLookup'
        PROVE  /\ entityClientLookup'[entities'[clientEntityLookup'[d]]] = d
               /\ d < nextClientId'
    BY <1>1, <1>2, <1>3, <1>4 DEF RegistryInv, TypeOK, IsMap, InsertOrAssign, ClientIds
  <1>8. ASSUME NEW f \in DOMAIN entityClientLookup'
        PROVE  /\ entityClientLookup'[f] \in DOMAIN clientEntityLookup'
               /\ entities'[clientEntityLookup'[entityClientLookup'[f]]] = f
    BY <1>1, <1>2, <1>3, <1>4 DEF RegistryInv, TypeOK, IsMap, InsertOrAssign
  <1>9. /\ IsFiniteSet(DOMAIN clientEntityLookup')
        /\ Cardinality(DOMAIN clientEntityLookup') = Len(entities')
    <2>1. DOMAIN clientEntityLookup' = DOMAIN clientEntityLookup \cup {c}
      BY <1>2 DEF InsertOrAssign
    <2>2. IsFiniteSet(DOMAIN clientEntityLookup) /\ Cardinality(DOMAIN clientEntityLookup) = n
      BY DEF RegistryInv
    <2>3. /\ IsFiniteSet(DOMAIN clientEntityLookup \cup {c})
          /\ Cardinality(DOMAIN clientEntityLookup \cup {c}) = n + 1
      BY <1>3, <2>2, FS_AddElement
    <2>4. QED
      BY <1>4, <2>1, <2>3
  <1>10. QED
    BY <1>5, <1>6, <1>7, <1>8, <1>9 DEF RegistryInv

\* Removing the client of a registered entity keeps the invariant, whether it
\* is the last of the vector or the last one moves into its place.
LEMMA UnregisterKeepsInv ==
  ASSUME RegistryInv, NEW e \in Entities, Unregister(e)
  PROVE  RegistryInv'
  <1> DEFINE c == entityClientLookup[e]
             n == Len(entities)
             at == clientEntityLookup[c]
             moved == entities[n]
             owner == entityClientLookup[moved]
  <1>1. /\ e \in DOMAIN entityClientLookup
        /\ GetClientId(e) = c
    BY DEF Unregister, GetClientId
  <1>2. /\ c \in DOMAIN clientEntityLookup
        /\ n \in Nat
        /\ at \in 1..n
        /\ n \in 1..n
        /\ entities[at] = e
    BY <1>1 DEF RegistryInv, TypeOK, IsMap
  <1>3. /\ moved \in Entities
        /\ moved \in DOMAIN entityClientLookup
        /\ owner \in DOMAIN clientEntityLookup
        /\ owner \in ClientIds
        /\ clientEntityLookup[owner] = n
    BY <1>2 DEF RegistryInv, TypeOK, IsMap
  <1>4. /\ entityClientLookup' = Erase(entityClientLookup, e)
        /\ nextClientId' = nextClientId
        /\ DOMAIN entityClientLookup' = DOMAIN entityClientLookup \ {e}
        /\ \A f \in DOMAIN entityClientLookup' :
             entityClientLookup'[f] = entityClientLookup[f]
    BY <1>1, <1>2 DEF Unregister, RemoveClientId, ForgetOwner, Erase
  <1>5. at = n <=> e = moved
    BY <1>2, <1>3 DEF RegistryInv
  \* The entities that stay: at the place of the removed one the last of the
  \* vector, everywhere else the entity that was there.
  <1>6. /\ entities' \in Seq(Entities)
        /\ Len(entities') = n - 1
        /\ \A i \in 1..(n - 1) :
             entities'[i] = IF i = at THEN moved ELSE entities[i]
    <2>1. CASE at = n
      <3>1. entities' = SubSeq(entities, 1, n - 1)
        BY <2>1, <1>1, <1>2 DEF Unregister, RemoveClientId, IsLast, RemoveLast, RegistryInv
      <3>2. QED
        BY <3>1, <2>1, <1>2 DEF RegistryInv, TypeOK
    <2>2. CASE at # n
      <3>1. entities' = SubSeq([entities EXCEPT ![at] = moved], 1,
                               Len([entities EXCEPT ![at] = moved]) - 1)
        BY <2>2, <1>1, <1>2
        DEF Unregister, RemoveClientId, IsLast, RemoveLast, FillHole, RegistryInv
      <3>2. /\ [entities EXCEPT ![at] = moved] \in Seq(Entities)
            /\ Len([entities EXCEPT ![at] = moved]) = n
            /\ \A i \in 1..n : [entities EXCEPT ![at] = moved][i] =
                                 IF i = at THEN moved ELSE entities[i]
        BY <1>2, <1>3 DEF RegistryInv, TypeOK
      <3>3. QED
        BY <3>1, <3>2, <1>2
    <2>3. QED
      BY <2>1, <2>2
  \* The clients that stay keep their positions, but for the one that moved.
  <1>7. /\ clientEntityLookup' = [d \in DOMAIN clientEntityLookup \ {c} |->
                                    IF d = owner THEN at ELSE clientEntityLookup[d]]
    <2>1. CASE at = n
      <3>1. clientEntityLookup' = Erase(clientEntityLookup, c)
        BY <2>1, <1>1, <1>2 DEF Unregister, RemoveClientId, IsLast, RegistryInv
      <3>2. owner = c
        BY <2>1, <1>5
      <3>3. QED
        BY <3>1, <3>2 DEF Erase
    <2>2. CASE at # n
      <3>1. clientEntityLookup' =
              Erase(InsertOrAssign(clientEntityLookup, entityClientLookup'[moved], at), c)
        BY <2>2, <1>1, <1>2 DEF Unregister, RemoveClientId, IsLast, RegistryInv
      <3>2. entityClientLookup'[moved] = owner
        BY <2>2, <1>3, <1>4, <1>5
      <3>3. QED
        BY <3>1, <3>2, <1>3 DEF Erase, InsertOrAssign
    <2>3. QED
      BY <2>1, <2>2
  <1>8. \A d \in DOMAIN clientEntityLookup :
          /\ clientEntityLookup[d] \in 1..n
          /\ entities[clientEntityLookup[d]] \in DOMAIN entityClientLookup
          /\ entityClientLookup[entities[clientEntityLookup[d]]] = d
          /\ clientEntityLookup[d] = at => d = c
          /\ clientEntityLookup[d] = n => d = owner
    BY <1>2 DEF RegistryInv, TypeOK, IsMap
  <1>9. TypeOK'
    <2>1. \A d \in DOMAIN clientEntityLookup' : clientEntityLookup'[d] \in 1..(n - 1)
      BY <1>2, <1>3, <1>7, <1>8
    <2>2. IsMap(clientEntityLookup', ClientIds, 1..Len(entities'))
      BY <2>1, <1>6, <1>7 DEF RegistryInv, TypeOK, IsMap
    <2>3. IsMap(entityClientLookup', Entities, ClientIds)
      BY <1>4, EraseIsMap DEF RegistryInv, TypeOK
    <2>4. QED
      BY <1>4, <1>6, <2>2, <2>3 DEF RegistryInv, TypeOK
  <1>10. ASSUME NEW i \in 1..Len(entities')
         PROVE  /\ entities'[i] \in DOMAIN entityClientLookup'
                /\ entityClientLookup'[entities'[i]] \in DOMAIN clientEntityLookup'
                /\ clientEntityLookup'[entityClientLookup'[entities'[i]]] = i
    <2>1. i \in 1..(n - 1) /\ i \in 1..n
      BY <1>2, <1>6
    <2>2. CASE i = at
      BY <2>1, <2>2, <1>2, <1>3, <1>4, <1>5, <1>6, <1>7
    <2>3. CASE i # at
      BY <2>1, <2>3, <1>2, <1>3, <1>4, <1>6, <1>7 DEF RegistryInv
    <2>4. QED
      BY <2>2, <2>3
  <1>11. ASSUME NEW d \in DOMAIN clientEntityLookup'
         PROVE  /\ entityClientLookup'[entities'[clientEntityLookup'[d]]] = d
                /\ d < nextClientId'
    <2>1. d \in DOMAIN clientEntityLookup /\ d # c
      BY <1>7
    <2>2. CASE d = owner
      BY <2>1, <2>2, <1>2, <1>3, <1>4, <1>5, <1>6, <1>7 DEF RegistryInv
    <2>3. CASE d # owner
      BY <2>1, <2>3, <1>2, <1>3, <1>4, <1>6, <1>7, <1>8 DEF RegistryInv
    <2>4. QED
      BY <2>2, <2>3
  <1>12. ASSUME NEW f \in DOMAIN entityClientLookup'
         PROVE  /\ entityClientLookup'[f] \in DOMAIN clientEntityLookup'
                /\ entities'[clientEntityLookup'[entityClientLookup'[f]]] = f
    <2>1. /\ f \in DOMAIN entityClientLookup /\ f # e
          /\ entityClientLookup'[f] = entityClientLookup[f]
          /\ entityClientLookup[f] \in DOMAIN clientEntityLookup
          /\ entities[clientEntityLookup[entityClientLookup[f]]] = f
      BY <1>4 DEF RegistryInv
    <2>2. entityClientLookup[f] # c
      BY <2>1, <1>2
    <2>3. CASE entityClientLookup[f] = owner
      BY <2>1, <2>2, <2>3, <1>2, <1>3, <1>6, <1>7
    <2>4. CASE entityClientLookup[f] # owner
      BY <2>1, <2>2, <2>4, <1>2, <1>6, <1>7, <1>8
    <2>5. QED
      BY <2>3, <2>4
  <1>13. /\ IsFiniteSet(DOMAIN clientEntityLookup')
         /\ Cardinality(DOMAIN clientEntityLookup') = Len(entities')
    <2>1. DOMAIN clientEntityLookup' = DOMAIN clientEntityLookup \ {c}
      BY <1>7
    <2>2. IsFiniteSet(DOMAIN clientEntityLookup) /\ Cardinality(DOMAIN clientEntityLookup) = n
      BY DEF RegistryInv
    <2>3. /\ IsFiniteSet(DOMAIN clientEntityLookup \ {c})
          /\ Cardinality(DOMAIN clientEntityLookup \ {c}) = n - 1
      BY <1>2, <2>2, FS_RemoveElement
    <2>4. QED
      BY <1>6, <2>1, <2>3
  <1>14. QED
    BY <1>9, <1>10, <1>11, <1>12, <1>13 DEF RegistryInv

\* A restarted server begins with an empty registry.
LEMMA RestartKeepsInv ==
  ASSUME RegistryInv, Restart
  PROVE  RegistryInv'
  <1>1. /\ entities' = <<>>
        /\ clientEntityLookup' = EmptyMap
        /\ entityClientLookup' = EmptyMap
        /\ nextClientId' = 1
    BY DEF Restart, ResetRegistry
  <1>2. DOMAIN clientEntityLookup' = {} /\ DOMAIN entityClientLookup' = {}
    BY <1>1 DEF EmptyMap
  <1>3. TypeOK'
    BY RegistryAssumption, <1>1, <1>2 DEF TypeOK, IsMap, EmptyMap, RegistryAssumption
  <1>4. /\ IsFiniteSet(DOMAIN clientEntityLookup')
        /\ Cardinality(DOMAIN clientEntityLookup') = 0
    BY <1>2, FS_EmptySet
  <1>5. QED
    BY <1>1, <1>2, <1>3, <1>4 DEF RegistryInv

\* RegistryInv holds in every reachable state, for every set of entities and
\* every number of ids.
THEOREM RegistryInvariant == Spec => []RegistryInv
  <1>1. RegistryInv /\ [Next]_vars => RegistryInv'
    <2> SUFFICES ASSUME RegistryInv, [Next]_vars
                 PROVE  RegistryInv'
      OBVIOUS
    <2>1. ASSUME NEW e \in Entities, Register(e)
          PROVE  RegistryInv'
      BY <2>1, RegisterKeepsInv
    <2>2. ASSUME NEW e \in Entities, Unregister(e)
          PROVE  RegistryInv'
      BY <2>2, UnregisterKeepsInv
    <2>3. CASE Restart
      BY <2>3, RestartKeepsInv
    <2>4. CASE UNCHANGED vars
      BY <2>4 DEF vars, RegistryInv, TypeOK
    <2>5. QED
      BY <2>1, <2>2, <2>3, <2>4 DEF Next
  <1>2. QED
    BY <1>1, InitRegistryInv, PTL DEF Spec

\* No lookup ever leads outside the vector.
THEOREM TypeCorrect == Spec => []TypeOK
  BY RegistryInvariant, PTL DEF RegistryInv

\* What the invariant says of the two accessors.
LEMMA InvImpliesLookupsAgree == RegistryInv => LookupsAgree
  <1> SUFFICES ASSUME RegistryInv PROVE LookupsAgree
    OBVIOUS
  <1>1. ASSUME NEW c \in DOMAIN clientEntityLookup
        PROVE  GetClientId(GetEntity(c)) = c
    BY <1>1 DEF RegistryInv, TypeOK, IsMap, GetClientId, GetEntity
  <1>2. ASSUME NEW e \in DOMAIN entityClientLookup
        PROVE  GetEntity(GetClientId(e)) = e
    BY <1>2 DEF RegistryInv, GetClientId, GetEntity
  <1>3. QED
    BY <1>1, <1>2 DEF LookupsAgree

\* getClientId and getEntity are inverse of each other in every reachable state.
THEOREM LookupsAlwaysAgree == Spec => []LookupsAgree
  BY RegistryInvariant, InvImpliesLookupsAgree, PTL

\* What the invariant says of the vector.
LEMMA InvImpliesListedOnce == RegistryInv => EachClientListedOnce
  <1> SUFFICES ASSUME RegistryInv PROVE EachClientListedOnce
    OBVIOUS
  <1>1. ASSUME NEW i \in 1..Len(entities)
        PROVE  \E c \in DOMAIN clientEntityLookup : GetEntity(c) = entities[i]
    <2>1. /\ entityClientLookup[entities[i]] \in DOMAIN clientEntityLookup
          /\ GetEntity(entityClientLookup[entities[i]]) = entities[i]
      BY DEF RegistryInv, GetEntity
    <2>2. QED
      BY <2>1
  <1>2. ASSUME NEW c \in DOMAIN clientEntityLookup
        PROVE  \E i \in 1..Len(entities) : entities[i] = GetEntity(c)
    BY DEF RegistryInv, TypeOK, IsMap, GetEntity
  <1>3. \A i, j \in 1..Len(entities) : entities[i] = entities[j] => i = j
    BY DEF RegistryInv
  <1>4. Registered = {GetEntity(c) : c \in DOMAIN clientEntityLookup}
    BY <1>1, <1>2 DEF Registered
  <1>5. QED
    BY <1>3, <1>4 DEF EachClientListedOnce, RegistryInv

\* A broadcast over getAllEntities reaches every registered client exactly once.
THEOREM ClientsAlwaysListedOnce == Spec => []EachClientListedOnce
  BY RegistryInvariant, InvImpliesListedOnce, PTL

-----------------------------------------------------------------------------
\* The entities of the abstract map are those of the vector.
LEMMA OwnersAreRegistered == RegistryInv => Map!Owners = DOMAIN entityClientLookup
  <1> SUFFICES ASSUME RegistryInv PROVE Map!Owners = DOMAIN entityClientLookup
    OBVIOUS
  <1>1. ASSUME NEW c \in DOMAIN clientEntityLookup
        PROVE  clients[c] \in DOMAIN entityClientLookup
    BY DEF clients, GetEntity, RegistryInv, TypeOK, IsMap
  <1>2. ASSUME NEW e \in DOMAIN entityClientLookup
        PROVE  \E c \in DOMAIN clients : clients[c] = e
    BY DEF clients, GetEntity, RegistryInv
  <1>3. QED
    BY <1>1, <1>2 DEF Map!Owners, clients

\* Registering a client is registering it in the map.
LEMMA RegisterRefines ==
  ASSUME RegistryInv, RegistryInv', NEW e \in Entities, Register(e)
  PROVE  Map!Register(e)
  <1>1. /\ e \notin DOMAIN entityClientLookup
        /\ entities' = Append(entities, e)
        /\ clientEntityLookup' =
             InsertOrAssign(clientEntityLookup, nextClientId, Len(entities) + 1)
        /\ nextClientId' = nextClientId + 1
    BY DEF Register, AddClientId, GetClientId, RegistryInv, TypeOK, IsMap, NullClientId, ClientIds
  <1>2. e \notin Map!Owners
    BY <1>1, OwnersAreRegistered
  <1>3. /\ Len(entities) \in Nat
        /\ \A i \in 1..Len(entities) : entities'[i] = entities[i]
        /\ entities'[Len(entities) + 1] = e
    BY <1>1 DEF RegistryInv, TypeOK
  <1>4. \A c \in DOMAIN clientEntityLookup :
          clientEntityLookup[c] \in 1..Len(entities) /\ c # nextClientId
    BY DEF RegistryInv, TypeOK, IsMap, ClientIds
  <1>5. clients' = [c \in DOMAIN clients \cup {nextClientId} |->
                      IF c = nextClientId THEN e ELSE clients[c]]
    BY <1>1, <1>3, <1>4 DEF clients, GetEntity, InsertOrAssign
  <1>6. QED
    BY <1>1, <1>2, <1>5 DEF Map!Register

\* Removing a client is forgetting it in the map.  The two invariants pin the
\* new lookup down: its clients are those the reverse lookup still names.
LEMMA UnregisterRefines ==
  ASSUME RegistryInv, RegistryInv', NEW e \in Entities, Unregister(e)
  PROVE  \E c \in DOMAIN clients : Map!Forget(c)
  <1> DEFINE c == entityClientLookup[e]
  <1>1. /\ e \in DOMAIN entityClientLookup
        /\ GetClientId(e) = c
        /\ nextClientId' = nextClientId
    BY DEF Unregister, GetClientId
  <1>2. /\ c \in DOMAIN clientEntityLookup
        /\ entities[clientEntityLookup[c]] = e
    BY <1>1 DEF RegistryInv
  <1>3. entityClientLookup' = Erase(entityClientLookup, e)
    BY <1>1, <1>2 DEF Unregister, RemoveClientId, ForgetOwner
  <1>4. /\ DOMAIN entityClientLookup' = DOMAIN entityClientLookup \ {e}
        /\ \A f \in DOMAIN entityClientLookup' :
             entityClientLookup'[f] = entityClientLookup[f]
    BY <1>3 DEF Erase
  <1>5. ASSUME NEW d \in DOMAIN clientEntityLookup'
        PROVE  /\ d \in DOMAIN clientEntityLookup
               /\ d # c
               /\ entities'[clientEntityLookup'[d]] = entities[clientEntityLookup[d]]
    <2> DEFINE f == entities'[clientEntityLookup'[d]]
    <2>1. f \in DOMAIN entityClientLookup' /\ entityClientLookup'[f] = d
      BY DEF RegistryInv, TypeOK, IsMap
    <2>2. f \in DOMAIN entityClientLookup /\ f # e /\ entityClientLookup[f] = d
      BY <2>1, <1>4
    <2>3. d \in DOMAIN clientEntityLookup /\ entities[clientEntityLookup[d]] = f
      BY <2>2 DEF RegistryInv
    <2>4. QED
      BY <2>2, <2>3, <1>2
  <1>6. ASSUME NEW d \in DOMAIN clientEntityLookup, d # c
        PROVE  d \in DOMAIN clientEntityLookup'
    <2> DEFINE f == entities[clientEntityLookup[d]]
    <2>1. f \in DOMAIN entityClientLookup /\ entityClientLookup[f] = d
      BY DEF RegistryInv, TypeOK, IsMap
    <2>2. f \in DOMAIN entityClientLookup' /\ entityClientLookup'[f] = d
      BY <2>1, <1>4, <1>6
    <2>3. QED
      BY <2>2 DEF RegistryInv
  <1>7. clients' = [d \in DOMAIN clients \ {c} |-> clients[d]]
    <2>1. DOMAIN clientEntityLookup' = DOMAIN clientEntityLookup \ {c}
      BY <1>5, <1>6
    <2>2. QED
      BY <2>1, <1>5 DEF clients, GetEntity
  <1>8. c \in DOMAIN clients
    BY <1>2 DEF clients
  <1>9. QED
    BY <1>1, <1>7, <1>8 DEF Map!Forget

\* The registry implements the one-to-one map: initial states map to initial
\* states and every step to a step of the map or a stutter.
THEOREM RegistryImplementsClientMap == Spec => ImplementsClientMap
  <1>1. Init => Map!Init
    BY DEF Init, Map!Init, clients, EmptyMap
  <1>2. RegistryInv /\ RegistryInv' /\ [Next]_vars => [Map!Next]_(Map!vars)
    <2> SUFFICES ASSUME RegistryInv, RegistryInv', [Next]_vars
                 PROVE  [Map!Next]_(Map!vars)
      OBVIOUS
    <2>1. ASSUME NEW e \in Entities, Register(e)
          PROVE  [Map!Next]_(Map!vars)
      BY <2>1, RegisterRefines DEF Map!Next
    <2>2. ASSUME NEW e \in Entities, Unregister(e)
          PROVE  [Map!Next]_(Map!vars)
      BY <2>2, UnregisterRefines DEF Map!Next
    <2>3. CASE Restart
      <3>1. clients' = [c \in {} |-> c]
        BY <2>3 DEF Restart, ResetRegistry, EmptyMap, clients
      <3>2. QED
        BY <2>3, <3>1 DEF Restart, Map!Restart, Map!Next
    <2>4. CASE UNCHANGED vars
      BY <2>4 DEF vars, Map!vars, clients, GetEntity
    <2>5. QED
      BY <2>1, <2>2, <2>3, <2>4 DEF Next
  <1>3. QED
    BY <1>1, <1>2, RegistryInvariant, PTL DEF Spec, ImplementsClientMap, Map!Spec
=============================================================================
