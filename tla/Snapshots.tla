------------------------------ MODULE Snapshots ------------------------------
(***************************************************************************)
(* What clients see of network components: the server adds components to   *)
(* its network entities and keeps their ids sorted, sends a snapshot of    *)
(* all of them at the end of each tick, and a client merges the snapshots  *)
(* that a tick of its own receives into one of two.                        *)
(*                                                                         *)
(* The server's application may change a component in every tick: a value  *)
(* is known by the tick of the snapshot it was sent in, the last of which  *)
(* stands for all later ones.  Queries visit entities in any order, and    *)
(* what a snapshot holds does not depend on it: a snapshot is the set of   *)
(* its pairs of a network id and a component id.                           *)
(***************************************************************************)
EXTENDS SpawnDespawnManager, SequencesExt

CONSTANTS
  ComponentIds,  \* ids of the types of network components
  MaxTicks,      \* ticks told apart
  Capacity,      \* bound on the snapshots on their way to the client
  Watched        \* the network ids whose components are followed

ASSUME SnapshotsAssumption ==
  /\ ComponentIds \subseteq Nat
  /\ MaxTicks \in Nat \ {0}
  /\ Capacity \in Nat \ {0}
  /\ Watched \subseteq NetworkIds

VARIABLES
  components,      \* the network components of each entity, in the ECS
  componentIds,    \* m_componentsId of its NetworkComponentIdBuffer
  tick,            \* snapshots made so far
  stream,          \* snapshots sent and not received
  snapshots,       \* m_firstSnapshot (0) and m_secondSnapshot (1)
  lastSnapshotId,  \* m_lastSnapshotId
  shown            \* history: the snapshot that became the current state

componentVars == <<components, componentIds>>
clientVars == <<stream, snapshots, lastSnapshotId, shown>>
snapshotsVars == <<vars, componentVars, tick, clientVars>>

\* What becomes of a pair does not depend on the pairs of other entities.
Pairs == Watched \X ComponentIds

NoSnapshot == [tick |-> 0, pairs |-> {}]

NoComponents == [n \in Watched |-> {}]
NoComponentIds == [n \in Watched |-> <<>>]

EmptySnapshots == [s \in {0, 1} |-> [p \in Pairs |-> 0]]

SnapshotsInit ==
  /\ Init
  /\ components = NoComponents /\ componentIds = NoComponentIds
  /\ tick = 0 /\ stream = <<>> /\ shown = NoSnapshot
  /\ snapshots = EmptySnapshots /\ lastSnapshotId = 0

-----------------------------------------------------------------------------
\* The parts of a vector: where one begins, and its length.
Parts(ids) ==
  {part \in (1..(Len(ids) + 1)) \X (0..Len(ids)) : part[1] + part[2] <= Len(ids) + 1}

\* std::lower_bound, by halving: the first position not below c, when ids are
\* sorted.
LowerBound(ids, c) ==
  LET search[part \in Parts(ids)] ==
        LET from   == part[1]
            length == part[2]
            half   == length \div 2
        IN IF length = 0 THEN from
           ELSE IF ids[from + half] < c THEN search[<<from + half + 1, length - half - 1>>]
           ELSE search[<<from, half>>]
  IN search[<<1, Len(ids)>>]

\* networkComponentIdBufferHasId.
HasId(ids, c) == LowerBound(ids, c) <= Len(ids) /\ ids[LowerBound(ids, c)] = c

\* Mutated form: the ids are not sorted again.
Pushed(ids, c) == Append(ids, c)

\* std::sort: the elements in an order in which none is less than one before it.
Sorted(ids) ==
  CHOOSE sorted \in {[i \in DOMAIN ids |-> ids[p[i]]] : p \in Bijection(DOMAIN ids, DOMAIN ids)} :
    \A i, j \in DOMAIN ids : i < j => sorted[i] <= sorted[j]

AddId(ids, c) == Sorted(Append(ids, c))

RemoveId(ids, c) == IF HasId(ids, c) THEN RemoveAt(ids, LowerBound(ids, c)) ELSE ids

AddNetworkComponent(n, c) ==
  /\ n \in networkIds /\ c \notin components[n]
  /\ componentIds' = [componentIds EXCEPT ![n] = IF HasId(@, c) THEN @ ELSE AddId(@, c)]
  /\ components' = [components EXCEPT ![n] = @ \cup {c}]
  /\ UNCHANGED <<vars, tick, clientVars>>

RemoveNetworkComponent(n, c) ==
  /\ n \in networkIds /\ c \in components[n]
  /\ componentIds' = [componentIds EXCEPT ![n] = RemoveId(@, c)]
  /\ components' = [components EXCEPT ![n] = @ \ {c}]
  /\ UNCHANGED <<vars, tick, clientVars>>

Create ==
  /\ CreateNetworkEntity
  /\ UNCHANGED <<componentVars, tick, clientVars>>

\* The entity goes with its components.
Destroy(n) ==
  /\ DestroyNetworkEntity(n)
  /\ components' = [m \in Watched |-> IF m = n THEN {} ELSE components[m]]
  /\ componentIds' = [m \in Watched |-> IF m = n THEN <<>> ELSE componentIds[m]]
  /\ UNCHANGED <<tick, clientVars>>

-----------------------------------------------------------------------------
\* The components SendSnapshotSystem finds: those of the ids in the buffers.
SentPairs ==
  {p \in Pairs : p[1] \in networkIds /\ Contains(componentIds[p[1]], p[2])}

\* The end of a tick: the news goes out, and after it a snapshot.
EndUpdate ==
  /\ EndOfTick
  /\ Len(stream) < Capacity
  /\ tick' = IF tick < MaxTicks THEN tick + 1 ELSE tick
  /\ stream' = Append(stream, [tick |-> tick', pairs |-> SentPairs])
  /\ UNCHANGED <<componentVars, snapshots, lastSnapshotId, shown>>

\* Mutated form: the last snapshot is written.
LastSnapshot(last) == last

\* The snapshot that is not the last is written.
Target(last) == IF last # 0 THEN 0 ELSE 1

\* Mutated forms: the last snapshot stays the last; its number counts on.
SameSnapshot(last) == last
NextSnapshot(last) == last + 1

OtherSnapshot(last) == IF last = 0 THEN 1 ELSE 0

\* What a message does not hold stays as it is.
Merge(map, message) ==
  [p \in Pairs |-> IF p \in message.pairs THEN message.tick ELSE map[p]]

\* ReceiveSnapshotSystem, in a tick of the client that received messages: the
\* first becomes the current state, the second goes to the other snapshot, and
\* the rest is dropped.
ReceiveSnapshots ==
  \E received \in 1..Len(stream) :
    LET last  == OtherSnapshot(lastSnapshotId)
        first == [snapshots EXCEPT ![Target(lastSnapshotId)] = Merge(@, stream[1])]
    IN /\ snapshots' = IF received > 1
                       THEN [first EXCEPT ![Target(last)] = Merge(@, stream[2])]
                       ELSE first
       /\ lastSnapshotId' = last
       /\ shown' = stream[1]
       /\ stream' = SubSeq(stream, received + 1, Len(stream))
       /\ UNCHANGED <<vars, componentVars, tick>>

\* The server stops and starts, and the client connects again.
Restart ==
  /\ StopAndStart
  /\ components' = NoComponents /\ componentIds' = NoComponentIds
  /\ tick' = 0 /\ stream' = <<>> /\ shown' = NoSnapshot
  /\ snapshots' = EmptySnapshots /\ lastSnapshotId' = 0

SnapshotsNext ==
  \/ Create
  \/ \E n \in NetworkIds : Destroy(n)
  \/ \E n \in Watched, c \in ComponentIds :
       AddNetworkComponent(n, c) \/ RemoveNetworkComponent(n, c)
  \/ EndUpdate
  \/ ReceiveSnapshots
  \/ Restart

SnapshotsSpec == SnapshotsInit /\ [][SnapshotsNext]_snapshotsVars

\* Both loops run, and what was sent arrives some day.
SnapshotsFairSpec ==
  SnapshotsSpec /\ WF_snapshotsVars(EndUpdate) /\ WF_snapshotsVars(ReceiveSnapshots)

-----------------------------------------------------------------------------
\* getNetworkComponentFromSnapshot of the last snapshot; 0 is nullptr.
CurrentState(p) == snapshots[lastSnapshotId][p]

\* Every variable has its type, and there are two snapshots, of which one is
\* the last.
SnapshotsTypeOK ==
  /\ components \in [Watched -> SUBSET ComponentIds]
  /\ componentIds \in [Watched -> Seq(ComponentIds)]
  /\ tick \in 0..MaxTicks
  /\ stream \in Seq([tick : 1..MaxTicks, pairs : SUBSET Pairs])
  /\ snapshots \in [{0, 1} -> [Pairs -> 0..MaxTicks]]
  /\ lastSnapshotId \in {0, 1}
  /\ shown = NoSnapshot \/ shown \in [tick : 1..MaxTicks, pairs : SUBSET Pairs]

\* The ids SendSnapshotSystem follows to components are those of the components
\* the entity has, each once: none is followed to a component that is gone, and
\* none is left out.  The binary search finds them because they are sorted.
IdsMatchComponents ==
  \A n \in Watched :
    /\ ToSet(componentIds[n]) = components[n]
    /\ \A i, j \in DOMAIN componentIds[n] : i < j => componentIds[n][i] < componentIds[n][j]
    /\ n \notin networkIds => componentIds[n] = <<>>

\* The current state has everything of the one snapshot it was made of, also
\* when a tick receives a second one: two snapshots are never mixed in what
\* the server still had.
CurrentIsShown == \A p \in shown.pairs : CurrentState(p) = shown.tick

\* The two snapshots are merged into and never cleared, so that a component that
\* was removed alternates between its last values in both.  It is the only one
\* that does: what the shown snapshot holds is never seen to go back.
OnlyTheGoneGoBack ==
  [][\A p \in Pairs :
       shown' # NoSnapshot /\ CurrentState(p)' < CurrentState(p) => p \notin shown'.pairs]_snapshotsVars

\* A component that stays is seen at last as it is, and from then on, whatever
\* number of snapshots a tick receives and whatever it drops.
Converges ==
  \A p \in Pairs :
    <>[](p[2] \in components[p[1]]) => <>[](CurrentState(p) = MaxTicks)
=============================================================================
