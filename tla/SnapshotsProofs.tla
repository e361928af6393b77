--------------------------- MODULE SnapshotsProofs ---------------------------
(***************************************************************************)
(* What a client sees of components, for every number of components, ticks *)
(* and snapshots on their way: the current state has all of the snapshot   *)
(* that was shown last, and goes back only where that snapshot is silent.  *)
(* Both follow from the order of the ticks: what is in the two snapshots   *)
(* is not later than what is on its way, and that is in the order it was   *)
(* sent.                                                                   *)
(*                                                                         *)
(* And what the server sends of: the ids in a buffer are those of its      *)
(* entity's components.  They stay sorted, so that the binary search finds *)
(* an id that is there, and what is found is what goes.                    *)
(***************************************************************************)
EXTENDS Snapshots, SpawnDespawnManagerProofs, Induction

SnapshotMessages == [tick : 1..MaxTicks, pairs : SUBSET Pairs]

ShownTypeOK ==
  /\ tick \in 0..MaxTicks
  /\ stream \in Seq(SnapshotMessages)
  /\ snapshots \in [{0, 1} -> [Pairs -> 0..MaxTicks]]
  /\ lastSnapshotId \in {0, 1}
  /\ shown = NoSnapshot \/ shown \in SnapshotMessages

StreamInOrder ==
  /\ \A i, j \in 1..Len(stream) : i <= j => stream[i].tick <= stream[j].tick
  /\ \A i \in 1..Len(stream) : stream[i].tick <= tick

NothingIsLater ==
  \A s \in {0, 1}, p \in Pairs :
    /\ snapshots[s][p] <= tick
    /\ \A i \in 1..Len(stream) : snapshots[s][p] <= stream[i].tick

ShownInv == ShownTypeOK /\ StreamInOrder /\ NothingIsLater /\ CurrentIsShown

-----------------------------------------------------------------------------
\* A message is of a tick and holds pairs that are followed.
LEMMA MessageType ==
  ASSUME NEW message \in SnapshotMessages
  PROVE  message.tick \in Nat /\ message.tick <= MaxTicks /\ message.pairs \subseteq Pairs
  BY SnapshotsAssumption DEF SnapshotMessages, SnapshotsAssumption

\* A snapshot that takes in a message keeps its type, and what it holds is what
\* it held or of the tick of the message.
LEMMA MergeEffect ==
  ASSUME NEW map \in [Pairs -> 0..MaxTicks], NEW message \in SnapshotMessages
  PROVE  /\ Merge(map, message) \in [Pairs -> 0..MaxTicks]
         /\ \A p \in Pairs : Merge(map, message)[p] =
                            IF p \in message.pairs THEN message.tick ELSE map[p]
  BY SnapshotsAssumption DEF Merge, SnapshotMessages, SnapshotsAssumption

\* Nothing was sent or shown when a server starts.
LEMMA InitShownInv == SnapshotsInit => ShownInv
  BY SnapshotsAssumption
  DEF SnapshotsInit, ShownInv, ShownTypeOK, StreamInOrder, NothingIsLater, CurrentIsShown,
      NoSnapshot, EmptySnapshots, CurrentState, SnapshotsAssumption

\* A new server and a new connection have shown nothing.
LEMMA RestartKeepsShown == Restart => ShownInv'
  BY SnapshotsAssumption
  DEF Restart, ShownInv, ShownTypeOK, StreamInOrder, NothingIsLater, CurrentIsShown,
      NoSnapshot, EmptySnapshots, CurrentState, SnapshotsAssumption

\* Without a snapshot sent or received everything stays as it is.
LEMMA SilenceKeepsShown ==
  ASSUME ShownInv, UNCHANGED <<tick, stream, snapshots, lastSnapshotId, shown>>
  PROVE  ShownInv'
  BY DEF ShownInv, ShownTypeOK, StreamInOrder, NothingIsLater, CurrentIsShown, CurrentState

\* A snapshot that is sent is the last of the stream and no earlier than any.
LEMMA EndUpdateKeepsShown ==
  ASSUME ShownInv, EndUpdate
  PROVE  ShownInv'
  <1> DEFINE message == [tick |-> tick', pairs |-> SentPairs]
             n == Len(stream)
  <1>1. tick' \in 1..MaxTicks /\ tick <= tick' /\ tick \in Nat
    BY SnapshotsAssumption DEF EndUpdate, ShownInv, ShownTypeOK, SnapshotsAssumption
  <1>2. message \in SnapshotMessages
    BY <1>1 DEF SnapshotMessages, SentPairs
  <1>3. /\ n \in Nat /\ stream' = Append(stream, message)
        /\ UNCHANGED <<snapshots, lastSnapshotId, shown>>
    BY DEF EndUpdate, ShownInv, ShownTypeOK
  <1>4. /\ stream' \in Seq(SnapshotMessages) /\ Len(stream') = n + 1
        /\ \A i \in 1..n : stream'[i] = stream[i] /\ stream[i].tick \in Nat
        /\ stream'[n + 1] = message
    <2>1. stream \in Seq(SnapshotMessages)
      BY DEF ShownInv, ShownTypeOK
    <2>2. \A i \in 1..n : stream[i] \in SnapshotMessages
      BY <2>1
    <2>3. \A i \in 1..n : stream[i].tick \in Nat
      BY <2>2, MessageType
    <2> HIDE DEF message
    <2>4. QED
      BY <2>1, <2>3, <1>2, <1>3
  <1>5. ShownTypeOK'
    BY <1>1, <1>3, <1>4 DEF ShownInv, ShownTypeOK
  <1>6. StreamInOrder'
    <2>1. \A i \in 1..(n + 1) : stream'[i].tick <= tick'
      BY <1>1, <1>4 DEF ShownInv, StreamInOrder
    <2>2. ASSUME NEW i \in 1..(n + 1), NEW j \in 1..(n + 1), i <= j
          PROVE  stream'[i].tick <= stream'[j].tick
      <3>1. CASE j = n + 1
        BY <2>1, <3>1, <1>4
      <3>2. CASE j \in 1..n
        BY <2>2, <3>2, <1>3, <1>4 DEF ShownInv, StreamInOrder
      <3>3. QED
        BY <3>1, <3>2, <1>3
    <2>3. QED
      BY <2>1, <2>2, <1>4 DEF StreamInOrder
  <1>7. NothingIsLater'
    <2>1. ASSUME NEW s \in {0, 1}, NEW p \in Pairs
          PROVE  /\ snapshots'[s][p] <= tick'
                 /\ \A i \in 1..(n + 1) : snapshots'[s][p] <= stream'[i].tick
      <3>1. snapshots'[s][p] = snapshots[s][p] /\ snapshots[s][p] \in Nat
        BY <1>3 DEF ShownInv, ShownTypeOK
      <3>2. snapshots[s][p] <= tick /\ \A i \in 1..n : snapshots[s][p] <= stream[i].tick
        BY DEF ShownInv, NothingIsLater
      <3>3. QED
        BY <3>1, <3>2, <1>1, <1>3, <1>4
    <2>2. QED
      BY <2>1, <1>4 DEF NothingIsLater
  <1>8. CurrentIsShown'
    BY <1>3 DEF ShownInv, CurrentIsShown, CurrentState
  <1>9. QED
    BY <1>5, <1>6, <1>7, <1>8 DEF ShownInv

\* What a tick that receives snapshots does to the two: the one that was not the
\* last takes in the first message and becomes the last, the other may take in
\* the second.
LEMMA ReceiveEffect ==
  ASSUME ShownInv, ReceiveSnapshots
  PROVE  \E received \in 1..Len(stream) :
           /\ shown' = stream[1] /\ stream[1] \in SnapshotMessages
           /\ stream' = SubSeq(stream, received + 1, Len(stream))
           /\ lastSnapshotId' = OtherSnapshot(lastSnapshotId)
           /\ snapshots' \in [{0, 1} -> [Pairs -> 0..MaxTicks]]
           /\ snapshots'[lastSnapshotId'] =
                Merge(snapshots[OtherSnapshot(lastSnapshotId)], stream[1])
           /\ snapshots'[lastSnapshotId] =
                IF received > 1 THEN Merge(snapshots[lastSnapshotId], stream[2])
                ELSE snapshots[lastSnapshotId]
           /\ UNCHANGED tick
  <1> DEFINE last  == OtherSnapshot(lastSnapshotId)
             first == [snapshots EXCEPT ![Target(lastSnapshotId)] = Merge(@, stream[1])]
  <1>1. PICK received \in 1..Len(stream) :
          /\ snapshots' = IF received > 1
                          THEN [first EXCEPT ![Target(last)] = Merge(@, stream[2])]
                          ELSE first
          /\ lastSnapshotId' = last
          /\ shown' = stream[1]
          /\ stream' = SubSeq(stream, received + 1, Len(stream))
          /\ UNCHANGED tick
    BY DEF ReceiveSnapshots
  <1>2. /\ lastSnapshotId \in {0, 1} /\ last \in {0, 1} /\ last # lastSnapshotId
        /\ Target(lastSnapshotId) = last /\ Target(last) = lastSnapshotId
    BY DEF ShownInv, ShownTypeOK, OtherSnapshot, Target
  <1>3. /\ Len(stream) \in Nat /\ stream[1] \in SnapshotMessages
        /\ received > 1 => stream[2] \in SnapshotMessages
    BY DEF ShownInv, ShownTypeOK
  <1>4. snapshots \in [{0, 1} -> [Pairs -> 0..MaxTicks]]
    BY DEF ShownInv, ShownTypeOK
  <1>5. Merge(snapshots[last], stream[1]) \in [Pairs -> 0..MaxTicks]
    BY <1>2, <1>3, <1>4, MergeEffect
  <1>6. /\ first \in [{0, 1} -> [Pairs -> 0..MaxTicks]]
        /\ first[last] = Merge(snapshots[last], stream[1])
        /\ first[lastSnapshotId] = snapshots[lastSnapshotId]
    BY <1>2, <1>4, <1>5
  <1>7. received > 1 => Merge(snapshots[lastSnapshotId], stream[2]) \in [Pairs -> 0..MaxTicks]
    BY <1>2, <1>3, <1>4, MergeEffect
  <1> HIDE DEF first, last
  <1>8. /\ snapshots' \in [{0, 1} -> [Pairs -> 0..MaxTicks]]
        /\ snapshots'[last] = Merge(snapshots[last], stream[1])
        /\ snapshots'[lastSnapshotId] =
             IF received > 1 THEN Merge(snapshots[lastSnapshotId], stream[2])
             ELSE snapshots[lastSnapshotId]
    <2>1. CASE received > 1
      BY <2>1, <1>1, <1>2, <1>6, <1>7
    <2>2. CASE ~(received > 1)
      BY <2>2, <1>1, <1>6
    <2>3. QED
      BY <2>1, <2>2
  <1>9. QED
    BY <1>1, <1>3, <1>8 DEF last

\* Receiving keeps the order: what is taken in is no later than what is left.
LEMMA ReceiveKeepsShown ==
  ASSUME ShownInv, ReceiveSnapshots
  PROVE  ShownInv'
  <1> DEFINE last == OtherSnapshot(lastSnapshotId)
  <1>1. PICK received \in 1..Len(stream) :
          /\ shown' = stream[1] /\ stream[1] \in SnapshotMessages
          /\ stream' = SubSeq(stream, received + 1, Len(stream))
          /\ lastSnapshotId' = last
          /\ snapshots' \in [{0, 1} -> [Pairs -> 0..MaxTicks]]
          /\ snapshots'[lastSnapshotId'] = Merge(snapshots[last], stream[1])
          /\ snapshots'[lastSnapshotId] =
               IF received > 1 THEN Merge(snapshots[lastSnapshotId], stream[2])
               ELSE snapshots[lastSnapshotId]
          /\ UNCHANGED tick
    BY ReceiveEffect
  <1>2. /\ lastSnapshotId \in {0, 1} /\ last \in {0, 1} /\ last # lastSnapshotId
        /\ snapshots \in [{0, 1} -> [Pairs -> 0..MaxTicks]]
        /\ stream \in Seq(SnapshotMessages) /\ Len(stream) \in Nat /\ tick \in Nat
    BY DEF ShownInv, ShownTypeOK, OtherSnapshot
  <1>3. \A i \in 1..Len(stream) : stream[i] \in SnapshotMessages /\ stream[i].tick \in Nat
    <2>1. \A i \in 1..Len(stream) : stream[i] \in SnapshotMessages
      BY <1>2
    <2>2. QED
      BY <2>1, MessageType
  <1>4. /\ stream' \in Seq(SnapshotMessages)
        /\ Len(stream') = Len(stream) - received
        /\ \A i \in 1..Len(stream') : /\ received + i \in 1..Len(stream)
                                      /\ stream'[i] = stream[received + i]
    BY <1>1, <1>2
  <1>5. ShownTypeOK'
    BY <1>1, <1>2, <1>4 DEF ShownInv, ShownTypeOK
  <1>6. StreamInOrder'
    <2>1. \A i \in 1..Len(stream') : stream'[i].tick <= tick'
      BY <1>1, <1>4 DEF ShownInv, StreamInOrder
    <2>2. ASSUME NEW i \in 1..Len(stream'), NEW j \in 1..Len(stream'), i <= j
          PROVE  stream'[i].tick <= stream'[j].tick
      <3>1. received + i <= received + j
        BY <2>2
      <3>2. QED
        BY <3>1, <1>4 DEF ShownInv, StreamInOrder
    <2>3. QED
      BY <2>1, <2>2 DEF StreamInOrder
  <1>7. NothingIsLater'
    <2>1. ASSUME NEW s \in {0, 1}, NEW p \in Pairs
          PROVE  \/ snapshots'[s][p] = snapshots[s][p]
                 \/ snapshots'[s][p] = stream[1].tick
                 \/ received > 1 /\ snapshots'[s][p] = stream[2].tick
      <3>1. CASE s = last
        <4>1. /\ snapshots[s] \in [Pairs -> 0..MaxTicks]
              /\ snapshots'[s] = Merge(snapshots[s], stream[1])
          BY <3>1, <1>1, <1>2
        <4>2. stream[1] \in SnapshotMessages
          BY <1>1
        <4>3. Merge(snapshots[s], stream[1])[p] =
                IF p \in stream[1].pairs THEN stream[1].tick ELSE snapshots[s][p]
          BY <4>1, <4>2, MergeEffect, Zenon
        <4>4. QED
          BY <4>1, <4>3
      <3>2. CASE s = lastSnapshotId
        <4>1. CASE received > 1
          <5>1. stream[2] \in SnapshotMessages
            BY <4>1, <1>2, <1>3
          <5>2. /\ snapshots[s] \in [Pairs -> 0..MaxTicks]
                /\ snapshots'[s] = Merge(snapshots[s], stream[2])
            BY <3>2, <4>1, <1>1, <1>2
          <5>3. Merge(snapshots[s], stream[2])[p] =
                  IF p \in stream[2].pairs THEN stream[2].tick ELSE snapshots[s][p]
            BY <5>1, <5>2, MergeEffect, Zenon
          <5>4. QED
            BY <4>1, <5>2, <5>3
        <4>2. CASE ~(received > 1)
          BY <3>2, <4>2, <1>1
        <4>3. QED
          BY <4>1, <4>2
      <3>3. QED
        BY <3>1, <3>2, <1>2
    <2>2. ASSUME NEW s \in {0, 1}, NEW p \in Pairs
          PROVE  /\ snapshots'[s][p] <= tick'
                 /\ \A i \in 1..Len(stream') : snapshots'[s][p] <= stream'[i].tick
      <3>1. /\ snapshots[s][p] <= tick /\ stream[1].tick <= tick
            /\ received > 1 => stream[2].tick <= tick
        BY <1>2 DEF ShownInv, NothingIsLater, StreamInOrder
      <3>2. ASSUME NEW i \in 1..Len(stream')
            PROVE  snapshots'[s][p] <= stream'[i].tick
        <4>1. stream'[i] = stream[received + i] /\ received + i \in 1..Len(stream)
          BY <1>4
        <4>2. /\ snapshots[s][p] <= stream[received + i].tick
              /\ stream[1].tick <= stream[received + i].tick
              /\ received > 1 => stream[2].tick <= stream[received + i].tick
          <5>1. snapshots[s][p] <= stream[received + i].tick
            BY <4>1 DEF ShownInv, NothingIsLater
          <5>2. 1 \in 1..Len(stream) /\ 1 <= received + i
            BY <1>2, <4>1
          <5>3. received > 1 => 2 \in 1..Len(stream) /\ 2 <= received + i
            BY <1>2, <4>1
          <5>4. QED
            BY <4>1, <5>1, <5>2, <5>3 DEF ShownInv, StreamInOrder
        <4>3. QED
          BY <2>1, <4>1, <4>2
      <3>3. QED
        BY <2>1, <3>1, <3>2, <1>1
    <2>3. QED
      BY <2>2 DEF NothingIsLater
  <1>8. CurrentIsShown'
    <2>1. snapshots[last] \in [Pairs -> 0..MaxTicks]
      BY <1>2
    <2>2. stream[1].pairs \subseteq Pairs
      BY <1>1, MessageType
    <2>3. \A p \in stream[1].pairs : snapshots'[lastSnapshotId'][p] = stream[1].tick
      BY <2>1, <2>2, <1>1, MergeEffect
    <2>4. QED
      BY <2>3, <1>1 DEF CurrentIsShown, CurrentState
  <1>9. QED
    BY <1>5, <1>6, <1>7, <1>8 DEF ShownInv

\* Every step of the server and of the client keeps the invariant.
LEMMA NextShownInv == ShownInv /\ [SnapshotsNext]_snapshotsVars => ShownInv'
  <1> SUFFICES ASSUME ShownInv, [SnapshotsNext]_snapshotsVars PROVE ShownInv'
    OBVIOUS
  <1>1. CASE Create
    BY <1>1, SilenceKeepsShown DEF Create, clientVars
  <1>2. CASE \E n \in NetworkIds : Destroy(n)
    BY <1>2, SilenceKeepsShown DEF Destroy, clientVars
  <1>3. CASE \E n \in Watched, c \in ComponentIds :
               AddNetworkComponent(n, c) \/ RemoveNetworkComponent(n, c)
    BY <1>3, SilenceKeepsShown DEF AddNetworkComponent, RemoveNetworkComponent, clientVars
  <1>4. CASE EndUpdate
    BY <1>4, EndUpdateKeepsShown
  <1>5. CASE ReceiveSnapshots
    BY <1>5, ReceiveKeepsShown
  <1>6. CASE Restart
    BY <1>6, RestartKeepsShown
  <1>7. CASE UNCHANGED snapshotsVars
    BY <1>7, SilenceKeepsShown DEF snapshotsVars, clientVars
  <1>8. QED
    BY <1>1, <1>2, <1>3, <1>4, <1>5, <1>6, <1>7 DEF SnapshotsNext

LEMMA ShownInvariant == SnapshotsSpec => []ShownInv
  <1>1. QED
    BY InitShownInv, NextShownInv, PTL DEF SnapshotsSpec

-----------------------------------------------------------------------------
\* The current state of a client has all of the snapshot shown last, however
\* many snapshots its ticks received and dropped before.
THEOREM CurrentAlwaysShown == SnapshotsSpec => []CurrentIsShown
  <1>1. ShownInv => CurrentIsShown
    BY DEF ShownInv
  <1>2. QED
    BY ShownInvariant, <1>1, PTL

\* A component the shown snapshot holds is never seen to go back: what was seen
\* before is no later than the first message of the stream.
THEOREM NothingShownGoesBack == SnapshotsSpec => OnlyTheGoneGoBack
  <1> DEFINE Forward ==
        \A p \in Pairs :
          shown' # NoSnapshot /\ CurrentState(p)' < CurrentState(p) => p \notin shown'.pairs
  <1>1. ShownInv /\ [SnapshotsNext]_snapshotsVars => [Forward]_snapshotsVars
    <2> SUFFICES ASSUME ShownInv, SnapshotsNext, NEW p \in Pairs,
                        shown' # NoSnapshot, CurrentState(p)' < CurrentState(p)
                 PROVE  p \notin shown'.pairs
      OBVIOUS
    <2>1. CurrentState(p) \in Nat
      BY DEF ShownInv, ShownTypeOK, CurrentState
    <2>2. ~(UNCHANGED <<snapshots, lastSnapshotId>>)
      BY <2>1 DEF CurrentState
    <2>3. ReceiveSnapshots
      BY <2>2 DEF SnapshotsNext, Create, Destroy, AddNetworkComponent, RemoveNetworkComponent,
                  EndUpdate, Restart, clientVars
    <2>4. PICK received \in 1..Len(stream) :
            /\ shown' = stream[1] /\ stream[1] \in SnapshotMessages
            /\ snapshots'[lastSnapshotId'] =
                 Merge(snapshots[OtherSnapshot(lastSnapshotId)], stream[1])
      BY <2>3, ReceiveEffect
    <2>5. CurrentState(p) <= stream[1].tick /\ stream[1].tick \in Nat
      BY <2>4 DEF ShownInv, ShownTypeOK, NothingIsLater, CurrentState, SnapshotMessages
    <2>6. snapshots[OtherSnapshot(lastSnapshotId)] \in [Pairs -> 0..MaxTicks]
      BY DEF ShownInv, ShownTypeOK, OtherSnapshot
    <2>7. p \in stream[1].pairs => CurrentState(p)' = stream[1].tick
      BY <2>4, <2>6, MergeEffect DEF CurrentState
    <2>8. QED
      BY <2>1, <2>4, <2>5, <2>7
  <1>2. QED
    BY ShownInvariant, <1>1, PTL DEF SnapshotsSpec, OnlyTheGoneGoBack

-----------------------------------------------------------------------------
(* The ids of an entity's components.                                      *)

\* Ids in ascending order, each once.
InOrder(ids) ==
  \A i, j \in DOMAIN ids : i < j => ids[i] < ids[j]

\* Where an id is, or would be put.
Divides(at, ids, c) ==
  /\ at \in 1..(Len(ids) + 1)
  /\ \A i \in 1..Len(ids) : ids[i] < c <=> i < at

\* There is such a place in ids that are in order.
LEMMA SomeDivides ==
  ASSUME NEW ids \in Seq(Nat), NEW c \in Nat, InOrder(ids)
  PROVE  \E at \in 1..(Len(ids) + 1) : Divides(at, ids, c)
  <1> DEFINE n == Len(ids)
             after == {i \in 1..(n + 1) : i = n + 1 \/ ~(ids[i] < c)}
  <1>1. n \in Nat /\ DOMAIN ids = 1..n /\ \A i \in 1..n : ids[i] \in Nat
    OBVIOUS
  <1>2. after \subseteq Nat /\ n + 1 \in after
    BY <1>1
  <1>3. PICK at \in after : \A m \in after : at <= m
    BY <1>2, SmallestNumber
  <1>4. at \in 1..(n + 1)
    BY <1>3
  <1>5. ASSUME NEW i \in 1..n PROVE ids[i] < c <=> i < at
    <2>1. CASE i < at
      BY <1>1, <1>3, <1>4, <2>1
    <2>2. CASE ~(i < at)
      <3>1. at \in 1..n /\ at <= i /\ ~(ids[at] < c)
        BY <1>1, <1>3, <1>4, <2>2
      <3>2. ids[at] <= ids[i]
        BY <1>1, <3>1 DEF InOrder
      <3>3. QED
        BY <1>1, <2>2, <3>1, <3>2
    <2>3. QED
      BY <2>1, <2>2
  <1>6. QED
    BY <1>4, <1>5 DEF Divides

\* Halving a part.
LEMMA Halves ==
  ASSUME NEW length \in Nat, length # 0
  PROVE  length \div 2 \in Nat /\ length \div 2 < length
  OBVIOUS

\* A binary search in ids that are in order ends at that place: each half that
\* is left out has only ids on the other side of it.
LEMMA LowerBoundDivides ==
  ASSUME NEW ids \in Seq(Nat), NEW c \in Nat, InOrder(ids)
  PROVE  Divides(LowerBound(ids, c), ids, c)
  <1> DEFINE n == Len(ids)
             P == Parts(ids)
  <1>1. n \in Nat /\ DOMAIN ids = 1..n /\ \A i \in 1..n : ids[i] \in Nat
    OBVIOUS
  <1>2. PICK at \in 1..(n + 1) : Divides(at, ids, c)
    BY SomeDivides
  <1> DEFINE
     search[part \in P] ==
       LET from   == part[1]
           length == part[2]
           half   == length \div 2
       IN IF length = 0 THEN from
          ELSE IF ids[from + half] < c THEN search[<<from + half + 1, length - half - 1>>]
          ELSE search[<<from, half>>]
     Closest(from, length) == IF at < from THEN from
                              ELSE IF at > from + length THEN from + length ELSE at
     found == [part \in P |-> Closest(part[1], part[2])]
     Body(f) == [part \in P |->
       IF part[2] = 0 THEN part[1]
       ELSE IF ids[part[1] + (part[2] \div 2)] < c
            THEN f[<<part[1] + (part[2] \div 2) + 1, part[2] - (part[2] \div 2) - 1>>]
       ELSE f[<<part[1], part[2] \div 2>>]]
  <1>3. \A part \in P : /\ part[1] \in 1..(n + 1) /\ part[2] \in 0..n /\ part[1] + part[2] <= n + 1
                        /\ part = <<part[1], part[2]>>
    BY <1>1 DEF Parts
  <1>4. \A from \in 1..(n + 1), length \in 0..n : from + length <= n + 1 => <<from, length>> \in P
    BY <1>1 DEF Parts
  <1>5. ASSUME NEW from \in 1..(n + 1), NEW length \in 0..n, from + length <= n + 1, length # 0,
               NEW half \in Nat, half < length
        PROVE  /\ from + half \in 1..n
               /\ <<from + half + 1, length - half - 1>> \in P
               /\ <<from, half>> \in P
               /\ from + half + 1 \in 1..(n + 1) /\ length - half - 1 \in 0..n
               /\ half \in 0..n
               /\ Closest(from, length) = IF ids[from + half] < c
                                          THEN Closest(from + half + 1, length - half - 1)
                                          ELSE Closest(from, half)
    <2>1. /\ from + half \in 1..n /\ half \in 0..n
          /\ from + half + 1 \in 1..(n + 1) /\ length - half - 1 \in 0..n
          /\ (from + half + 1) + (length - half - 1) <= n + 1 /\ from + half <= n + 1
      BY <1>1, <1>5
    <2>2. ids[from + half] < c <=> from + half < at
      BY <1>2, <2>1 DEF Divides
    <2>3. Closest(from, length) = IF ids[from + half] < c
                                  THEN Closest(from + half + 1, length - half - 1)
                                  ELSE Closest(from, half)
      BY <1>1, <1>5, <2>1, <2>2
    <2>4. <<from + half + 1, length - half - 1>> \in P /\ <<from, half>> \in P
      BY <1>4, <2>1
    <2>5. QED
      BY <2>1, <2>3, <2>4
  <1>6. found = Body(found)
    <2>1. ASSUME NEW part \in P
          PROVE  found[part] = Body(found)[part]
      <3> DEFINE from == part[1]
                 length == part[2]
                 half == length \div 2
      <3>1. from \in 1..(n + 1) /\ length \in 0..n /\ from + length <= n + 1
        BY <1>3
      <3>2. found[part] = Closest(from, length)
        OBVIOUS
      <3>3. CASE length = 0
        BY <1>1, <3>1, <3>2, <3>3
      <3>4. CASE length # 0
        <4>1. half \in Nat /\ half < length
          BY <1>1, <3>1, <3>4, Halves
        <4>2. /\ <<from + half + 1, length - half - 1>> \in P /\ <<from, half>> \in P
              /\ Closest(from, length) = IF ids[from + half] < c
                                          THEN Closest(from + half + 1, length - half - 1)
                                          ELSE Closest(from, half)
          <5> HIDE DEF from, length, half, P, Closest
          <5>1. QED
            BY <1>5, <3>1, <3>4, <4>1
        <4>3. /\ found[<<from + half + 1, length - half - 1>>] =
                   Closest(from + half + 1, length - half - 1)
              /\ found[<<from, half>>] = Closest(from, half)
          <5> HIDE DEF P, Closest, from, length, half
          <5>1. QED
            BY <4>2
        <4>4. Body(found)[part] = IF ids[from + half] < c
                            THEN found[<<from + half + 1, length - half - 1>>]
                            ELSE found[<<from, half>>]
          <5> HIDE DEF found, P
          <5>1. QED
            BY <3>4
        <4> HIDE DEF found, Closest, from, length, half, Body
        <4>5. QED
          BY <3>2, <4>2, <4>3, <4>4
      <3>5. QED
        BY <3>3, <3>4
    <2>2. found = [part \in P |-> found[part]] /\ Body(found) = [part \in P |-> Body(found)[part]]
      OBVIOUS
    <2> HIDE DEF found, Body, P
    <2>3. QED
      BY <2>1, <2>2
  <1>7. search = Body(search)
    <2> HIDE DEF found, P
    <2>1. search = CHOOSE f : f = Body(f)
      OBVIOUS
    <2> HIDE DEF search, Body
    <2>2. QED
      BY <1>6, <2>1
  <1>8. LowerBound(ids, c) = search[<<1, n>>]
    BY DEF LowerBound
  <1>9. ASSUME NEW from \in 1..(n + 1), NEW length \in 0..n, from + length <= n + 1
        PROVE  search[<<from, length>>] =
                 IF length = 0 THEN from
                 ELSE IF ids[from + (length \div 2)] < c
                      THEN search[<<from + (length \div 2) + 1, length - (length \div 2) - 1>>]
                 ELSE search[<<from, length \div 2>>]
    <2> DEFINE part == <<from, length>>
    <2>1. part \in P /\ part[1] = from /\ part[2] = length
      BY <1>4, <1>9
    <2>2. search[part] = Body(search)[part]
      BY <1>7
    <2> HIDE DEF search, P, part
    <2>3. Body(search)[part] =
            IF part[2] = 0 THEN part[1]
            ELSE IF ids[part[1] + (part[2] \div 2)] < c
                 THEN search[<<part[1] + (part[2] \div 2) + 1, part[2] - (part[2] \div 2) - 1>>]
            ELSE search[<<part[1], part[2] \div 2>>]
      BY <2>1
    <2> HIDE DEF Body
    <2>4. QED
      BY <2>1, <2>2, <2>3 DEF part
  <1> DEFINE missed ==
        {length \in 0..n : \E from \in 1..(n + 1) :
           from + length <= n + 1 /\ search[<<from, length>>] # Closest(from, length)}
  <1>10. missed = {}
    <2> SUFFICES ASSUME missed # {} PROVE FALSE
      OBVIOUS
    <2> HIDE DEF search, P, Body, found
    <2>1. PICK length \in missed : \A other \in missed : length <= other
      <3>1. missed \subseteq Nat
        BY <1>1
      <3> HIDE DEF missed
      <3>2. QED
        BY <3>1, SmallestNumber
    <2>2. PICK from \in 1..(n + 1) :
            from + length <= n + 1 /\ search[<<from, length>>] # Closest(from, length)
      BY <2>1
    <2>3. length \in 0..n
      BY <2>1
    <2>4. ASSUME NEW f \in 1..(n + 1), NEW l \in 0..n, f + l <= n + 1, l < length
          PROVE  search[<<f, l>>] = Closest(f, l)
      <3> HIDE DEF Closest
      <3>1. l \notin missed
        <4> HIDE DEF missed
        <4>1. QED
          BY <1>1, <2>1, <2>3, <2>4
      <3>2. QED
        BY <2>4, <3>1
    <2>5. CASE length = 0
      <3>1. search[<<from, length>>] = from
        <4> HIDE DEF Closest, missed
        <4>1. QED
          BY <1>9, <2>2, <2>3, <2>5
      <3>2. Closest(from, length) = from
        BY <1>1, <2>5
      <3>3. QED
        BY <2>2, <3>1, <3>2
    <2>6. CASE length # 0
      <3> DEFINE half == length \div 2
      <3>1. half \in Nat /\ half < length
        BY <1>1, <2>3, <2>6, Halves
      <3>2. search[<<from, length>>] = IF ids[from + half] < c
                                       THEN search[<<from + half + 1, length - half - 1>>]
                                       ELSE search[<<from, half>>]
        <4> HIDE DEF Closest, missed
        <4>1. QED
          BY <1>9, <2>2, <2>3, <2>6
      <3> HIDE DEF half, Closest, missed
      <3>3. /\ from + half \in 1..n
            /\ from + half + 1 \in 1..(n + 1) /\ length - half - 1 \in 0..n /\ half \in 0..n
            /\ Closest(from, length) = IF ids[from + half] < c
                                       THEN Closest(from + half + 1, length - half - 1)
                                       ELSE Closest(from, half)
        BY <1>5, <2>2, <2>3, <2>6, <3>1
      <3>4. search[<<from, half>>] = Closest(from, half)
        BY <1>1, <2>2, <2>3, <2>4, <3>1, <3>3
      <3>5. search[<<from + half + 1, length - half - 1>>] =
              Closest(from + half + 1, length - half - 1)
        <4>1. /\ (from + half + 1) + (length - half - 1) <= n + 1
              /\ length - half - 1 < length
          BY <1>1, <2>2, <2>3, <3>1
        <4>2. QED
          BY <2>4, <3>3, <4>1
      <3>6. QED
        BY <2>2, <3>2, <3>3, <3>4, <3>5
    <2>7. QED
      BY <2>5, <2>6
  <1>11. search[<<1, n>>] = Closest(1, n)
    <2> HIDE DEF search, P, Body, found, Closest
    <2>1. n \notin missed
      BY <1>10
    <2>2. n \in 0..n /\ 1 \in 1..(n + 1) /\ 1 + n <= n + 1
      BY <1>1
    <2>3. QED
      BY <2>1, <2>2
  <1>12. Closest(1, n) = at
    BY <1>1, <1>2
  <1>13. QED
    <2> HIDE DEF search, P, Body, found, Closest
    <2>1. QED
      BY <1>2, <1>8, <1>11, <1>12

\* The binary search finds exactly what is there, at the place where it is.
LEMMA HasIdFinds ==
  ASSUME NEW ids \in Seq(Nat), NEW c \in Nat, InOrder(ids)
  PROVE  /\ HasId(ids, c) <=> c \in ToSet(ids)
         /\ HasId(ids, c) => LowerBound(ids, c) \in 1..Len(ids) /\ ids[LowerBound(ids, c)] = c
  <1> DEFINE at == LowerBound(ids, c)
  <1>1. /\ Len(ids) \in Nat /\ DOMAIN ids = 1..Len(ids)
        /\ \A i \in 1..Len(ids) : ids[i] \in Nat
    OBVIOUS
  <1>2. at \in 1..(Len(ids) + 1) /\ \A i \in 1..Len(ids) : ids[i] < c <=> i < at
    BY LowerBoundDivides DEF Divides
  <1>3. HasId(ids, c) <=> at <= Len(ids) /\ ids[at] = c
    BY DEF HasId
  <1> HIDE DEF at
  <1>4. HasId(ids, c) => at \in 1..Len(ids) /\ ids[at] = c
    BY <1>1, <1>2, <1>3
  <1>5. ASSUME c \in ToSet(ids) PROVE HasId(ids, c)
    <2>1. PICK i \in 1..Len(ids) : ids[i] = c
      BY <1>1, <1>5 DEF ToSet
    <2>2. at <= i /\ at \in 1..Len(ids)
      BY <1>1, <1>2, <2>1
    <2>3. ~(ids[at] < c) /\ ids[at] \in Nat
      BY <1>1, <1>2, <2>2
    <2>4. at < i => ids[at] < ids[i]
      BY <1>1, <2>2 DEF InOrder
    <2>5. ids[at] = c
      BY <1>1, <2>1, <2>2, <2>3, <2>4
    <2>6. QED
      BY <1>1, <1>3, <2>2, <2>5
  <1>6. HasId(ids, c) => c \in ToSet(ids)
    BY <1>1, <1>4 DEF ToSet
  <1>7. QED
    BY <1>4, <1>5, <1>6 DEF at

\* What is left of a sequence without its first elements.
LEMMA RestOf ==
  ASSUME NEW S, NEW s \in Seq(S), NEW k \in 0..Len(s)
  PROVE  /\ SubSeq(s, k + 1, Len(s)) \in Seq(S)
         /\ Len(SubSeq(s, k + 1, Len(s))) = Len(s) - k
         /\ \A i \in 1..(Len(s) - k) : SubSeq(s, k + 1, Len(s))[i] = s[k + i]
  OBVIOUS

\* Two sequences in a row.
LEMMA InARow ==
  ASSUME NEW S, NEW s \in Seq(S), NEW t \in Seq(S)
  PROVE  /\ s \o t \in Seq(S) /\ Len(s \o t) = Len(s) + Len(t)
         /\ \A i \in 1..Len(s) : (s \o t)[i] = s[i]
         /\ \A i \in 1..Len(t) : (s \o t)[Len(s) + i] = t[i]
  OBVIOUS

\* An id that is removed goes, and no other.
LEMMA RemoveIdRemoves ==
  ASSUME NEW ids \in Seq(Nat), NEW c \in Nat, InOrder(ids), c \in ToSet(ids)
  PROVE  /\ RemoveId(ids, c) \in Seq(Nat) /\ InOrder(RemoveId(ids, c))
         /\ ToSet(RemoveId(ids, c)) = ToSet(ids) \ {c}
  <1> DEFINE at == LowerBound(ids, c)
             n == Len(ids)
             rest == RemoveAt(ids, at)
  <1>1. HasId(ids, c) /\ at \in 1..n /\ ids[at] = c
    BY HasIdFinds
  <1>2. n \in Nat /\ DOMAIN ids = 1..n /\ \A i \in 1..n : ids[i] \in Nat
    OBVIOUS
  <1>3. RemoveId(ids, c) = rest
    BY <1>1 DEF RemoveId
  <1> HIDE DEF at
  <1> DEFINE front == SubSeq(ids, 1, at - 1)
             back  == SubSeq(ids, at + 1, n)
  <1>4. /\ front \in Seq(Nat) /\ Len(front) = at - 1
        /\ \A i \in 1..(at - 1) : front[i] = ids[i]
    BY <1>1, <1>2
  <1>5. /\ back \in Seq(Nat) /\ Len(back) = n - at
        /\ \A i \in 1..(n - at) : back[i] = ids[at + i]
    <2>1. at \in 0..Len(ids)
      BY <1>1, <1>2
    <2>2. QED
      BY <2>1, RestOf
  <1>6. rest = front \o back
    BY DEF RemoveAt
  <1> HIDE DEF front, back, rest
  <1>7. /\ rest \in Seq(Nat) /\ Len(rest) = n - 1 /\ DOMAIN rest = 1..(n - 1)
        /\ \A i \in 1..(n - 1) : rest[i] = IF i < at THEN ids[i] ELSE ids[i + 1]
    <2>1. /\ rest \in Seq(Nat) /\ Len(rest) = Len(front) + Len(back)
          /\ \A i \in 1..Len(front) : rest[i] = front[i]
          /\ \A i \in 1..Len(back) : rest[Len(front) + i] = back[i]
      <3>1. front \in Seq(Nat) /\ back \in Seq(Nat)
        BY <1>4, <1>5
      <3>2. /\ front \o back \in Seq(Nat) /\ Len(front \o back) = Len(front) + Len(back)
            /\ \A i \in 1..Len(front) : (front \o back)[i] = front[i]
            /\ \A i \in 1..Len(back) : (front \o back)[Len(front) + i] = back[i]
        BY <3>1, InARow
      <3>3. QED
        BY <1>6, <3>2
    <2>2. Len(rest) = n - 1
      BY <1>1, <1>2, <1>4, <1>5, <2>1
    <2>3. ASSUME NEW i \in 1..(n - 1) PROVE rest[i] = IF i < at THEN ids[i] ELSE ids[i + 1]
      <3>1. CASE i < at
        BY <1>1, <1>2, <1>4, <2>1, <3>1
      <3>2. CASE ~(i < at)
        <4> DEFINE j == i - (at - 1)
        <4>1. j \in 1..(n - at) /\ (at - 1) + j = i /\ at + j = i + 1
          BY <1>1, <1>2, <3>2
        <4> HIDE DEF j
        <4>2. rest[(at - 1) + j] = ids[at + j]
          BY <1>4, <1>5, <2>1, <4>1
        <4>3. QED
          BY <3>2, <4>1, <4>2
      <3>3. QED
        BY <3>1, <3>2
    <2>4. DOMAIN rest = 1..Len(rest)
      BY <2>1
    <2>5. QED
      BY <2>1, <2>2, <2>3, <2>4
  <1>8. ASSUME NEW i \in 1..(n - 1), NEW j \in 1..(n - 1), i < j PROVE rest[i] < rest[j]
    <2>1. /\ i \in 1..n /\ j \in 1..n /\ i + 1 \in 1..n /\ j + 1 \in 1..n /\ i < j + 1
          /\ i + 1 < j + 1 /\ (j < at => i < at)
      BY <1>1, <1>2, <1>8
    <2>2. ids[i] < ids[j] /\ ids[i] < ids[j + 1] /\ ids[i + 1] < ids[j + 1]
      BY <1>2, <1>8, <2>1 DEF InOrder
    <2>3. QED
      BY <1>7, <2>1, <2>2
  <1>9. InOrder(rest)
    BY <1>7, <1>8 DEF InOrder
  <1>10. ASSUME NEW i \in 1..n, i # at PROVE ids[i] # c
    BY <1>1, <1>2, <1>10 DEF InOrder
  <1>11. ToSet(rest) \subseteq ToSet(ids) \ {c}
    <2>1. ASSUME NEW i \in 1..(n - 1) PROVE rest[i] \in ToSet(ids) \ {c}
      <3>1. i \in 1..n /\ i + 1 \in 1..n /\ (i < at => i # at) /\ (~(i < at) => i + 1 # at)
        BY <1>1, <1>2
      <3>2. QED
        BY <1>2, <1>7, <1>10, <3>1 DEF ToSet
    <2>2. QED
      BY <1>7, <2>1 DEF ToSet
  <1>12. ToSet(ids) \ {c} \subseteq ToSet(rest)
    <2>1. ASSUME NEW i \in 1..n, ids[i] # c PROVE ids[i] \in ToSet(rest)
      <3>1. i # at
        BY <1>1, <2>1
      <3>2. CASE i < at
        <4>1. i \in 1..(n - 1) /\ rest[i] = ids[i]
          BY <1>1, <1>2, <1>7, <3>2
        <4>2. QED
          BY <1>7, <4>1 DEF ToSet
      <3>3. CASE i > at
        <4>1. i - 1 \in 1..(n - 1) /\ ~(i - 1 < at) /\ (i - 1) + 1 = i
          BY <1>1, <1>2, <3>3
        <4>2. rest[i - 1] = ids[i]
          BY <1>7, <4>1
        <4>3. QED
          BY <1>7, <4>1, <4>2 DEF ToSet
      <3>4. QED
        BY <1>1, <1>2, <3>1, <3>2, <3>3
    <2>2. QED
      BY <1>2, <2>1 DEF ToSet
  <1>13. QED
    BY <1>3, <1>7, <1>9, <1>11, <1>12

\* std::sort puts an id that was pushed behind the others where it belongs.
LEMMA AddIdInserts ==
  ASSUME NEW ids \in Seq(Nat), NEW c \in Nat, InOrder(ids), c \notin ToSet(ids)
  PROVE  /\ AddId(ids, c) \in Seq(Nat) /\ InOrder(AddId(ids, c))
         /\ ToSet(AddId(ids, c)) = ToSet(ids) \cup {c}
  <1> DEFINE n == Len(ids)
             D == 1..(n + 1)
             s == Append(ids, c)
             Turns == Bijection(DOMAIN s, DOMAIN s)
             Orders == {[i \in DOMAIN s |-> s[p[i]]] : p \in Turns}
             Rises(t) == \A i, j \in DOMAIN s : i < j => t[i] <= t[j]
  <1>1. n \in Nat /\ DOMAIN ids = 1..n /\ \A i \in 1..n : ids[i] \in Nat
    OBVIOUS
  <1>2. /\ DOMAIN s = D /\ s[n + 1] = c
        /\ \A i \in 1..n : s[i] = ids[i]
    BY <1>1
  <1>3. \A i \in D : i \in 1..n \/ i = n + 1
    BY <1>1
  <1> HIDE DEF s
  <1>4. \A i \in D : s[i] \in Nat
    BY <1>1, <1>2, <1>3
  <1>5. \A i, j \in D : s[i] = s[j] => i = j
    <2>1. \A i \in 1..n : ids[i] # c
      BY <1>1 DEF ToSet
    <2>2. \A i, j \in 1..n : ids[i] = ids[j] => i = j
      BY <1>1 DEF InOrder
    <2>3. QED
      BY <1>2, <1>3, <2>1, <2>2
  <1>6. PICK at \in D : Divides(at, ids, c)
    BY SomeDivides
  <1> DEFINE p == [i \in D |-> IF i < at THEN i ELSE IF i = at THEN n + 1 ELSE i - 1]
  <1>7. p \in Turns
    <2>1. p \in [D -> D]
      BY <1>1, <1>6
    <2>2. \A i, j \in D : p[i] = p[j] => i = j
      BY <1>1, <1>6
    <2>3. ASSUME NEW k \in D PROVE \E i \in D : p[i] = k
      <3>1. CASE k < at
        BY <3>1
      <3>2. CASE k = n + 1 /\ ~(k < at)
        BY <1>1, <1>6, <3>2
      <3>3. CASE k \in 1..n /\ ~(k < at)
        <4>1. k + 1 \in D /\ ~(k + 1 < at) /\ k + 1 # at /\ (k + 1) - 1 = k
          BY <1>1, <1>6, <3>3
        <4>2. p[k + 1] = k
          BY <4>1
        <4>3. QED
          BY <4>1, <4>2
      <3>4. QED
        BY <1>3, <3>1, <3>2, <3>3
    <2> HIDE DEF p, D
    <2>4. QED
      BY <1>2, <2>1, <2>2, <2>3 DEF Bijection, Injection, Surjection, IsInjective
  <1>8. Rises([i \in DOMAIN s |-> s[p[i]]])
    <2> DEFINE w == [i \in DOMAIN s |-> s[p[i]]]
    <2>1. ASSUME NEW i \in D
          PROVE  w[i] = IF i < at THEN ids[i] ELSE IF i = at THEN c ELSE ids[i - 1]
      <3>1. p[i] = IF i < at THEN i ELSE IF i = at THEN n + 1 ELSE i - 1
        OBVIOUS
      <3>2. w[i] = s[p[i]]
        BY <1>2
      <3>3. (i < at => i \in 1..n) /\ (i > at => i - 1 \in 1..n) /\ (i < at \/ i = at \/ i > at)
        BY <1>1, <1>6
      <3> HIDE DEF p, w
      <3>4. QED
        BY <1>1, <1>2, <3>1, <3>2, <3>3
    <2>2. ASSUME NEW i \in D, NEW j \in D, i < j PROVE w[i] <= w[j]
      <3>1. /\ (i < at => i \in 1..n) /\ (i > at => i - 1 \in 1..n)
            /\ (j < at => j \in 1..n) /\ (j > at => j - 1 \in 1..n)
        BY <1>1, <1>6
      <3>2. /\ i < at => ids[i] < c /\ ids[i] \in Nat
            /\ j > at => ~(ids[j - 1] < c) /\ ids[j - 1] \in Nat
            /\ i > at => ids[i - 1] \in Nat
            /\ j < at => ids[j] \in Nat
        BY <1>1, <1>6, <3>1 DEF Divides
      <3>3. /\ j < at => ids[i] < ids[j]
            /\ i > at => ids[i - 1] < ids[j - 1]
        <4>1. \A a, b \in 1..n : a < b => ids[a] < ids[b]
          BY <1>1 DEF InOrder
        <4>2. /\ j < at => i < at /\ i \in 1..n /\ j \in 1..n
              /\ i > at => j > at /\ i - 1 \in 1..n /\ j - 1 \in 1..n /\ i - 1 < j - 1
          BY <1>1, <1>6, <2>2, <3>1
        <4>3. QED
          BY <2>2, <4>1, <4>2
      <3> HIDE DEF w
      <3>4. QED
        BY <1>1, <1>6, <2>1, <2>2, <3>2, <3>3
    <2> HIDE DEF w
    <2>3. Rises(w)
      BY <1>2, <2>2
    <2>4. QED
      BY <2>3 DEF w
  <1> HIDE DEF p
  <1>9. [i \in DOMAIN s |-> s[p[i]]] \in Orders
    BY <1>7
  <1> HIDE DEF Turns
  <1>10. AddId(ids, c) = CHOOSE t \in Orders : Rises(t)
    BY DEF AddId, Sorted, s, Turns
  <1>11. AddId(ids, c) \in Orders /\ Rises(AddId(ids, c))
    <2> DEFINE w == [i \in DOMAIN s |-> s[p[i]]]
    <2>1. w \in Orders /\ Rises(w)
      BY <1>8, <1>9
    <2> HIDE DEF w, Orders, Rises
    <2>2. QED
      BY <1>10, <2>1
  <1> DEFINE t == AddId(ids, c)
  <1> HIDE DEF t
  <1>12. PICK q \in Turns : t = [i \in D |-> s[q[i]]]
    BY <1>2, <1>11 DEF t
  <1>13. /\ q \in [D -> D]
         /\ \A i, j \in D : q[i] = q[j] => i = j
         /\ \A k \in D : \E i \in D : q[i] = k
    BY <1>2 DEF Turns, Bijection, Injection, Surjection, IsInjective
  <1>14. t \in [D -> Nat]
    BY <1>4, <1>12, <1>13
  <1>15. t \in Seq(Nat) /\ DOMAIN t = D
    BY <1>1, <1>14
  <1>16. InOrder(t)
    <2>1. ASSUME NEW i \in D, NEW j \in D, i < j PROVE t[i] < t[j]
      <3>1. t[i] <= t[j]
        BY <1>2, <1>11, <2>1 DEF t
      <3>2. t[i] # t[j]
        <4>1. i # j
          BY <1>1, <2>1
        <4> HIDE DEF D
        <4>2. t[i] = s[q[i]] /\ t[j] = s[q[j]] /\ q[i] \in D /\ q[j] \in D
          BY <1>12, <1>13
        <4>3. QED
          BY <1>5, <1>13, <4>1, <4>2
      <3>3. t[i] \in Nat /\ t[j] \in Nat
        BY <1>14
      <3>4. QED
        BY <3>1, <3>2, <3>3
    <2>2. QED
      BY <1>15, <2>1 DEF InOrder
  <1>17. ToSet(t) = {s[k] : k \in D}
    <2> HIDE DEF D
    <2>1. ASSUME NEW i \in D PROVE t[i] \in {s[k] : k \in D}
      BY <1>12, <1>13
    <2>2. ASSUME NEW k \in D PROVE s[k] \in {t[i] : i \in D}
      <3>1. PICK i \in D : q[i] = k
        BY <1>13
      <3>2. t[i] = s[k]
        BY <1>12, <3>1
      <3>3. QED
        BY <3>2
    <2>3. ToSet(t) = {t[i] : i \in D}
      BY <1>15 DEF ToSet
    <2>4. QED
      BY <2>1, <2>2, <2>3
  <1>18. {s[k] : k \in D} = ToSet(ids) \cup {c}
    BY <1>1, <1>2, <1>3 DEF ToSet
  <1>19. QED
    BY <1>15, <1>16, <1>17, <1>18 DEF t

\* The buffers hold the ids of the components, in order, and an entity that is
\* gone has none.
ComponentsInv ==
  /\ components \in [Watched -> SUBSET ComponentIds]
  /\ componentIds \in [Watched -> Seq(Nat)]
  /\ IdsMatchComponents

\* A buffer of an entity, in the words of the lemmas above.
LEMMA BufferInOrder ==
  ASSUME ComponentsInv, NEW n \in Watched
  PROVE  /\ componentIds[n] \in Seq(Nat) /\ InOrder(componentIds[n])
         /\ ToSet(componentIds[n]) = components[n] /\ components[n] \subseteq ComponentIds
  BY DEF ComponentsInv, IdsMatchComponents, InOrder

\* One buffer changes, in order, as the components of its entity do.
LEMMA BufferKeepsInv ==
  ASSUME ComponentsInv, NEW n \in Watched, n \in networkIds, networkIds' = networkIds,
         NEW ids \in Seq(Nat), InOrder(ids), NEW cs \in SUBSET ComponentIds, ToSet(ids) = cs,
         componentIds' = [componentIds EXCEPT ![n] = ids],
         components' = [components EXCEPT ![n] = cs]
  PROVE  ComponentsInv'
  <1>1. /\ components' \in [Watched -> SUBSET ComponentIds]
        /\ componentIds' \in [Watched -> Seq(Nat)]
    BY DEF ComponentsInv
  <1>2. ASSUME NEW m \in Watched
        PROVE  /\ ToSet(componentIds'[m]) = components'[m]
               /\ InOrder(componentIds'[m])
               /\ m \notin networkIds' => componentIds'[m] = <<>>
    <2>1. CASE m = n
      BY <2>1 DEF ComponentsInv
    <2>2. CASE m # n
      BY <2>2, BufferInOrder DEF ComponentsInv, IdsMatchComponents
    <2>3. QED
      BY <2>1, <2>2
  <1>3. QED
    BY <1>1, <1>2 DEF ComponentsInv, IdsMatchComponents, InOrder

\* An id that is new to the buffer is put where it belongs.
LEMMA AddKeepsComponents ==
  ASSUME ComponentsInv, NEW n \in Watched, NEW c \in ComponentIds, AddNetworkComponent(n, c)
  PROVE  ComponentsInv'
  <1> DEFINE ids == componentIds[n]
  <1>1. c \in Nat /\ c \notin components[n] /\ n \in networkIds /\ UNCHANGED networkIds
    BY SnapshotsAssumption DEF SnapshotsAssumption, AddNetworkComponent, vars
  <1>2. /\ ids \in Seq(Nat) /\ InOrder(ids) /\ ToSet(ids) = components[n]
        /\ components[n] \subseteq ComponentIds
    BY BufferInOrder
  <1>3. ~HasId(ids, c)
    BY <1>1, <1>2, HasIdFinds
  <1>4. /\ AddId(ids, c) \in Seq(Nat) /\ InOrder(AddId(ids, c))
        /\ ToSet(AddId(ids, c)) = components[n] \cup {c}
    BY <1>1, <1>2, AddIdInserts
  <1>5. /\ componentIds' = [componentIds EXCEPT ![n] = AddId(ids, c)]
        /\ components' = [components EXCEPT ![n] = components[n] \cup {c}]
    BY <1>3 DEF AddNetworkComponent, ComponentsInv
  <1> HIDE DEF ids
  <1>6. QED
    BY <1>1, <1>2, <1>4, <1>5, BufferKeepsInv

\* The id that goes is the one the search finds.
LEMMA RemoveKeepsComponents ==
  ASSUME ComponentsInv, NEW n \in Watched, NEW c \in ComponentIds, RemoveNetworkComponent(n, c)
  PROVE  ComponentsInv'
  <1> DEFINE ids == componentIds[n]
  <1>1. c \in Nat /\ c \in components[n] /\ n \in networkIds /\ UNCHANGED networkIds
    BY SnapshotsAssumption DEF SnapshotsAssumption, RemoveNetworkComponent, vars
  <1>2. /\ ids \in Seq(Nat) /\ InOrder(ids) /\ ToSet(ids) = components[n]
        /\ components[n] \subseteq ComponentIds
    BY BufferInOrder
  <1>3. /\ RemoveId(ids, c) \in Seq(Nat) /\ InOrder(RemoveId(ids, c))
        /\ ToSet(RemoveId(ids, c)) = components[n] \ {c}
    BY <1>1, <1>2, RemoveIdRemoves
  <1>4. /\ componentIds' = [componentIds EXCEPT ![n] = RemoveId(ids, c)]
        /\ components' = [components EXCEPT ![n] = components[n] \ {c}]
    BY DEF RemoveNetworkComponent, ComponentsInv
  <1> HIDE DEF ids
  <1>5. QED
    BY <1>1, <1>2, <1>3, <1>4, BufferKeepsInv

\* No entity, no component, no id.
LEMMA InitComponentsInv == SnapshotsInit => ComponentsInv
  <1>1. <<>> \in Seq(Nat) /\ ToSet(<<>>) = {}
    BY DEF ToSet
  <1>2. QED
    BY <1>1 DEF SnapshotsInit, ComponentsInv, IdsMatchComponents, NoComponents, NoComponentIds

\* Every step keeps the buffers in order.
LEMMA NextComponentsInv == ComponentsInv /\ [SnapshotsNext]_snapshotsVars => ComponentsInv'
  <1> SUFFICES ASSUME ComponentsInv, [SnapshotsNext]_snapshotsVars PROVE ComponentsInv'
    OBVIOUS
  <1>0. <<>> \in Seq(Nat) /\ ToSet(<<>>) = {} /\ DOMAIN <<>> = {}
    BY DEF ToSet
  <1>1. ASSUME UNCHANGED componentVars, networkIds \subseteq networkIds' PROVE ComponentsInv'
    BY <1>1 DEF componentVars, ComponentsInv, IdsMatchComponents
  <1>2. CASE Create
    BY <1>1, <1>2 DEF Create, CreateNetworkEntity
  <1>3. ASSUME NEW n \in NetworkIds, Destroy(n) PROVE ComponentsInv'
    <2>1. /\ components' = [m \in Watched |-> IF m = n THEN {} ELSE components[m]]
          /\ componentIds' = [m \in Watched |-> IF m = n THEN <<>> ELSE componentIds[m]]
          /\ networkIds' = networkIds \ {n}
      BY <1>3 DEF Destroy, DestroyNetworkEntity, RemoveNetworkId
    <2>2. /\ components' \in [Watched -> SUBSET ComponentIds]
          /\ componentIds' \in [Watched -> Seq(Nat)]
      BY <1>0, <2>1 DEF ComponentsInv
    <2>3. ASSUME NEW m \in Watched
          PROVE  /\ ToSet(componentIds'[m]) = components'[m]
                 /\ InOrder(componentIds'[m])
                 /\ m \notin networkIds' => componentIds'[m] = <<>>
      <3>1. CASE m = n
        BY <1>0, <2>1, <3>1 DEF InOrder
      <3>2. CASE m # n
        BY <2>1, <3>2, BufferInOrder DEF ComponentsInv, IdsMatchComponents
      <3>3. QED
        BY <3>1, <3>2
    <2>4. QED
      BY <2>2, <2>3 DEF ComponentsInv, IdsMatchComponents, InOrder
  <1>4. CASE \E n \in Watched, c \in ComponentIds :
               AddNetworkComponent(n, c) \/ RemoveNetworkComponent(n, c)
    BY <1>4, AddKeepsComponents, RemoveKeepsComponents
  <1>5. CASE EndUpdate \/ ReceiveSnapshots
    BY <1>1, <1>5 DEF EndUpdate, ReceiveSnapshots, EndOfTick, vars
  <1>6. CASE Restart
    BY <1>0, <1>6 DEF Restart, ComponentsInv, IdsMatchComponents, NoComponents, NoComponentIds
  <1>7. CASE UNCHANGED snapshotsVars
    BY <1>1, <1>7 DEF snapshotsVars, vars
  <1>8. QED
    BY <1>2, <1>3, <1>4, <1>5, <1>6, <1>7 DEF SnapshotsNext

\* The ids in a buffer are those of the components its entity has, each once and
\* in order, whatever is added, removed and destroyed.
THEOREM IdsAlwaysMatch == SnapshotsSpec => []IdsMatchComponents
  <1>1. ComponentsInv => IdsMatchComponents
    BY DEF ComponentsInv
  <1>2. QED
    BY InitComponentsInv, NextComponentsInv, <1>1, PTL DEF SnapshotsSpec

-----------------------------------------------------------------------------
\* The snapshots leave the record of network entities to its manager: each of
\* their steps is one of the manager or does not touch it.
THEOREM SnapshotsUseManager == SnapshotsSpec => Spec
  <1>1. SnapshotsInit => Init
    BY DEF SnapshotsInit
  <1>2. [SnapshotsNext]_snapshotsVars => [Next]_vars
    BY DEF SnapshotsNext, snapshotsVars, Create, Destroy, AddNetworkComponent,
           RemoveNetworkComponent, EndUpdate, ReceiveSnapshots, Restart, Next, vars
  <1>3. QED
    BY <1>1, <1>2, PTL DEF SnapshotsSpec, Spec
=============================================================================
