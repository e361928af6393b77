----------------------------- MODULE SharedWorld -----------------------------
(***************************************************************************)
(* What SpawnDespawnManager promises the server: the set of the network    *)
(* entities that exist, and the set the ready clients were last told of.   *)
(* Only telling the clients moves the second, and it makes it the first.   *)
(***************************************************************************)
EXTENDS Naturals

VARIABLES
  world,         \* the network ids that exist
  announced,     \* those that existed when the clients were last told
  nextNetworkId  \* network ids are never reused in a run of the server

vars == <<world, announced, nextNetworkId>>

Init ==
  /\ world = {}
  /\ announced = {}
  /\ nextNetworkId = 1

Create ==
  /\ world' = world \cup {nextNetworkId}
  /\ nextNetworkId' = nextNetworkId + 1
  /\ UNCHANGED announced

Destroy(n) ==
  /\ n \in world
  /\ world' = world \ {n}
  /\ UNCHANGED <<announced, nextNetworkId>>

Announce ==
  /\ announced' = world
  /\ UNCHANGED <<world, nextNetworkId>>

Reset ==
  /\ world' = {}
  /\ announced' = {}
  /\ nextNetworkId' = 1

Next ==
  \/ Create
  \/ \E n \in world : Destroy(n)
  \/ Announce
  \/ Reset

Spec == Init /\ [][Next]_vars
=============================================================================
