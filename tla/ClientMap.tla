------------------------------ MODULE ClientMap ------------------------------
(***************************************************************************)
(* What ClientEntityRegistry promises the server, without its vector and   *)
(* its two lookups: a one-to-one map from the ids of the registered        *)
(* clients to the entities of their connections, where ids are handed out  *)
(* in increasing order and an id is never given twice in one run of the    *)
(* server.                                                                 *)
(***************************************************************************)
EXTENDS Naturals

CONSTANT Entities

VARIABLES
  clients,      \* the entity of each registered client
  nextClientId  \* the id the next registered client gets

vars == <<clients, nextClientId>>

Owners == {clients[c] : c \in DOMAIN clients}

Init ==
  /\ clients = [c \in {} |-> c]
  /\ nextClientId = 1

Register(e) ==
  /\ e \notin Owners
  /\ clients' = [c \in DOMAIN clients \cup {nextClientId} |->
                   IF c = nextClientId THEN e ELSE clients[c]]
  /\ nextClientId' = nextClientId + 1

Forget(c) ==
  /\ c \in DOMAIN clients
  /\ clients' = [d \in DOMAIN clients \ {c} |-> clients[d]]
  /\ UNCHANGED nextClientId

Restart ==
  /\ clients' = [c \in {} |-> c]
  /\ nextClientId' = 1

Next ==
  \/ \E e \in Entities : Register(e)
  \/ \E c \in DOMAIN clients : Forget(c)
  \/ Restart

Spec == Init /\ [][Next]_vars
=============================================================================
