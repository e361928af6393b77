--------------------------- MODULE ClientLifecycle ---------------------------
(***************************************************************************)
(* What Server promises its application about clients.  An id is given to  *)
(* a connection, in increasing order; its client waits, is reported new    *)
(* once, when it is ready, and is reported disconnected once; an id that   *)
(* is gone does not come back in the same run of the server.  A client     *)
(* may be reported disconnected that was never reported new.               *)
(***************************************************************************)
EXTENDS Naturals, Sequences

CONSTANT ClientIds

VARIABLES
  status,                 \* unused, waiting, ready or gone, of each id
  newClientIds,           \* what getNewClientIds returns
  disconnectedClientIds   \* what getDisconnectedClientIds returns

vars == <<status, newClientIds, disconnectedClientIds>>

Init ==
  /\ status = [id \in ClientIds |-> "unused"]
  /\ newClientIds = <<>>
  /\ disconnectedClientIds = <<>>

Moves(id, from, to) ==
  /\ status[id] = from
  /\ status' = [status EXCEPT ![id] = to]

Initialize(id) ==
  /\ \A earlier \in ClientIds : earlier < id => status[earlier] # "unused"
  /\ Moves(id, "unused", "waiting")
  /\ UNCHANGED <<newClientIds, disconnectedClientIds>>

BecomeReady(id) ==
  /\ Moves(id, "waiting", "ready")
  /\ newClientIds' = Append(newClientIds, id)
  /\ UNCHANGED disconnectedClientIds

Disconnect(id) ==
  /\ Moves(id, "waiting", "gone") \/ Moves(id, "ready", "gone")
  /\ disconnectedClientIds' = Append(disconnectedClientIds, id)
  /\ UNCHANGED newClientIds

\* What was reported in the tick before is replaced, the disconnections first.
ForgetDisconnected ==
  /\ disconnectedClientIds' = <<>>
  /\ UNCHANGED <<status, newClientIds>>

ForgetNew ==
  /\ newClientIds' = <<>>
  /\ UNCHANGED <<status, disconnectedClientIds>>

\* The server stops; what was last reported stays.
Stop ==
  /\ status' = [id \in ClientIds |-> "unused"]
  /\ UNCHANGED <<newClientIds, disconnectedClientIds>>

Next ==
  \/ \E id \in ClientIds : Initialize(id) \/ BecomeReady(id) \/ Disconnect(id)
  \/ ForgetDisconnected \/ ForgetNew
  \/ Stop

Spec == Init /\ [][Next]_vars
=============================================================================
