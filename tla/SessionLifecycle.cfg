SPECIFICATION Spec
CONSTANTS
  Conns = {c1, c2}
  Processes = {c1, c2}
  Entities = {e1, e2}
  NoConn = NoConn
  NullEntity = NullEntity
  Capacity = 2
  MaxClientId = 2
  MaxNetworkId = 1
  MaxAccepted = 2
  MaxStarts = 2
  Failures = {"accept", "disconnect", "exit", "stop"}
  Traffic = {}
  Interleaving = FALSE
SYMMETRY Symmetry
INVARIANTS TypeOK RegisteredAreLive NeverNewAndGone  ReplicaExact
PROPERTIES UsesRegistry UsesSpawnManager ImplementsLifecycle
