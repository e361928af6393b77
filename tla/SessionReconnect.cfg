SPECIFICATION Spec
CONSTANTS
  Conns = {c1, c2}
  Processes = {c1}
  Entities = {e1, e2}
  NoConn = NoConn
  NullEntity = NullEntity
  Capacity = 1
  MaxClientId = 2
  MaxNetworkId = 1
  MaxAccepted = 2
  MaxStarts = 2
  Failures = {"disconnect", "reconnect", "stop"}
  Traffic = {"app"}
  Interleaving = FALSE
SYMMETRY Symmetry
INVARIANTS ReadyAgreement NewsAreTaken ReplicaExact
