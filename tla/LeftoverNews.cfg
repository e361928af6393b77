SPECIFICATION Spec
CONSTANTS
  Conns = {c1, c2}
  Processes = {c1}
  Entities = {e1, e2}
  NoConn = NoConn
  NullEntity = NullEntity
  Capacity = 1
  MaxClientId = 2
  MaxNetworkId = 1
  MaxAccepted = 1
  MaxStarts = 1
  Failures = {"reconnect"}
  Traffic = {"app"}
  Interleaving = FALSE
SYMMETRY Symmetry
INVARIANT FreshSession
