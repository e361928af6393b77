SPECIFICATION Spec
CONSTANTS
  Conns = {c1}
  Processes = {c1}
  Entities = {e1}
  NoConn = NoConn
  NullEntity = NullEntity
  Capacity = 2
  MaxClientId = 2
  MaxNetworkId = 0
  MaxAccepted = 1
  MaxStarts = 1
  Failures = {"disconnect", "exit"}
  Traffic = {}
  Interleaving = FALSE
SYMMETRY Symmetry
INVARIANT SocketsAreOwned
