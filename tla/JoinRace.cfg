SPECIFICATION Spec
CONSTANTS
  Conns = {c1}
  Processes = {c1}
  Entities = {e1}
  NoConn = NoConn
  NullEntity = NullEntity
  Capacity = 3
  MaxClientId = 2
  MaxNetworkId = 1
  MaxAccepted = 1
  MaxStarts = 1
  Failures = {}
  Traffic = {}
  Interleaving = FALSE
SYMMETRY Symmetry
INVARIANT NewsFit
