SPECIFICATION Spec
CONSTANTS
  Conns = {c1, c2}
  Processes = {c1, c2}
  Entities = {e1, e2}
  NoConn = NoConn
  NullEntity = NullEntity
  Capacity = 2
  MaxClientId = 2
  MaxNetworkId = 0
  MaxAccepted = 2
  MaxStarts = 1
  Failures = {}
  Traffic = {}
  Interleaving = FALSE
SYMMETRY Symmetry
INVARIANT IdsAgree
