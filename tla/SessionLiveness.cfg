SPECIFICATION FairSpec
CONSTANTS
  Conns = {c1}
  Processes = {c1}
  Entities = {e1}
  NoConn = NoConn
  NullEntity = NullEntity
  Capacity = 2
  MaxClientId = 1
  MaxNetworkId = 1
  MaxAccepted = 1
  MaxStarts = 1
  Failures = {"break", "exit", "disconnect", "stop"}
  Traffic = {"snapshot"}
  Interleaving = TRUE
INVARIANT InitializedFirst
PROPERTIES EventuallyReady LossIsReported ReplicaFollows
