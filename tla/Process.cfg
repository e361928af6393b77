SPECIFICATION ProcessSpec
CONSTANTS
  Entities = {e1, e2, e3, e4}
  NullEntity = NullEntity
  MaxClientId = 5
  Second = 6
  Rates = {0, 2, 3}
  MaxTime = 7
  MaxEarly = 2
  Descriptors = {d1, d2, d3}
  Invalid = Invalid
  Ports = {7}
  MaxAddresses = 2
  Port = 7
  MaxWsa = 4
  TcpSockets = {s1, s2}
  UdpSockets = {u1}
  Threads = {t1, t2}
  Nobody = Nobody
SYMMETRY Symmetry
INVARIANTS
  RegistryInv TimeIsAccounted TicksArePaired CaughtUp
  WsaCoversEngines DescriptorsAccounted EnginesNeverBlock StoppedIsSilent
  OneOwner PortsReported OnlyTheseHang
PROPERTY ImplementsClientMap
