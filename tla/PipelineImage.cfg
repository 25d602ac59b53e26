SPECIFICATION Spec
CONSTANTS
  Requests = {"photo", "probe", "alien"}
  Input <- ImageInput
  Tenants = {"acme", "bolt"}
  FileNames = {"f", "g"}
  Dims = {d1}
  SearchDoc = SearchDoc
  None = None
  Engines = {"e1"}
  MaxDeliver = 2
  MaxFaults = 1
  FaultKinds = {"expiry", "read", "publish", "restart"}
INVARIANTS
  TenantIsolation
  EveryEventHasAHandler
  OneRowPerPart
  ContentOfOwnUri
PROPERTIES
  ImplementsTenantIndex
CHECK_DEADLOCK FALSE
